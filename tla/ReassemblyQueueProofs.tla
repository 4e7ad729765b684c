----------------------- MODULE ReassemblyQueueProofs -----------------------
(***************************************************************************)
(* What the operations of module ReassemblyQueue do to a queue, for queues  *)
(* of any size: add() puts exactly the bytes of the segment into the queue, *)
(* clearto() takes exactly those below its argument out of it, both keep    *)
(* the blocks separated and total_ exact, and nexthole() finds the first    *)
(* byte that is missing.                                                    *)
(***************************************************************************)
EXTENDS ReassemblyQueue, WellFoundedInduction, FiniteSetTheorems, TLAPS

\* The blocks of a queue whose bytes are below n.
Good(B, n) ==
    /\ B \subseteq Block
    /\ \A b \in B : b.s <= b.e /\ b.e <= n
    /\ Separated(B)

\* total_ counts the bytes.
Counted(rq) == rq.total = Cardinality(BytesOf(rq.blocks))

\* Only a block that ends at n has a FIN.
FinAt(B, n) == \A b \in B : b.fin => b.e = n

\* No block is empty.
Filled(B) == \A b \in B : b.s < b.e

\* A pointer into a list of blocks.
Pointer(p, B) == p \subseteq B /\ (p = {} \/ \E b \in B : p = {b})

\* res is what add() should return for the segment [start, end) and a queue
\* whose bytes are below n: the queue has the bytes of the segment too, and
\* if nothing in it was in order, nxt is now behind what has become so.
Adds(rq, res, start, end, fin, n) ==
    LET B == rq.blocks
        C == res.rq.blocks
    IN /\ res.rq \in QueueType /\ res.flags \in BOOLEAN
       /\ Good(C, n)
       /\ BytesOf(C) = BytesOf(B) \cup (start .. (end - 1))
       /\ Counted(rq) => Counted(res.rq)
       /\ start < end /\ Filled(B) => Filled(C)
       /\ FinAt(B, n) /\ (fin => end = n) => FinAt(C, n)
       /\ HasFin(C) \/ res.flags => HasFin(B) \/ fin
       /\ rq.nxt <= start /\ (\A b \in B : rq.nxt < b.s) =>
             /\ rq.nxt < start => res.rq.nxt = rq.nxt /\ \A c \in C : rq.nxt < c.s
             /\ rq.nxt = start =>
                   /\ \A c \in C : start <= c.s
                   /\ \E c \in C : c.s = start /\ res.rq.nxt = c.e /\ (res.flags => c.fin)

-----------------------------------------------------------------------------
(* Sets of blocks *)

\* A set of natural numbers has a least element.
LEMMA Least ==
    ASSUME NEW T \in SUBSET Nat, T # {}
    PROVE  \E x \in T : \A y \in T : x <= y
<1>1. OpToRel(<, Nat) = {ss \in Nat \X Nat : ss[1] < ss[2]}
  BY DEF OpToRel
<1>2. PICK x \in T : \A y \in T : ~(<<y, x>> \in {ss \in Nat \X Nat : ss[1] < ss[2]})
  BY <1>1, NatLessThanWellFounded, WFMin
<1>3. ASSUME NEW y \in T PROVE x <= y
  <2>1. <<y, x>> \in Nat \X Nat /\ <<y, x>>[1] = y /\ <<y, x>>[2] = x
    OBVIOUS
  <2>2. ~(y < x)
    BY <1>2, <2>1
  <2> QED BY <2>2
<1> QED BY <1>3

\* The bytes of a set of blocks, one by one.
LEMMA InBytes ==
    ASSUME NEW S, S \subseteq Block, NEW x
    PROVE  x \in BytesOf(S) <=> x \in Nat /\ \E b \in S : b.s <= x /\ x < b.e
<1>1. \A b \in S : b.s \in Nat /\ b.e \in Nat
  BY DEF Block
<1>2. x \in BytesOf(S) <=> \E b \in S : x \in b.s .. (b.e - 1)
  BY DEF BytesOf
<1>3. \A b \in S : x \in b.s .. (b.e - 1) <=> x \in Nat /\ b.s <= x /\ x < b.e
  BY <1>1
<1> QED BY <1>2, <1>3

\* The bytes below n are finitely many.
LEMMA BytesFinite ==
    ASSUME NEW n \in Nat, NEW B, Good(B, n)
    PROVE  /\ BytesOf(B) \subseteq 0 .. (n - 1)
           /\ IsFiniteSet(BytesOf(B))
           /\ Cardinality(BytesOf(B)) \in Nat
<1>1. BytesOf(B) \subseteq 0 .. (n - 1)
  <2> SUFFICES ASSUME NEW x \in BytesOf(B) PROVE x \in 0 .. (n - 1)
    OBVIOUS
  <2>1. x \in Nat /\ \E b \in B : b.s <= x /\ x < b.e
    BY InBytes DEF Good
  <2>2. \A b \in B : b.e \in Nat /\ b.e <= n
    BY DEF Good, Block
  <2> QED BY <2>1, <2>2
<1>2. IsFiniteSet(0 .. (n - 1))
  BY FS_Interval
<1>3. IsFiniteSet(BytesOf(B))
  BY <1>1, <1>2, FS_Subset
<1> QED BY <1>1, <1>3, FS_CardinalityType

\* Adding an interval of new bytes.
LEMMA CountAdded ==
    ASSUME NEW A, IsFiniteSet(A), NEW a \in Nat, NEW z \in Nat, a <= z,
           A \cap (a .. (z - 1)) = {}
    PROVE  Cardinality(A \cup (a .. (z - 1))) = Cardinality(A) + (z - a)
<1>1. IsFiniteSet(a .. (z - 1)) /\ Cardinality(a .. (z - 1)) = z - a
  <2> DEFINE y == z - 1
  <2>1. a \in Int /\ y \in Int /\ (IF a > y THEN 0 ELSE y - a + 1) = z - a
    OBVIOUS
  <2> HIDE DEF y
  <2>2. IsFiniteSet(a .. y) /\ Cardinality(a .. y) = z - a
    BY <2>1, FS_Interval
  <2> QED BY <2>2 DEF y
<1>2. Cardinality(A) \in Nat
  BY FS_CardinalityType
<1>3. Cardinality(A \cup (a .. (z - 1))) = Cardinality(A) + Cardinality(a .. (z - 1)) - 0
  BY <1>1, FS_Union, FS_EmptySet
<1> QED BY <1>1, <1>2, <1>3

\* Blocks that start at the same byte are the same.
LEMMA StartsDiffer ==
    ASSUME NEW n \in Nat, NEW B, Good(B, n), NEW a \in B, NEW b \in B, a # b
    PROVE  (a.s < b.s /\ a.e < b.s) \/ (b.s < a.s /\ b.e < a.s)
  BY DEF Good, Separated, Block

\* The first of some blocks.
LEMMA FirstIs ==
    ASSUME NEW n \in Nat, NEW B, Good(B, n), NEW S \in SUBSET B, S # {}
    PROVE  \E b \in S : FirstOf(S) = {b} /\ \A r \in S : b.s <= r.s
<1>1. \A b \in B : b.s \in Nat
  BY DEF Good, Block
<1> DEFINE T == {b.s : b \in S}
<1>2. T \in SUBSET Nat /\ T # {}
  BY <1>1
<1>3. PICK x \in T : \A y \in T : x <= y
  BY <1>2, Least
<1>4. PICK b \in S : b.s = x
  BY <1>3
<1>5. \A r \in S : b.s <= r.s
  BY <1>3, <1>4
<1>6. \A r \in S : r.s <= b.s => r = b
  <2> SUFFICES ASSUME NEW r \in S, r.s <= b.s, r # b PROVE FALSE
    OBVIOUS
  <2>1. r \in B /\ b \in B
    OBVIOUS
  <2>2. r.s < b.s \/ b.s < r.s
    BY <2>1, StartsDiffer
  <2> QED BY <2>1, <2>2, <1>1, <1>5
<1>7. FirstOf(S) = {b}
  BY <1>5, <1>6 DEF FirstOf
<1> QED BY <1>5, <1>7

\* The last of some blocks.
LEMMA LastIs ==
    ASSUME NEW n \in Nat, NEW B, Good(B, n), NEW S \in SUBSET B, S # {}
    PROVE  \E b \in S : LastOf(S) = {b} /\ \A r \in S : r.s <= b.s
<1>1. \A b \in B : b.s \in Nat /\ n - b.s \in Nat
  BY DEF Good, Block
<1> DEFINE T == {n - b.s : b \in S}
<1>2. T \in SUBSET Nat /\ T # {}
  BY <1>1
<1>3. PICK x \in T : \A y \in T : x <= y
  BY <1>2, Least
<1>4. PICK b \in S : n - b.s = x
  BY <1>3
<1>5. \A r \in S : r.s <= b.s
  <2> SUFFICES ASSUME NEW r \in S PROVE r.s <= b.s
    OBVIOUS
  <2>1. n - b.s <= n - r.s
    BY <1>3, <1>4
  <2> QED BY <2>1, <1>1
<1>6. \A r \in S : b.s <= r.s => r = b
  <2> SUFFICES ASSUME NEW r \in S, b.s <= r.s, r # b PROVE FALSE
    OBVIOUS
  <2>1. r \in B /\ b \in B
    OBVIOUS
  <2>2. r.s < b.s \/ b.s < r.s
    BY <2>1, StartsDiffer
  <2> QED BY <2>1, <2>2, <1>1, <1>5
<1>7. LastOf(S) = {b}
  BY <1>5, <1>6 DEF LastOf
<1> QED BY <1>5, <1>7

\* The first and the last of no blocks.
LEMMA NoFirstNoLast == FirstOf({}) = {} /\ LastOf({}) = {}
  BY DEF FirstOf, LastOf

\* What a pointer to b holds.
LEMMA PointsTo ==
    ASSUME NEW b, NEW x
    PROVE  StartOf({b}, x) = b.s /\ EndOf({b}, x) = b.e /\ StartOf({}, x) = x /\ EndOf({}, x) = x
<1>1. (CHOOSE y \in {b} : TRUE) = b /\ {b} # {}
  OBVIOUS
<1> QED BY <1>1 DEF StartOf, EndOf

\* The ends of a list of blocks.
LEMMA ListEnds ==
    ASSUME NEW n \in Nat, NEW B, Good(B, n), B # {}
    PROVE  /\ minseq(B) \in Nat /\ maxseq(B) \in Nat
           /\ \E b \in B : FirstOf(B) = {b} /\ minseq(B) = b.s /\ \A r \in B : b.s <= r.s
           /\ \E b \in B : LastOf(B) = {b} /\ maxseq(B) = b.e /\ \A r \in B : r.s <= b.s /\ r.e <= b.e
<1>1. PICK f \in B : FirstOf(B) = {f} /\ \A r \in B : f.s <= r.s
  BY FirstIs
<1>2. PICK l \in B : LastOf(B) = {l} /\ \A r \in B : r.s <= l.s
  BY LastIs
<1>3. minseq(B) = f.s /\ maxseq(B) = l.e
  BY <1>1, <1>2, PointsTo DEF minseq, maxseq
<1>4. \A r \in B : r.s \in Nat /\ r.e \in Nat /\ r.s <= r.e
  BY DEF Good, Block
<1>5. \A r \in B : r.e <= l.e
  <2> SUFFICES ASSUME NEW r \in B, r # l PROVE r.e <= l.e
    BY <1>4
  <2>1. r.s < l.s /\ r.e < l.s
    BY <1>2, <1>4, StartsDiffer
  <2> QED BY <2>1, <1>4
<1> QED BY <1>1, <1>2, <1>3, <1>4, <1>5

-----------------------------------------------------------------------------
(* add(): the last step, which links the new block *)

\* What link() returns: the blocks are separated, the bytes of the segment are
\* in the list, and a new block stands for the segment and what it touches.
Links(rq, res, p, start, end, fin, n) ==
    LET B == rq.blocks
        C == res.rq.blocks
    IN /\ res.rq \in QueueType /\ res.flags \in BOOLEAN
       /\ Good(C, n)
       /\ BytesOf(C) = BytesOf(B) \cup (start .. (end - 1))
       /\ Counted(rq) => Counted(res.rq)
       /\ (\A b \in B : b.fin => b.e = n \/ (fin /\ b \in p /\ b.e = start)) /\ (fin => end = n)
             => FinAt(C, n)
       /\ HasFin(C) \/ res.flags => HasFin(B) \/ fin
       /\ \E new \in C :
             /\ \A c \in C : c = new \/ c \in B
             /\ start < end => new.s < new.e
             /\ new.s = start \/ \E b \in p : new.s = b.s
             /\ res.rq.nxt = Advance(rq.nxt, new)
             /\ res.flags = new.fin

\* link() keeps the blocks separated, and puts the bytes of the segment, none
\* of which was there, into the list.  The new block starts and ends where the
\* segment or the block it touches does.
LEMMA LinkAdds ==
    ASSUME NEW n \in Nat, NEW rq \in QueueType, Good(rq.blocks, n),
           NEW p, Pointer(p, rq.blocks), NEW q, Pointer(q, rq.blocks),
           NEW start \in Nat, NEW end \in Nat, NEW fin \in BOOLEAN,
           start <= end, end <= n, start < end \/ q = {},
           \A b \in p : b.e <= start, \A b \in q : end <= b.s,
           \A b \in rq.blocks : (\E r \in p : b.s <= r.s) \/ (\E r \in q : b.s >= r.s)
    PROVE  Links(rq, link(rq, p, q, start, end, fin), p, start, end, fin, n)
<1> DEFINE B == rq.blocks
           left == {b \in p : b.e = start}
           right == {b \in q : b.s = end}
           new == [s   |-> StartOf(left, start),
                   e   |-> EndOf(right, end),
                   fin |-> fin \/ HasFin(IF left = {} THEN right ELSE left)]
           C == (B \ (left \cup right)) \cup {new}
           res == link(rq, p, q, start, end, fin)
<1>t. /\ B \subseteq Block /\ p \subseteq B /\ q \subseteq B /\ rq.total \in Int /\ rq.nxt \in Int
      /\ \A b \in B : b.s \in Nat /\ b.e \in Nat /\ b.fin \in BOOLEAN /\ b.s <= b.e /\ b.e <= n
  BY DEF QueueType, Good, Block, Pointer
<1>1. {b \in B : (\E r \in p : b.s <= r.s) \/ (\E r \in q : b.s >= r.s)} = B
  OBVIOUS
<1>2. res = [rq    |-> [blocks |-> C,
                        total  |-> rq.total + (end - start),
                        nxt    |-> Advance(rq.nxt, new)],
             flags |-> new.fin]
  BY <1>1 DEF link
<1>3. (left = {} /\ new.s = start) \/ (\E l \in p : left = {l} /\ p = {l} /\ l.e = start /\ new.s = l.s)
  <2>1. CASE left = {}
    BY <2>1, PointsTo
  <2>2. CASE left # {}
    <3>1. PICK l \in B : p = {l}
      BY <2>2 DEF Pointer
    <3>2. left = {l} /\ l.e = start
      BY <2>2, <3>1
    <3> QED BY <3>1, <3>2, PointsTo
  <2> QED BY <2>1, <2>2
<1>4. (right = {} /\ new.e = end) \/ (\E r \in q : right = {r} /\ q = {r} /\ r.s = end /\ new.e = r.e)
  <2>1. CASE right = {}
    BY <2>1, PointsTo
  <2>2. CASE right # {}
    <3>1. PICK r \in B : q = {r}
      BY <2>2 DEF Pointer
    <3>2. right = {r} /\ r.s = end
      BY <2>2, <3>1
    <3> QED BY <3>1, <3>2, PointsTo
  <2> QED BY <2>1, <2>2
<1>5. new.fin \in BOOLEAN
  BY DEF HasFin
<1>6. new.s \in Nat /\ new.e \in Nat /\ new.s <= start /\ end <= new.e /\ new.e <= n
  BY <1>3, <1>4, <1>t
<1>7. new \in Block
  BY <1>5, <1>6 DEF Block
<1>f. new.fin <=> fin \/ HasFin(IF left = {} THEN right ELSE left)
  OBVIOUS
<1> HIDE DEF new
\* The other blocks are apart from the new one.
<1>8. \A b \in B \ (left \cup right) : b.e < new.s \/ new.e < b.s
  <2> SUFFICES ASSUME NEW b \in B, b \notin left, b \notin right
               PROVE  b.e < new.s \/ new.e < b.s
    OBVIOUS
  <2>1. CASE \E l \in p : b.s <= l.s
    <3>1. PICK l \in p : b.s <= l.s
      BY <2>1
    <3>2. CASE b = l
      BY <3>2, <1>3, <1>t
    <3>3. CASE b # l
      <4>1. b.e < l.s
        BY <3>1, <3>3, <1>t, StartsDiffer
      <4> QED BY <4>1, <1>3, <1>t
    <3> QED BY <3>2, <3>3
  <2>2. CASE \E r \in q : b.s >= r.s
    <3>1. PICK r \in q : b.s >= r.s
      BY <2>2
    <3>2. CASE b = r
      BY <3>2, <1>4, <1>t
    <3>3. CASE b # r
      <4>1. r.e < b.s
        BY <3>1, <3>3, <1>t, StartsDiffer
      <4> QED BY <4>1, <1>4, <1>t
    <3> QED BY <3>2, <3>3
  <2> QED BY <2>1, <2>2
<1>9. Good(C, n)
  <2>1. C \subseteq Block /\ \A b \in C : b.s <= b.e /\ b.e <= n
    BY <1>t, <1>6, <1>7
  <2>2. Separated(C)
    BY <1>8 DEF Separated, Good
  <2> QED BY <2>1, <2>2 DEF Good
<1>10. \A x \in Nat : x \in BytesOf(C) <=> x \in BytesOf(B) \/ x \in start .. (end - 1)
  <2> SUFFICES ASSUME NEW x \in Nat
               PROVE  x \in BytesOf(C) <=> x \in BytesOf(B) \/ (start <= x /\ x < end)
    OBVIOUS
  <2>1. C \subseteq Block
    BY <1>9 DEF Good
  <2>2. x \in BytesOf(C) <=> \E b \in C : b.s <= x /\ x < b.e
    BY <2>1, InBytes
  <2>3. x \in BytesOf(B) <=> \E b \in B : b.s <= x /\ x < b.e
    BY <1>t, InBytes
  <2>4. (new.s <= x /\ x < new.e) <=>
           \/ start <= x /\ x < end
           \/ \E b \in left \cup right : b.s <= x /\ x < b.e
    <3>1. (new.s <= x /\ x < start) <=> \E b \in left : b.s <= x /\ x < b.e
      BY <1>3, <1>t
    <3>2. (end <= x /\ x < new.e) <=> \E b \in right : b.s <= x /\ x < b.e
      BY <1>4, <1>t
    <3> QED BY <3>1, <3>2, <1>6
  <2>5. left \cup right \subseteq B
    BY <1>t
  <2> QED BY <2>2, <2>3, <2>4, <2>5
<1>11. BytesOf(C) = BytesOf(B) \cup (start .. (end - 1))
  <2>1. BytesOf(C) \subseteq Nat /\ BytesOf(B) \subseteq Nat /\ start .. (end - 1) \subseteq Nat
    BY <1>9, <1>t, InBytes DEF Good
  <2> QED BY <2>1, <1>10
<1>12. BytesOf(B) \cap (start .. (end - 1)) = {}
  <2> SUFFICES ASSUME NEW x \in BytesOf(B), start <= x, x < end PROVE FALSE
    OBVIOUS
  <2>1. x \in Nat /\ \E b \in B : b.s <= x /\ x < b.e
    BY <1>t, InBytes
  <2>2. PICK b \in B : b.s <= x /\ x < b.e
    BY <2>1
  <2>3. CASE \E l \in p : b.s <= l.s
    <3>1. PICK l \in p : b.s <= l.s
      BY <2>3
    <3>2. l.e <= start /\ (b = l \/ b.e < l.s)
      BY <3>1, <1>t, StartsDiffer
    <3> QED BY <2>1, <2>2, <3>2, <1>t
  <2>4. CASE \E r \in q : b.s >= r.s
    BY <2>1, <2>2, <2>4, <1>t
  <2> QED BY <2>3, <2>4
<1>13. Counted(rq) => rq.total + (end - start) = Cardinality(BytesOf(C))
  BY <1>11, <1>12, BytesFinite, CountAdded DEF Counted
<1>14. new.fin => fin \/ \E b \in left \cup right : b.fin
  BY <1>f DEF HasFin
<1>15. ASSUME \A b \in B : b.fin => b.e = n \/ (fin /\ b \in p /\ b.e = start), fin => end = n
       PROVE  FinAt(C, n)
  <2>1. \A b \in B \ (left \cup right) : b.fin => b.e = n
    BY <1>15
  <2>2. new.fin => new.e = n
    <3>1. CASE fin
      BY <3>1, <1>15, <1>6
    <3>2. CASE ~fin
      <4>1. ASSUME NEW b \in left, b.fin PROVE new.e = n
        <5>1. b.e = n /\ b.e = start
          BY <4>1, <3>2, <1>15, <1>t
        <5> QED BY <5>1, <1>6
      <4>2. ASSUME NEW b \in right, b.fin PROVE new.e = n
        <5>1. b.e = n
          BY <4>2, <3>2, <1>15, <1>t
        <5> QED BY <5>1, <4>2, <1>4
      <4> QED BY <4>1, <4>2, <3>2, <1>14
    <3> QED BY <3>1, <3>2
  <2> QED BY <2>1, <2>2 DEF FinAt
<1>16. HasFin(C) \/ new.fin => HasFin(B) \/ fin
  BY <1>14, <1>t DEF HasFin
<1>17. new.s = start \/ \E b \in p : new.s = b.s
  BY <1>3
<1>18. Advance(rq.nxt, new) \in Int
  BY <1>6, <1>t DEF Advance
<1>19. [blocks |-> C, total |-> rq.total + (end - start), nxt |-> Advance(rq.nxt, new)] \in QueueType
  BY <1>18, <1>9, <1>t DEF QueueType, Good
<1> HIDE DEF res
<1>20. /\ res.rq = [blocks |-> C, total |-> rq.total + (end - start), nxt |-> Advance(rq.nxt, new)]
       /\ res.rq.blocks = C /\ res.rq.total = rq.total + (end - start)
       /\ res.rq.nxt = Advance(rq.nxt, new) /\ res.flags = new.fin
  BY <1>2
<1>21. Counted(rq) => Counted(res.rq)
  BY <1>20, <1>13 DEF Counted
<1>22. \E c0 \in C : /\ \A c \in C : c = c0 \/ c \in B
                     /\ start < end => c0.s < c0.e
                     /\ c0.s = start \/ \E b \in p : c0.s = b.s
                     /\ res.rq.nxt = Advance(rq.nxt, c0)
                     /\ res.flags = c0.fin
  <2>1. new \in C /\ (start < end => new.s < new.e)
    BY <1>6
  <2> QED BY <2>1, <1>17, <1>20
<1> HIDE DEF C, left, right
<1> QED BY <1>5, <1>9, <1>11, <1>15, <1>16, <1>19, <1>20, <1>21, <1>22 DEF res, Links

\* What is left of a segment, [start2, end2), may be linked between p and q
\* into rq2, a queue with the bytes of rq and, in some block, the flag of the
\* segment.
Linkable(rq, rq2, p, q, start, end, start2, end2, fin, n) ==
    /\ rq2 \in QueueType /\ Good(rq2.blocks, n)
    /\ Pointer(p, rq2.blocks) /\ Pointer(q, rq2.blocks)
    /\ start2 \in Nat /\ end2 \in Nat /\ start <= start2 /\ start2 <= end2 /\ end2 <= end
    /\ start2 < end2 \/ q = {}
    /\ start < end => start2 < end2
    /\ Filled(rq.blocks) => Filled(rq2.blocks)
    /\ \A b \in p : b.e <= start2
    /\ \A b \in q : end2 <= b.s
    /\ \A b \in rq2.blocks : (\E r \in p : b.s <= r.s) \/ (\E r \in q : b.s >= r.s)
    /\ BytesOf(rq2.blocks) = BytesOf(rq.blocks)
    /\ start .. (start2 - 1) \subseteq BytesOf(rq.blocks)
    /\ end2 .. (end - 1) \subseteq BytesOf(rq.blocks)
    /\ rq2.total = rq.total /\ rq2.nxt = rq.nxt
    /\ \A c \in rq2.blocks : \E b \in rq.blocks : b.s = c.s
    /\ HasFin(rq2.blocks) => HasFin(rq.blocks) \/ fin
    /\ FinAt(rq.blocks, n) /\ (fin => end = n) =>
          /\ \A b \in rq2.blocks : b.fin => b.e = n \/ (fin /\ b \in p /\ b.e = start2)
          /\ fin => end2 = n
    /\ (\A b \in rq.blocks : start < b.s) => start2 = start

\* Then link() completes the work of add().
LEMMA LinkResult ==
    ASSUME NEW n \in Nat, NEW rq \in QueueType, NEW rq2, NEW p, NEW q,
           NEW start \in Nat, NEW end \in Nat, NEW start2, NEW end2, NEW fin \in BOOLEAN,
           end <= n, Linkable(rq, rq2, p, q, start, end, start2, end2, fin, n)
    PROVE  Adds(rq, link(rq2, p, q, start2, end2, fin), start, end, fin, n)
<1> USE DEF Linkable
<1> DEFINE res == link(rq2, p, q, start2, end2, fin)
           B == rq.blocks
           C == res.rq.blocks
<1>t. /\ rq2.nxt \in Int /\ rq2.blocks \subseteq Block /\ p \subseteq rq2.blocks
      /\ \A b \in rq2.blocks : b.s \in Nat /\ b.e \in Nat /\ b.s <= b.e
  BY DEF QueueType, Good, Block, Pointer
<1>1. end2 <= n
  OBVIOUS
<1>x. Links(rq2, res, p, start2, end2, fin, n)
  BY <1>1, LinkAdds
<1> HIDE DEF res
<1>2. /\ res.rq \in QueueType /\ res.flags \in BOOLEAN
      /\ Good(C, n)
      /\ BytesOf(C) = BytesOf(rq2.blocks) \cup (start2 .. (end2 - 1))
      /\ Counted(rq2) => Counted(res.rq)
      /\ (\A b \in rq2.blocks : b.fin => b.e = n \/ (fin /\ b \in p /\ b.e = start2))
            /\ (fin => end2 = n) => FinAt(C, n)
      /\ HasFin(C) \/ res.flags => HasFin(rq2.blocks) \/ fin
  BY <1>x DEF Links
<1>3. PICK new \in C :
            /\ \A c \in C : c = new \/ c \in rq2.blocks
            /\ start2 < end2 => new.s < new.e
            /\ new.s = start2 \/ \E b \in p : new.s = b.s
            /\ res.rq.nxt = Advance(rq2.nxt, new)
            /\ res.flags = new.fin
  BY <1>x DEF Links
<1>4. BytesOf(C) = BytesOf(B) \cup (start .. (end - 1))
  <2>1. start .. (end - 1) = (start .. (start2 - 1)) \cup (start2 .. (end2 - 1)) \cup (end2 .. (end - 1))
    OBVIOUS
  <2> QED BY <2>1, <1>2
<1>5. Counted(rq) => Counted(res.rq)
  BY <1>2 DEF Counted
<1>6. FinAt(B, n) /\ (fin => end = n) => FinAt(C, n)
  BY <1>2
<1>7. HasFin(C) \/ res.flags => HasFin(B) \/ fin
  BY <1>2
<1>8. ASSUME rq.nxt <= start, \A b \in B : rq.nxt < b.s
      PROVE  /\ rq.nxt < start => res.rq.nxt = rq.nxt /\ \A c \in C : rq.nxt < c.s
             /\ rq.nxt = start =>
                   /\ \A c \in C : start <= c.s
                   /\ \E c \in C : c.s = start /\ res.rq.nxt = c.e /\ (res.flags => c.fin)
  <2>1. \A b \in rq2.blocks : rq.nxt < b.s
    BY <1>8
  <2>2. CASE rq.nxt < start
    <3>1. rq.nxt < new.s
      BY <2>1, <2>2, <1>3, <1>t
    <3>2. new.s \in Nat
      BY <1>2, <1>3 DEF Good, Block
    <3>3. res.rq.nxt = rq.nxt
      BY <3>1, <3>2, <1>3, <1>t DEF Advance
    <3> QED BY <2>1, <2>2, <3>1, <3>3, <1>3
  <2>3. CASE rq.nxt = start
    <3>1. start2 = start
      BY <2>3, <1>8
    <3>2. p = {}
      BY <3>1, <2>1, <2>3, <1>t
    <3>3. new.s = start
      BY <3>1, <3>2, <1>3
    <3>4. res.rq.nxt = new.e
      BY <3>3, <2>3, <1>3 DEF Advance
    <3>5. \A c \in C : start <= c.s
      BY <2>1, <2>3, <3>3, <1>3, <1>t
    <3>6. new \in C /\ (res.flags => new.fin)
      BY <1>3
    <3>7. ~(rq.nxt < start)
      BY <2>3
    <3> QED BY <3>3, <3>4, <3>5, <3>6, <3>7
  <2> QED BY <2>2, <2>3, <1>8, <1>t
<1>9. start < end /\ Filled(B) => Filled(C)
  BY <1>3 DEF Filled
<1> QED BY <1>2, <1>4, <1>5, <1>6, <1>7, <1>8, <1>9 DEF Adds, res

-----------------------------------------------------------------------------
(* add(): blocks that overlap the segment are stretched *)

\* Stretching a block without touching another.
LEMMA Replace ==
    ASSUME NEW n \in Nat, NEW B, Good(B, n), NEW f \in B, NEW g \in Block,
           g.s <= f.s, f.e <= g.e, g.e <= n,
           \A b \in B \ {f} : b.e < g.s \/ g.e < b.s
    PROVE  /\ Good((B \ {f}) \cup {g}, n)
           /\ BytesOf((B \ {f}) \cup {g}) = BytesOf(B) \cup (g.s .. (g.e - 1))
           /\ Cardinality(BytesOf((B \ {f}) \cup {g})) =
                 Cardinality(BytesOf(B)) + (f.s - g.s) + (g.e - f.e)
<1> DEFINE C == (B \ {f}) \cup {g}
<1>t. /\ B \subseteq Block /\ g.s \in Nat /\ g.e \in Nat
      /\ \A b \in B : b.s \in Nat /\ b.e \in Nat /\ b.s <= b.e /\ b.e <= n
  BY DEF Good, Block
<1>1. Good(C, n)
  <2>1. C \subseteq Block /\ \A b \in C : b.s <= b.e /\ b.e <= n
    BY <1>t
  <2>2. Separated(C)
    BY DEF Separated, Good
  <2> QED BY <2>1, <2>2 DEF Good
<1>2. ASSUME NEW x \in Nat
      PROVE  /\ x \in BytesOf(C) <=> \E b \in C : b.s <= x /\ x < b.e
             /\ x \in BytesOf(B) <=> \E b \in B : b.s <= x /\ x < b.e
  BY <1>1, <1>t, InBytes DEF Good
<1>3. BytesOf(C) = BytesOf(B) \cup (g.s .. (g.e - 1))
  <2>1. BytesOf(C) \subseteq Nat /\ BytesOf(B) \subseteq Nat /\ g.s .. (g.e - 1) \subseteq Nat
    BY <1>1, <1>t, InBytes DEF Good
  <2>2. ASSUME NEW x \in Nat
        PROVE  x \in BytesOf(C) <=> x \in BytesOf(B) \/ x \in g.s .. (g.e - 1)
    <3>1. x \in g.s .. (g.e - 1) <=> g.s <= x /\ x < g.e
      BY <1>t
    <3>2. f.s <= x /\ x < f.e => g.s <= x /\ x < g.e
      BY <1>t
    <3> QED BY <3>1, <3>2, <1>2
  <2> QED BY <2>1, <2>2
\* The two ends that are new.
<1>4. ASSUME NEW x \in BytesOf(B), g.s <= x, x < g.e PROVE f.s <= x /\ x < f.e
  <2>1. x \in Nat /\ \E b \in B : b.s <= x /\ x < b.e
    BY <1>t, InBytes
  <2>2. PICK b \in B : b.s <= x /\ x < b.e
    BY <2>1
  <2>3. b = f
    BY <2>1, <2>2, <1>4, <1>t
  <2> QED BY <2>2, <2>3
<1>5. IsFiniteSet(BytesOf(B)) /\ Cardinality(BytesOf(B)) \in Nat
  BY BytesFinite
<1> DEFINE A == BytesOf(B) \cup (g.s .. (f.s - 1))
<1>6. Cardinality(A) = Cardinality(BytesOf(B)) + (f.s - g.s)
  <2>1. BytesOf(B) \cap (g.s .. (f.s - 1)) = {}
    BY <1>4, <1>t
  <2> QED BY <2>1, <1>5, <1>t, CountAdded
<1>7. IsFiniteSet(A)
  <2>1. IsFiniteSet(g.s .. (f.s - 1))
    <3>1. (f.s - 1) \in Int /\ g.s \in Int
      BY <1>t
    <3> QED BY <3>1, FS_Interval
  <2> QED BY <2>1, <1>5, FS_Union
<1>8. Cardinality(A \cup (f.e .. (g.e - 1))) = Cardinality(A) + (g.e - f.e)
  <2>1. A \cap (f.e .. (g.e - 1)) = {}
    BY <1>4, <1>t
  <2> HIDE DEF A
  <2> QED BY <2>1, <1>7, <1>t, CountAdded
<1>9. A \cup (f.e .. (g.e - 1)) = BytesOf(C)
  <2>1. f.s .. (f.e - 1) \subseteq BytesOf(B)
    BY DEF BytesOf
  <2>2. g.s .. (g.e - 1) = (g.s .. (f.s - 1)) \cup (f.s .. (f.e - 1)) \cup (f.e .. (g.e - 1))
    BY <1>t
  <2> QED BY <2>1, <2>2, <1>3
<1> QED BY <1>1, <1>3, <1>6, <1>8, <1>9

\* The block f, which overlaps or touches the segment, may be stretched to g,
\* which covers both; then C are the blocks and T is total_.
Stretches(rq, f, g, C, T, start, end, fin) ==
    /\ C = (rq.blocks \ {f}) \cup {g}
    /\ T = rq.total + (f.s - g.s) + (g.e - f.e)
    /\ f \in rq.blocks /\ g \in Block
    /\ f.s <= end /\ start <= f.e
    /\ g.s = IF start < f.s THEN start ELSE f.s
    /\ g.e = IF end > f.e THEN end ELSE f.e
    /\ g.fin <=> f.fin \/ fin
    /\ \A b \in rq.blocks \ {f} : b.e < g.s \/ g.e < b.s

\* What stretch() returns when nothing is left to link.
Stretched(rq, C, total, fin) ==
    [rq    |-> [blocks |-> C, total |-> total,
                nxt |-> IF rq.nxt >= minseq(C) THEN EndOf(FirstOf(C), rq.nxt) ELSE rq.nxt],
     flags |-> fin]

\* Then the work of add() is done.
LEMMA StretchDone ==
    ASSUME NEW n \in Nat, NEW rq \in QueueType, Good(rq.blocks, n), NEW f, NEW g, NEW C, NEW T,
           NEW start \in Nat, NEW end \in Nat, NEW fin \in BOOLEAN, start < end, end <= n,
           Stretches(rq, f, g, C, T, start, end, fin)
    PROVE  Adds(rq, Stretched(rq, C, T, fin), start, end, fin, n)
<1> USE DEF Stretches
<1> DEFINE res == Stretched(rq, C, T, fin)
<1> DEFINE B == rq.blocks
           nxt == IF rq.nxt >= minseq(C) THEN EndOf(FirstOf(C), rq.nxt) ELSE rq.nxt
<1>t. /\ rq.nxt \in Int /\ rq.total \in Int
      /\ f.s \in Nat /\ f.e \in Nat /\ f.s <= f.e /\ f.e <= n
      /\ g.s \in Nat /\ g.e \in Nat
      /\ \A b \in B : b.s \in Nat /\ b.e \in Nat
  BY DEF Good, Block, QueueType
<1>1. g.s <= f.s /\ f.e <= g.e /\ g.e <= n /\ g.s <= start /\ end <= g.e
  BY <1>t
<1>2. /\ Good(C, n)
      /\ BytesOf(C) = BytesOf(B) \cup (g.s .. (g.e - 1))
      /\ Cardinality(BytesOf(C)) = Cardinality(BytesOf(B)) + (f.s - g.s) + (g.e - f.e)
  <2>1. \A b \in B \ {f} : b.e < g.s \/ g.e < b.s
    OBVIOUS
  <2>2. C = (B \ {f}) \cup {g} /\ f \in B /\ Good(B, n)
    OBVIOUS
  <2> HIDE DEF B
  <2>3. /\ Good((B \ {f}) \cup {g}, n)
        /\ BytesOf((B \ {f}) \cup {g}) = BytesOf(B) \cup (g.s .. (g.e - 1))
        /\ Cardinality(BytesOf((B \ {f}) \cup {g})) =
              Cardinality(BytesOf(B)) + (f.s - g.s) + (g.e - f.e)
    BY <2>1, <2>2, <1>1, Replace
  <2> QED BY <2>2, <2>3
<1>3. BytesOf(C) = BytesOf(B) \cup (start .. (end - 1))
  <2>1. f.s .. (f.e - 1) \subseteq BytesOf(B)
    BY DEF BytesOf
  <2>2. g.s .. (g.e - 1) = (f.s .. (f.e - 1)) \cup (start .. (end - 1))
    BY <1>t
  <2> QED BY <2>1, <2>2, <1>2
<1>4. PICK c \in C : FirstOf(C) = {c} /\ minseq(C) = c.s /\ \A r \in C : c.s <= r.s
  BY <1>2, ListEnds
<1>5. nxt = IF rq.nxt >= c.s THEN c.e ELSE rq.nxt
  <2>1. EndOf(FirstOf(C), rq.nxt) = c.e
    BY <1>4, PointsTo
  <2> QED BY <2>1, <1>4
<1>6. \A b \in C : b.s \in Nat /\ b.e \in Nat
  BY <1>2 DEF Good, Block
<1> HIDE DEF nxt
<1>7. res = [rq |-> [blocks |-> C, total |-> T, nxt |-> nxt], flags |-> fin]
  BY DEF nxt, Stretched
<1> HIDE DEF res
<1>8. /\ res.rq = [blocks |-> C, total |-> T, nxt |-> nxt]
      /\ res.rq.blocks = C /\ res.rq.total = T
      /\ res.rq.nxt = nxt /\ res.flags = fin
  <2> DEFINE Q == [blocks |-> C, total |-> T, nxt |-> nxt]
  <2>2. Q.blocks = C /\ Q.total = T /\ Q.nxt = nxt
    OBVIOUS
  <2> HIDE DEF Q
  <2>3. res = [rq |-> Q, flags |-> fin]
    BY <1>7 DEF Q
  <2>4. res.rq = Q
    BY <2>3
  <2>5. res.flags = fin
    BY <2>3
  <2> QED BY <2>2, <2>4, <2>5 DEF Q
<1>9. res.rq \in QueueType
  <2>1. nxt \in Int
    BY <1>5, <1>6, <1>t
  <2> QED BY <2>1, <1>2, <1>8, <1>t DEF QueueType, Good
<1>10. Counted(rq) => Counted(res.rq)
  BY <1>2, <1>8 DEF Counted
<1>11. ASSUME FinAt(B, n), fin => end = n PROVE FinAt(C, n)
  <2>1. g.fin => g.e = n
    <3>1. CASE fin
      BY <3>1, <1>11, <1>1, <1>t
    <3>2. CASE f.fin
      BY <3>2, <1>11, <1>1, <1>t DEF FinAt
    <3> QED BY <3>1, <3>2
  <2> QED BY <2>1, <1>11 DEF FinAt
<1>12. HasFin(C) \/ fin => HasFin(B) \/ fin
  BY DEF HasFin
<1>13. ASSUME rq.nxt <= start, \A b \in B : rq.nxt < b.s
       PROVE  /\ rq.nxt < start => nxt = rq.nxt /\ \A d \in C : rq.nxt < d.s
              /\ rq.nxt = start =>
                    /\ \A d \in C : start <= d.s
                    /\ \E d \in C : d.s = start /\ nxt = d.e /\ (fin => d.fin)
  <2>1. CASE rq.nxt < start
    <3>1. \A d \in C : rq.nxt < d.s
      BY <2>1, <1>13, <1>t
    <3>2. nxt = rq.nxt
      BY <3>1, <1>4, <1>5, <1>6, <1>t
    <3> QED BY <2>1, <3>1, <3>2, <1>t
  <2>2. CASE rq.nxt = start
    <3>1. g.s = start /\ \A b \in B : start < b.s
      BY <2>2, <1>13, <1>t
    <3>2. c = g
      BY <3>1, <1>4, <1>6, <1>t
    <3>3. nxt = g.e /\ g \in C
      BY <3>1, <3>2, <2>2, <1>5, <1>t
    <3>4. \A d \in C : start <= d.s
      BY <3>1, <1>6, <1>t
    <3> QED BY <3>1, <3>3, <3>4, <2>2, <1>t
  <2> QED BY <2>1, <2>2, <1>13, <1>t
<1>14. Filled(B) => Filled(C)
  BY <1>1, <1>t DEF Filled
<1> QED BY <1>2, <1>3, <1>8, <1>9, <1>10, <1>11, <1>12, <1>13, <1>14 DEF Adds, res

\* Giving a block another flag.
LEMMA Reflag ==
    ASSUME NEW n \in Nat, NEW B, Good(B, n), NEW f \in B, NEW g \in Block, g.s = f.s, g.e = f.e
    PROVE  Good((B \ {f}) \cup {g}, n) /\ BytesOf((B \ {f}) \cup {g}) = BytesOf(B)
<1>1. /\ f.s \in Nat /\ f.e \in Nat /\ f.e <= n /\ f.s .. (f.e - 1) \subseteq BytesOf(B)
      /\ \A b \in B \ {f} : b.e < f.s \/ f.e < b.s
  BY DEF Good, Separated, Block, BytesOf
<1>2. g.s <= f.s /\ f.e <= g.e /\ g.e <= n /\ \A b \in B \ {f} : b.e < g.s \/ g.e < b.s
  BY <1>1
<1>3. /\ Good((B \ {f}) \cup {g}, n)
      /\ BytesOf((B \ {f}) \cup {g}) = BytesOf(B) \cup (g.s .. (g.e - 1))
      /\ Cardinality(BytesOf((B \ {f}) \cup {g})) =
            Cardinality(BytesOf(B)) + (f.s - g.s) + (g.e - f.e)
  BY ONLY <1>2, Replace, n \in Nat, Good(B, n), f \in B, g \in Block
<1> QED BY <1>1, <1>3

\* Changes of some fields of a queue.
LEMMA NewBlocks ==
    ASSUME NEW rq \in QueueType, NEW C, NEW t
    PROVE  [rq EXCEPT !.blocks = C, !.total = t] = [blocks |-> C, total |-> t, nxt |-> rq.nxt]
<1> DEFINE f == [rq EXCEPT !.blocks = C, !.total = t]
           g == [blocks |-> C, total |-> t, nxt |-> rq.nxt]
<1>1. DOMAIN rq = {"blocks", "total", "nxt"}
  BY DEF QueueType
<1>2. f = [i \in {"blocks", "total", "nxt"} |-> f[i]] /\ g = [i \in {"blocks", "total", "nxt"} |-> g[i]]
  BY <1>1
<1>3. f["blocks"] = C /\ f["total"] = t /\ f["nxt"] = rq.nxt
  BY <1>1
<1>4. g["blocks"] = C /\ g["total"] = t /\ g["nxt"] = rq.nxt
  OBVIOUS
<1> HIDE DEF f, g
<1>5. f = g
  BY <1>2, <1>3, <1>4
<1> QED BY <1>5 DEF f, g

\* A new value of rcv_nxt_ in a queue that is written out.
LEMMA NewNxt ==
    ASSUME NEW C, NEW t, NEW y, NEW x
    PROVE  [[blocks |-> C, total |-> t, nxt |-> y] EXCEPT !.nxt = x] =
              [blocks |-> C, total |-> t, nxt |-> x]
  OBVIOUS

\* stretch() adds a segment that covers no block and is neither behind the
\* last nor before the first one.
LEMMA StretchAdds ==
    ASSUME NEW n \in Nat, NEW rq \in QueueType, Good(rq.blocks, n), rq.blocks # {},
           NEW start \in Nat, NEW end \in Nat, NEW fin \in BOOLEAN, start < end, end <= n,
           start < maxseq(rq.blocks), minseq(rq.blocks) < end,
           \A b \in rq.blocks : ~(start <= b.s /\ b.s < end /\ b.e <= end)
    PROVE  Adds(rq, stretch(rq, start, end, fin), start, end, fin, n)
<1> DEFINE B == rq.blocks
           p == LastOf({b \in B : b.e <= start})
           q == FirstOf({b \in B : b.s >= end})
           pn == FirstOf({b \in B : \A r \in p : b.s > r.s})
           qp == LastOf({b \in B : \A r \in q : b.s < r.s})
           P == {b \in pn : p = {} \/ b.s < start}
           R == {b \in qp : q = {} \/ b.e > end}
           new(b) == [s   |-> IF b \in P /\ start < b.s THEN start ELSE b.s,
                      e   |-> IF b \in R /\ end > b.e THEN end ELSE b.e,
                      fin |-> b.fin \/ (fin /\ b \in P \cup R)]
           start2 == EndOf(P, start)
           end2 == StartOf({new(b) : b \in R}, end)
           C == {new(b) : b \in B}
           total == rq.total + (StartOf(P, start) - StartOf({new(b) : b \in P}, start))
                             + (EndOf({new(b) : b \in R}, end) - EndOf(R, end))
           rq2 == [blocks |-> C, total |-> total, nxt |-> rq.nxt]
           p2 == IF P = {} THEN p ELSE {new(b) : b \in P}
           q2 == IF R = {} THEN q ELSE {new(b) : b \in R}
           done == Stretched(rq, C, total, fin)
<1>t. /\ B \subseteq Block /\ rq.total \in Int /\ rq.nxt \in Int
      /\ \A b \in B : b.s \in Nat /\ b.e \in Nat /\ b.fin \in BOOLEAN /\ b.s <= b.e /\ b.e <= n
  BY DEF QueueType, Good, Block
<1>0. stretch(rq, start, end, fin) =
         IF end2 <= start2 THEN done ELSE link(rq2, p2, q2, start2, end2, fin)
  <2> DEFINE rq3 == [rq EXCEPT
                       !.blocks = C,
                       !.total  = @ + (StartOf(P, start) - StartOf({new(b) : b \in P}, start))
                                    + (EndOf({new(b) : b \in R}, end) - EndOf(R, end))]
  <2>2. stretch(rq, start, end, fin) =
           IF end2 <= start2
           THEN [rq    |-> [rq3 EXCEPT
                              !.nxt = IF @ >= minseq(rq3.blocks)
                                      THEN EndOf(FirstOf(rq3.blocks), @) ELSE @],
                 flags |-> fin]
           ELSE link(rq3, p2, q2, start2, end2, fin)
    BY DEF stretch
  <2> HIDE DEF C, P, R, new, start2, end2, p2, q2
  <2> HIDE DEF total
  <2>t. rq3 = [rq EXCEPT !.blocks = C, !.total = total]
    BY DEF total
  <2>3. rq3 = rq2
    BY <2>t, NewBlocks
  <2>4. [rq2 EXCEPT !.nxt = IF @ >= minseq(rq2.blocks)
                             THEN EndOf(FirstOf(rq2.blocks), @) ELSE @] = done.rq
    <3> DEFINE x == IF rq.nxt >= minseq(C) THEN EndOf(FirstOf(C), rq.nxt) ELSE rq.nxt
    <3>1. rq2.nxt = rq.nxt /\ rq2.blocks = C
      OBVIOUS
    <3> HIDE DEF x
    <3>2. [rq2 EXCEPT !.nxt = x] = [blocks |-> C, total |-> total, nxt |-> x]
      BY NewNxt
    <3>3. done.rq = [blocks |-> C, total |-> total, nxt |-> x]
      BY DEF x, Stretched
    <3> HIDE DEF done, rq2
    <3> QED BY <3>1, <3>2, <3>3 DEF x
  <2>5. [rq |-> done.rq, flags |-> fin] = done
    BY DEF Stretched
  <2> HIDE DEF rq3, rq2, done
  <2> QED BY <2>2, <2>3, <2>4, <2>5
<1>p. \/ p = {} /\ \A b \in B : start < b.e
      \/ \E pp \in B : p = {pp} /\ pp.e <= start /\ \A b \in B : b.e <= start => b.s <= pp.s
  <2> DEFINE S == {b \in B : b.e <= start}
  <2>1. CASE S = {}
    <3>1. p = {}
      BY <2>1, NoFirstNoLast
    <3> QED BY <2>1, <3>1, <1>t
  <2>2. CASE S # {}
    <3>1. \E pp \in S : LastOf(S) = {pp} /\ \A r \in S : r.s <= pp.s
      BY <2>2, LastIs
    <3> QED BY <3>1
  <2> QED BY <2>1, <2>2
<1>q. \/ q = {} /\ \A b \in B : b.s < end
      \/ \E qq \in B : q = {qq} /\ end <= qq.s /\ \A b \in B : end <= b.s => qq.s <= b.s
  <2> DEFINE S == {b \in B : b.s >= end}
  <2>1. CASE S = {}
    <3>1. q = {}
      BY <2>1, NoFirstNoLast
    <3> QED BY <2>1, <3>1, <1>t
  <2>2. CASE S # {}
    <3>1. \E qq \in S : FirstOf(S) = {qq} /\ \A r \in S : qq.s <= r.s
      BY <2>2, FirstIs
    <3> QED BY <3>1, <1>t
  <2> QED BY <2>1, <2>2
<1> HIDE DEF p, q
\* The block that is stretched on the left is the first one that ends behind
\* start, unless that one starts behind start too.
<1>P. \/ P = {} /\ p # {} /\ \A b \in B : ~(b.s < start /\ start < b.e)
      \/ \E f \in B : /\ P = {f} /\ start < f.e /\ f.s < end /\ (f.s < start \/ p = {})
                      /\ \A b \in B : b.s < f.s => b.e <= start
  <2> DEFINE S == {b \in B : \A r \in p : b.s > r.s}
  <2>1. CASE p = {}
    <3>1. S = B
      BY <2>1
    <3>2. PICK f \in B : FirstOf(B) = {f} /\ minseq(B) = f.s /\ \A r \in B : f.s <= r.s
      BY ListEnds
    <3>3. P = {f}
      BY <2>1, <3>1, <3>2
    <3>4. start < f.e /\ f.s < end
      BY <2>1, <3>2, <1>p
    <3> HIDE DEF P
    <3> QED BY <2>1, <3>2, <3>3, <3>4, <1>t
  <2>2. CASE p # {}
    <3>1. PICK pp \in B : p = {pp} /\ pp.e <= start /\ \A b \in B : b.e <= start => b.s <= pp.s
      BY <2>2, <1>p
    <3>2. \A b \in B : b.s <= pp.s => b.e <= start
      <4> SUFFICES ASSUME NEW b \in B, b.s <= pp.s, b # pp PROVE b.e <= start
        BY <3>1
      <4>1. b.e < pp.s
        BY <1>t, StartsDiffer
      <4> QED BY <4>1, <3>1, <1>t
    <3>3. CASE S = {}
      <4>1. P = {}
        BY <3>3, NoFirstNoLast
      <4>2. \A b \in B : b.s <= pp.s
        BY <3>1, <3>3, <1>t
      <4> HIDE DEF P
      <4> QED BY <4>1, <4>2, <3>2, <2>2, <1>t
    <3>4. CASE S # {}
      <4>1. PICK g \in S : FirstOf(S) = {g} /\ \A r \in S : g.s <= r.s
        BY <3>4, FirstIs
      <4>2. pn = {g} /\ g \in B /\ g.s > pp.s
        BY <3>1, <4>1
      <4>3. \A b \in B : b.s < g.s => b.e <= start
        BY <3>1, <3>2, <4>1, <1>t
      <4>4. CASE g.s < start
        <5>1. P = {g}
          BY <4>2, <4>4
        <5>2. start < g.e
          BY <4>2, <3>1, <1>t
        <5> HIDE DEF P
        <5> QED BY <4>2, <4>3, <4>4, <5>1, <5>2, <1>t
      <4>5. CASE ~(g.s < start)
        <5>1. P = {}
          BY <2>2, <4>2, <4>5
        <5>2. \A b \in B : ~(b.s < start /\ start < b.e)
          BY <4>2, <4>3, <4>5, <1>t
        <5> HIDE DEF P
        <5> QED BY <5>1, <5>2, <2>2
      <4> QED BY <4>4, <4>5
    <3> QED BY <3>3, <3>4
  <2> QED BY <2>1, <2>2
\* The block that is stretched on the right, likewise.
<1>R. \/ R = {} /\ q # {} /\ \A b \in B : ~(b.s < end /\ end < b.e)
      \/ \E l \in B : /\ R = {l} /\ l.s < end /\ start < l.e /\ (end < l.e \/ q = {})
                      /\ \A b \in B : l.s < b.s => end <= b.s
  <2> DEFINE S == {b \in B : \A r \in q : b.s < r.s}
  <2>1. CASE q = {}
    <3>1. S = B
      BY <2>1
    <3>2. PICK l \in B : LastOf(B) = {l} /\ maxseq(B) = l.e /\ \A r \in B : r.s <= l.s
      BY ListEnds
    <3>3. R = {l}
      BY <2>1, <3>1, <3>2
    <3>4. start < l.e /\ l.s < end
      BY <2>1, <3>2, <1>q
    <3> HIDE DEF R
    <3> QED BY <2>1, <3>2, <3>3, <3>4, <1>t
  <2>2. CASE q # {}
    <3>1. PICK qq \in B : q = {qq} /\ end <= qq.s /\ \A b \in B : end <= b.s => qq.s <= b.s
      BY <2>2, <1>q
    <3>3. CASE S = {}
      <4>1. R = {}
        BY <3>3, NoFirstNoLast
      <4>2. \A b \in B : qq.s <= b.s
        BY <3>1, <3>3, <1>t
      <4> HIDE DEF R
      <4> QED BY <4>1, <4>2, <3>1, <2>2, <1>t
    <3>4. CASE S # {}
      <4>1. PICK g \in S : LastOf(S) = {g} /\ \A r \in S : r.s <= g.s
        BY <3>4, LastIs
      <4>2. qp = {g} /\ g \in B /\ g.s < qq.s
        BY <3>1, <4>1
      <4>3. \A b \in B : g.s < b.s => end <= b.s
        BY <3>1, <4>1, <1>t
      <4>4. CASE end < g.e
        <5>1. R = {g}
          BY <4>2, <4>4, <1>t
        <5>2. g.s < end
          BY <4>2, <3>1, <1>t
        <5> HIDE DEF R
        <5> QED BY <4>2, <4>3, <4>4, <5>1, <5>2, <1>t
      <4>5. CASE ~(end < g.e)
        <5>1. R = {}
          BY <2>2, <4>2, <4>5, <1>t
        <5>2. ASSUME NEW b \in B, b.s < end, end < b.e PROVE FALSE
          <6>1. b # g /\ b.s <= g.s
            BY <5>2, <4>2, <4>3, <4>5, <1>t
          <6>2. b.e < g.s
            BY <6>1, <4>2, <1>t, StartsDiffer
          <6> QED BY <6>2, <5>2, <4>2, <4>5, <1>t
        <5> HIDE DEF R
        <5> QED BY <5>1, <5>2, <2>2
      <4> QED BY <4>4, <4>5
    <3> QED BY <3>3, <3>4
  <2> QED BY <2>1, <2>2
<1> HIDE DEF P, R
<1>i. \A b \in B : b \notin P /\ b \notin R => new(b) = b
  <2> SUFFICES ASSUME NEW b \in B, b \notin P, b \notin R PROVE new(b) = b
    OBVIOUS
  <2>1. b = [s |-> b.s, e |-> b.e, fin |-> b.fin]
    BY <1>t DEF Block
  <2>2. new(b) = [s |-> b.s, e |-> b.e, fin |-> b.fin \/ (fin /\ b \in P \cup R)]
    OBVIOUS
  <2>3. (b.fin \/ (fin /\ b \in P \cup R)) = b.fin
    BY <1>t
  <2> QED BY <2>1, <2>2, <2>3
<1>g. \A b \in B : /\ new(b).s = IF b \in P /\ start < b.s THEN start ELSE b.s
                   /\ new(b).e = IF b \in R /\ end > b.e THEN end ELSE b.e
                   /\ new(b).fin <=> b.fin \/ (fin /\ b \in P \cup R)
                   /\ new(b) \in Block
  <2> SUFFICES ASSUME NEW b \in B
               PROVE  /\ new(b).s = IF b \in P /\ start < b.s THEN start ELSE b.s
                      /\ new(b).e = IF b \in R /\ end > b.e THEN end ELSE b.e
                      /\ new(b).fin <=> b.fin \/ (fin /\ b \in P \cup R)
                      /\ new(b) \in Block
    OBVIOUS
  <2>1. new(b).s = IF b \in P /\ start < b.s THEN start ELSE b.s
    OBVIOUS
  <2>2. new(b).e = IF b \in R /\ end > b.e THEN end ELSE b.e
    OBVIOUS
  <2>3. new(b).fin <=> b.fin \/ (fin /\ b \in P \cup R)
    OBVIOUS
  <2>4. new(b) \in Block
    BY <1>t DEF Block
  <2> QED BY <2>1, <2>2, <2>3, <2>4
\* No block is stretched: the segment lies between p and q.
<1>A. CASE P = {} /\ R = {}
  <2>1. C = B
    BY <1>A, <1>i
  <2>2. start2 = start /\ end2 = end /\ p2 = p /\ q2 = q
    <3>1. {new(b) : b \in R} = {}
      BY <1>A
    <3> HIDE DEF new
    <3> QED BY <3>1, <1>A, PointsTo
  <2>3. total = rq.total
    <3>1. {new(b) : b \in R} = {} /\ {new(b) : b \in P} = {}
      BY <1>A
    <3> HIDE DEF new
    <3>2. StartOf(P, start) = start /\ StartOf({new(b) : b \in P}, start) = start
      BY <3>1, <1>A, PointsTo
    <3>3. EndOf(R, end) = end /\ EndOf({new(b) : b \in R}, end) = end
      BY <3>1, <1>A, PointsTo
    <3> QED BY <3>2, <3>3, <1>t
  <2>4. PICK pp \in B : p = {pp} /\ pp.e <= start /\ \A b \in B : b.e <= start => b.s <= pp.s
    BY <1>A, <1>P, <1>p
  <2>5. PICK qq \in B : q = {qq} /\ end <= qq.s /\ \A b \in B : end <= b.s => qq.s <= b.s
    BY <1>A, <1>R, <1>q
  <2>6. \A b \in B : (\E r \in p : b.s <= r.s) \/ (\E r \in q : b.s >= r.s)
    <3>1. \A b \in B : b.e <= start \/ end <= b.s
      BY <1>A, <1>P, <1>R, <1>t
    <3> QED BY <3>1, <2>4, <2>5, <1>t
  <2>7. Pointer(p, B) /\ Pointer(q, B)
    BY <2>4, <2>5 DEF Pointer
  <2> HIDE DEF C, total, start2, end2, p2, q2
  <2>8. rq2 \in QueueType /\ rq2.blocks = B /\ rq2.total = rq.total /\ rq2.nxt = rq.nxt
    BY <2>1, <2>3, <1>t DEF QueueType
  <2> HIDE DEF rq2
  <2>9. Linkable(rq, rq2, p, q, start, end, start, end, fin, n)
    <3>1. \A b \in p : b.e <= start
      BY <2>4
    <3>2. \A b \in q : end <= b.s
      BY <2>5
    <3>3. start .. (start - 1) = {} /\ end .. (end - 1) = {}
      OBVIOUS
    <3>4. FinAt(B, n) => \A b \in B : b.fin => b.e = n \/ (fin /\ b \in p /\ b.e = start)
      BY DEF FinAt
    <3> QED BY <2>6, <2>7, <2>8, <3>1, <3>2, <3>3, <3>4 DEF Linkable
  <2>10. Adds(rq, link(rq2, p, q, start, end, fin), start, end, fin, n)
    BY <2>9, LinkResult
  <2> QED BY <2>2, <2>10, <1>0
\* Only the block f on the left is stretched: it ends inside the segment.
<1>B. CASE P # {} /\ R = {}
  <2>1. PICK f \in B : /\ P = {f} /\ start < f.e /\ f.s < end /\ (f.s < start \/ p = {})
                       /\ \A b \in B : b.s < f.s => b.e <= start
    BY <1>B, <1>P
  <2>2. PICK qq \in B : q = {qq} /\ end <= qq.s /\ \A b \in B : end <= b.s => qq.s <= b.s
    BY <1>B, <1>R, <1>q
  <2>3. f.e <= end /\ f.s < start
    BY <2>1, <1>B, <1>R, <1>t
  <2> DEFINE g == new(f)
  <2>4. g \in Block /\ g.s = f.s /\ g.e = f.e /\ (g.fin <=> f.fin \/ fin)
    BY <1>g, <1>B, <2>1, <2>3, <1>t
  <2>5. C = (B \ {f}) \cup {g}
    BY <1>B, <1>i, <2>1
  <2>6. start2 = f.e /\ end2 = end /\ p2 = {g} /\ q2 = q /\ total = rq.total
    <3>1. {new(b) : b \in R} = {} /\ {new(b) : b \in P} = {g} /\ P # {}
      BY <1>B, <2>1
    <3> HIDE DEF new, g
    <3>2. StartOf(P, start) = f.s /\ EndOf(P, start) = f.e
      BY <2>1, PointsTo
    <3>3. StartOf({new(b) : b \in P}, start) = g.s
      BY <3>1, PointsTo
    <3>4. EndOf(R, end) = end /\ EndOf({new(b) : b \in R}, end) = end
      BY <3>1, <1>B, PointsTo
    <3>5. StartOf({new(b) : b \in R}, end) = end
      BY <3>1, PointsTo
    <3> QED BY <3>1, <3>2, <3>3, <3>4, <3>5, <2>4, <1>B, <1>t
  <2> HIDE DEF C, total, start2, end2, p2, q2, g
  <2>7. Good(C, n) /\ BytesOf(C) = BytesOf(B)
    BY <2>4, <2>5, Reflag
  <2>8. \A b \in B \ {f} : b.e < g.s \/ g.e < b.s
    BY <2>4, <1>t, StartsDiffer
  <2>9. CASE f.e = end
    <3>1. stretch(rq, start, end, fin) = done
      BY <2>6, <2>9, <1>0
    <3>2. total = rq.total + (f.s - g.s) + (g.e - f.e)
      BY <2>4, <2>6, <1>t
    <3>4. /\ g.s = IF start < f.s THEN start ELSE f.s
          /\ g.e = IF end > f.e THEN end ELSE f.e
      BY <2>3, <2>4, <2>9, <1>t
    <3>5. f.s <= end /\ start <= f.e
      BY <2>1, <1>t
    <3>6. Stretches(rq, f, g, C, total, start, end, fin)
      BY <2>4, <2>5, <2>8, <3>2, <3>4, <3>5 DEF Stretches
    <3>7. Adds(rq, done, start, end, fin, n)
      BY <3>6, StretchDone
    <3> QED BY <3>1, <3>7
  <2>10. CASE f.e # end
    <3>1. rq2 \in QueueType /\ rq2.blocks = C /\ rq2.total = rq.total /\ rq2.nxt = rq.nxt
      BY <2>6, <2>7, <1>t DEF QueueType, Good
    <3> HIDE DEF rq2
    <3>2. stretch(rq, start, end, fin) = link(rq2, {g}, q, f.e, end, fin)
      BY <2>3, <2>6, <2>10, <1>0, <1>t
    <3>3. Pointer({g}, C) /\ Pointer(q, C)
      <4>1. qq # f
        BY <2>2, <2>1, <1>t
      <4> QED BY <4>1, <2>2, <2>5 DEF Pointer
    <3>4. \A b \in C : b.s <= g.s \/ b.s >= qq.s
      <4> SUFFICES ASSUME NEW b \in B, b # f PROVE b.s <= g.s \/ b.s >= qq.s
        BY <2>4, <2>5, <1>t
      <4>1. b.s < f.s \/ f.e < b.s
        BY <1>t, StartsDiffer
      <4>2. f.e < b.s => end <= b.s
        BY <2>1, <1>B, <1>R, <1>t
      <4> QED BY <4>1, <4>2, <2>2, <2>4, <1>t
    <3>5. start .. (f.e - 1) \subseteq BytesOf(B)
      <4>1. f.s .. (f.e - 1) \subseteq BytesOf(B)
        BY DEF BytesOf
      <4> QED BY <4>1, <2>3, <1>t
    <3>6. \A c \in C : \E b \in B : b.s = c.s
      BY <2>4, <2>5
    <3>7. HasFin(C) => HasFin(B) \/ fin
      BY <2>4, <2>5 DEF HasFin
    <3>8. FinAt(B, n) => \A b \in C : b.fin => b.e = n \/ (fin /\ b \in {g} /\ b.e = f.e)
      BY <2>4, <2>5 DEF FinAt
    <3>9. end .. (end - 1) = {} /\ start <= f.e /\ f.e < end /\ f.e <= end /\ f.e \in Nat
      BY <2>1, <2>3, <2>10, <1>t
    <3>10. /\ \A b \in {g} : b.e <= f.e
           /\ \A b \in q : end <= b.s
           /\ \A b \in C : (\E r \in {g} : b.s <= r.s) \/ (\E r \in q : b.s >= r.s)
      BY <2>2, <2>4, <3>4, <1>t
    <3>11. (\A b \in B : start < b.s) => f.e = start
      BY <2>3, <1>t
    <3>f. Filled(B) => Filled(C)
      BY <2>4, <2>5 DEF Filled
    <3>12. Linkable(rq, rq2, {g}, q, start, end, f.e, end, fin, n)
      BY <2>7, <3>1, <3>3, <3>5, <3>6, <3>7, <3>8, <3>9, <3>10, <3>11, <3>f DEF Linkable
    <3>13. Adds(rq, link(rq2, {g}, q, f.e, end, fin), start, end, fin, n)
      BY <3>12, LinkResult
    <3> QED BY <3>2, <3>13
  <2> QED BY <2>9, <2>10
\* Only the block l on the right is stretched: it starts inside the segment.
<1>C. CASE P = {} /\ R # {}
  <2>1. PICK l \in B : /\ R = {l} /\ l.s < end /\ start < l.e /\ (end < l.e \/ q = {})
                       /\ \A b \in B : l.s < b.s => end <= b.s
    BY <1>C, <1>R
  <2>2. PICK pp \in B : p = {pp} /\ pp.e <= start /\ \A b \in B : b.e <= start => b.s <= pp.s
    BY <1>C, <1>P, <1>p
  <2>3. start <= l.s /\ end < l.e
    BY <2>1, <1>C, <1>P, <1>t
  <2> DEFINE g == new(l)
  <2>4. g \in Block /\ g.s = l.s /\ g.e = l.e /\ (g.fin <=> l.fin \/ fin)
    BY <1>g, <1>C, <2>1, <2>3, <1>t
  <2>5. C = (B \ {l}) \cup {g}
    BY <1>C, <1>i, <2>1
  <2>6. start2 = start /\ end2 = l.s /\ p2 = p /\ q2 = {g} /\ total = rq.total
    <3>1. {new(b) : b \in P} = {} /\ {new(b) : b \in R} = {g} /\ R # {}
      BY <1>C, <2>1
    <3> HIDE DEF new, g
    <3>2. EndOf(R, end) = l.e
      BY <2>1, PointsTo
    <3>3. StartOf({new(b) : b \in R}, end) = g.s /\ EndOf({new(b) : b \in R}, end) = g.e
      BY <3>1, PointsTo
    <3>4. StartOf(P, start) = start /\ StartOf({new(b) : b \in P}, start) = start
      BY <3>1, <1>C, PointsTo
    <3>5. EndOf(P, start) = start
      BY <1>C, PointsTo
    <3> QED BY <3>1, <3>2, <3>3, <3>4, <3>5, <2>4, <1>C, <1>t
  <2> HIDE DEF C, total, start2, end2, p2, q2, g
  <2>7. Good(C, n) /\ BytesOf(C) = BytesOf(B)
    BY <2>4, <2>5, Reflag
  <2>8. \A b \in B \ {l} : b.e < g.s \/ g.e < b.s
    BY <2>4, <1>t, StartsDiffer
  <2>9. CASE l.s = start
    <3>1. stretch(rq, start, end, fin) = done
      BY <2>6, <2>9, <1>0
    <3>2. total = rq.total + (l.s - g.s) + (g.e - l.e)
      BY <2>4, <2>6, <1>t
    <3>4. /\ g.s = IF start < l.s THEN start ELSE l.s
          /\ g.e = IF end > l.e THEN end ELSE l.e
      BY <2>3, <2>4, <2>9, <1>t
    <3>5. l.s <= end /\ start <= l.e
      BY <2>1, <1>t
    <3>6. Stretches(rq, l, g, C, total, start, end, fin)
      BY <2>4, <2>5, <2>8, <3>2, <3>4, <3>5 DEF Stretches
    <3>7. Adds(rq, done, start, end, fin, n)
      BY <3>6, StretchDone
    <3> QED BY <3>1, <3>7
  <2>10. CASE l.s # start
    <3>1. rq2 \in QueueType /\ rq2.blocks = C /\ rq2.total = rq.total /\ rq2.nxt = rq.nxt
      BY <2>6, <2>7, <1>t DEF QueueType, Good
    <3> HIDE DEF rq2
    <3>2. stretch(rq, start, end, fin) = link(rq2, p, {g}, start, l.s, fin)
      BY <2>3, <2>6, <2>10, <1>0, <1>t
    <3>3. Pointer({g}, C) /\ Pointer(p, C)
      <4>1. pp # l
        BY <2>2, <2>1, <1>t
      <4> QED BY <4>1, <2>2, <2>5 DEF Pointer
    <3>4. \A b \in C : b.s <= pp.s \/ b.s >= g.s
      <4> SUFFICES ASSUME NEW b \in B, b # l PROVE b.s <= pp.s \/ b.s >= g.s
        BY <2>4, <2>5, <1>t
      <4>1. (b.s < l.s /\ b.e < l.s) \/ l.s < b.s
        BY <1>t, StartsDiffer
      <4>2. b.e < l.s => b.e <= start
        BY <2>1, <2>3, <1>C, <1>P, <1>t
      <4> QED BY <4>1, <4>2, <2>2, <2>4, <1>t
    <3>5. l.s .. (end - 1) \subseteq BytesOf(B)
      <4>1. l.s .. (l.e - 1) \subseteq BytesOf(B)
        BY DEF BytesOf
      <4> QED BY <4>1, <2>3, <1>t
    <3>6. \A c \in C : \E b \in B : b.s = c.s
      BY <2>4, <2>5
    <3>7. HasFin(C) => HasFin(B) \/ fin
      BY <2>4, <2>5 DEF HasFin
    <3>8. (fin => end = n) => ~fin
      BY <2>3, <1>t
    <3>9. FinAt(B, n) /\ ~fin => \A b \in C : b.fin => b.e = n
      BY <2>4, <2>5 DEF FinAt
    <3>10. start .. (start - 1) = {} /\ start <= l.s /\ start < l.s /\ l.s <= end /\ l.s \in Nat
      BY <2>1, <2>3, <2>10, <1>t
    <3>11. /\ \A b \in p : b.e <= start
           /\ \A b \in {g} : l.s <= b.s
           /\ \A b \in C : (\E r \in p : b.s <= r.s) \/ (\E r \in {g} : b.s >= r.s)
      BY <2>2, <2>4, <3>4, <1>t
    <3>f. Filled(B) => Filled(C)
      BY <2>4, <2>5 DEF Filled
    <3>12. Linkable(rq, rq2, p, {g}, start, end, start, l.s, fin, n)
      BY <2>7, <3>1, <3>3, <3>5, <3>6, <3>7, <3>8, <3>9, <3>10, <3>11, <3>f DEF Linkable
    <3>13. Adds(rq, link(rq2, p, {g}, start, l.s, fin), start, end, fin, n)
      BY <3>12, LinkResult
    <3> QED BY <3>2, <3>13
  <2> QED BY <2>9, <2>10
<1>D. CASE P # {} /\ R # {}
  <2>1. PICK f \in B : /\ P = {f} /\ start < f.e /\ f.s < end /\ (f.s < start \/ p = {})
                       /\ \A b \in B : b.s < f.s => b.e <= start
    BY <1>D, <1>P
  <2>2. PICK l \in B : /\ R = {l} /\ l.s < end /\ start < l.e /\ (end < l.e \/ q = {})
                       /\ \A b \in B : l.s < b.s => end <= b.s
    BY <1>D, <1>R
  <2> DEFINE g == new(f)
             h == new(l)
  <2>3. P # {} /\ R # {} /\ {new(b) : b \in P} = {g} /\ {new(b) : b \in R} = {h}
    BY <2>1, <2>2
  <2>4. /\ StartOf(P, start) = f.s /\ EndOf(P, start) = f.e /\ EndOf(R, end) = l.e
        /\ StartOf({new(b) : b \in P}, start) = g.s
        /\ StartOf({new(b) : b \in R}, end) = h.s
        /\ EndOf({new(b) : b \in R}, end) = h.e
    <3> HIDE DEF new, g, h
    <3> QED BY <2>1, <2>2, <2>3, PointsTo
  <2>5. /\ start2 = f.e /\ end2 = h.s /\ p2 = {g} /\ q2 = {h}
        /\ total = rq.total + (f.s - g.s) + (h.e - l.e)
    BY <2>3, <2>4
  \* One block contains what there is of the segment.
  <2>6. CASE f = l
    <3>1. /\ g = h /\ g \in Block
          /\ g.s = IF start < f.s THEN start ELSE f.s
          /\ g.e = IF end > f.e THEN end ELSE f.e
          /\ g.fin <=> f.fin \/ fin
      BY <2>1, <2>2, <2>6, <1>g
    <3>2. C = (B \ {f}) \cup {g}
      BY <2>1, <2>2, <2>6, <1>i
    <3>3. total = rq.total + (f.s - g.s) + (g.e - f.e)
      BY <2>5, <2>6, <3>1
    <3>4. f.s <= end /\ start <= f.e
      BY <2>1, <1>t
    <3>5. \A b \in B \ {f} : b.e < g.s \/ g.e < b.s
      <4> SUFFICES ASSUME NEW b \in B, b # f PROVE b.e < g.s \/ g.e < b.s
        OBVIOUS
      <4>1. CASE b.s < f.s
        <5>1. b.e < f.s /\ b.e <= start
          BY <4>1, <2>1, <1>t, StartsDiffer
        <5>2. f.s < start
          BY <5>1, <2>1, <1>p, <1>t
        <5> QED BY <5>1, <5>2, <3>1, <1>t
      <4>2. CASE f.s < b.s
        <5>1. f.e < b.s /\ end <= b.s
          BY <4>2, <2>2, <2>6, <1>t, StartsDiffer
        <5>2. end < f.e
          BY <5>1, <2>2, <2>6, <1>q, <1>t
        <5> QED BY <5>1, <5>2, <3>1, <1>t
      <4>3. b.s < f.s \/ f.s < b.s
        BY StartsDiffer
      <4> QED BY <4>1, <4>2, <4>3
    <3>6. end2 <= start2
      BY <2>5, <3>1, <1>t
    <3> HIDE DEF g, h, C, total, start2, end2, p2, q2, new
    <3>7. Stretches(rq, f, g, C, total, start, end, fin)
      BY <3>1, <3>2, <3>3, <3>4, <3>5 DEF Stretches
    <3>8. Adds(rq, done, start, end, fin, n)
      BY <3>7, StretchDone
    <3> QED BY <3>6, <3>8, <1>0
  \* The segment closes the gap between f and l.
  <2>7. CASE f # l
    <3>1. f.e < l.s
      <4>1. ~(l.s < f.s)
        BY <2>1, <2>2, <1>t
      <4> QED BY <4>1, <2>7, <1>t, StartsDiffer
    <3>2. f.s < start /\ end < l.e
      <4>1. f.s < start
        BY <3>1, <2>1, <2>2, <1>t
      <4>2. end < l.e
        BY <3>1, <2>1, <2>2, <1>t
      <4> QED BY <4>1, <4>2
    <3>3. /\ g \in Block /\ g.s = f.s /\ g.e = f.e /\ (g.fin <=> f.fin \/ fin)
          /\ h \in Block /\ h.s = l.s /\ h.e = l.e /\ (h.fin <=> l.fin \/ fin)
      BY <1>g, <2>1, <2>2, <2>7, <3>2, <1>t
    <3>4. C = (((B \ {f}) \cup {g}) \ {l}) \cup {h}
      <4>1. g # l
        BY <3>1, <3>3, <1>t
      <4> QED BY <4>1, <2>1, <2>2, <2>7, <1>i
    <3>5. total = rq.total /\ end2 = l.s
      BY <2>5, <3>3, <1>t
    <3> DEFINE D == (B \ {f}) \cup {g}
    <3> HIDE DEF g, h, C, total, start2, end2, p2, q2, new
    <3>6. Good(D, n) /\ BytesOf(D) = BytesOf(B)
      BY <3>3, Reflag
    <3>7. Good(C, n) /\ BytesOf(C) = BytesOf(B)
      <4>1. l \in D /\ C = (D \ {l}) \cup {h}
        BY <3>4, <2>7
      <4> HIDE DEF D
      <4>2. Good((D \ {l}) \cup {h}, n) /\ BytesOf((D \ {l}) \cup {h}) = BytesOf(D)
        BY <4>1, <3>3, <3>6, Reflag
      <4> QED BY <4>1, <4>2, <3>6
    <3>8. rq2 \in QueueType /\ rq2.blocks = C /\ rq2.total = rq.total /\ rq2.nxt = rq.nxt
      BY <3>5, <3>7, <1>t DEF QueueType, Good
    <3> HIDE DEF rq2
    <3>9. stretch(rq, start, end, fin) = link(rq2, {g}, {h}, f.e, l.s, fin)
      BY <2>5, <3>1, <3>5, <1>0, <1>t
    <3>10. g \in C /\ h \in C
      BY <3>1, <3>3, <3>4, <1>t
    <3>11. Pointer({g}, C) /\ Pointer({h}, C)
      BY <3>10 DEF Pointer
    <3>12. \A b \in C : b.s <= g.s \/ b.s >= h.s
      <4> SUFFICES ASSUME NEW b \in B, b # f, b # l PROVE b.s <= g.s \/ b.s >= h.s
        BY <3>3, <3>4, <1>t
      <4> SUFFICES ASSUME f.s < b.s, b.s < l.s PROVE FALSE
        BY <3>3, <1>t
      <4>1. f.e < b.s /\ b.e < l.s
        BY <1>t, StartsDiffer
      <4> QED BY <4>1, <2>1, <2>2, <1>t
    <3>13. /\ start .. (f.e - 1) \subseteq BytesOf(B)
           /\ l.s .. (end - 1) \subseteq BytesOf(B)
      <4>1. f.s .. (f.e - 1) \subseteq BytesOf(B) /\ l.s .. (l.e - 1) \subseteq BytesOf(B)
        BY DEF BytesOf
      <4>2. start .. (f.e - 1) \subseteq f.s .. (f.e - 1)
        BY <3>2, <1>t
      <4>3. l.s .. (end - 1) \subseteq l.s .. (l.e - 1)
        BY <3>2, <1>t
      <4> QED BY <4>1, <4>2, <4>3
    <3>14. \A c \in C : \E b \in B : b.s = c.s
      BY <3>3, <3>4
    <3>15. HasFin(C) => HasFin(B) \/ fin
      BY <3>3, <3>4 DEF HasFin
    <3>16. (fin => end = n) => ~fin
      BY <3>2, <1>t
    <3>17. FinAt(B, n) /\ ~fin => \A b \in C : b.fin => b.e = n
      BY <3>3, <3>4 DEF FinAt
    <3>18. /\ start <= f.e /\ f.e < l.s /\ f.e <= l.s /\ l.s <= end
           /\ f.e \in Nat /\ l.s \in Nat
      BY <2>1, <2>2, <3>1, <1>t
    <3>19. /\ \A b \in {g} : b.e <= f.e
           /\ \A b \in {h} : l.s <= b.s
           /\ \A b \in C : (\E r \in {g} : b.s <= r.s) \/ (\E r \in {h} : b.s >= r.s)
      BY <3>3, <3>12, <1>t
    <3>20. (\A b \in B : start < b.s) => f.e = start
      BY <3>2, <1>t
    <3>f. Filled(B) => Filled(C)
      BY <3>3, <3>4 DEF Filled
    <3>21. Linkable(rq, rq2, {g}, {h}, start, end, f.e, l.s, fin, n)
      BY <3>7, <3>8, <3>11, <3>13, <3>14, <3>15, <3>16, <3>17, <3>18, <3>19, <3>20, <3>f DEF Linkable
    <3>22. Adds(rq, link(rq2, {g}, {h}, f.e, l.s, fin), start, end, fin, n)
      BY <3>21, LinkResult
    <3> QED BY <3>9, <3>22
  <2> QED BY <2>6, <2>7
<1> QED BY <1>A, <1>B, <1>C, <1>D

-----------------------------------------------------------------------------
(* add() *)

\* One pass of add() over a list no block of which is covered.
LEMMA PlaceAdds ==
    ASSUME NEW n \in Nat, NEW rq \in QueueType, Good(rq.blocks, n),
           NEW start \in Nat, NEW end \in Nat, NEW fin \in BOOLEAN, start <= end, end <= n,
           start < end \/ \A b \in rq.blocks : b.e <= start,
           \/ rq.blocks = {} \/ AtTail(rq.blocks, start) \/ AtHead(rq.blocks, end)
           \/ \A b \in rq.blocks : ~(start <= b.s /\ b.s < end /\ b.e <= end)
    PROVE  Adds(rq, place(rq, start, end, fin), start, end, fin, n)
<1> DEFINE B == rq.blocks
<1>t. /\ rq.nxt \in Int /\ start .. (start - 1) = {} /\ end .. (end - 1) = {}
      /\ \A b \in B : b.s \in Nat /\ b.e \in Nat /\ b.s <= b.e
  BY DEF QueueType, Good, Block
<1>l. ASSUME NEW p, NEW q, Pointer(p, B), Pointer(q, B), start < end \/ q = {},
             \A b \in p : b.e <= start, \A b \in q : end <= b.s,
             \A b \in B : (\E r \in p : b.s <= r.s) \/ (\E r \in q : b.s >= r.s)
      PROVE  Adds(rq, link(rq, p, q, start, end, fin), start, end, fin, n)
  <2>1. FinAt(B, n) => \A b \in B : b.fin => b.e = n \/ (fin /\ b \in p /\ b.e = start)
    BY DEF FinAt
  <2>2. Linkable(rq, rq, p, q, start, end, start, end, fin, n)
    BY <1>l, <1>t, <2>1 DEF Linkable
  <2> QED BY <2>2, LinkResult
<1>1. CASE B = {}
  <2>1. Pointer({}, B)
    BY DEF Pointer
  <2>2. Adds(rq, link(rq, {}, {}, start, end, fin), start, end, fin, n)
    BY <1>1, <1>l, <2>1
  <2> QED BY <1>1, <2>2 DEF place
<1>2. CASE B # {} /\ AtTail(B, start)
  <2>1. PICK l \in B : LastOf(B) = {l} /\ maxseq(B) = l.e /\ \A r \in B : r.s <= l.s /\ r.e <= l.e
    BY <1>2, ListEnds
  <2>2. Pointer({}, B) /\ Pointer({l}, B) /\ l.e <= start
    BY <1>2, <2>1, <1>t DEF Pointer, AtTail
  <2>3. Adds(rq, link(rq, {l}, {}, start, end, fin), start, end, fin, n)
    BY <1>l, <2>1, <2>2
  <2> QED BY <1>2, <2>1, <2>3 DEF place
<1>3. CASE B # {} /\ ~AtTail(B, start)
  <2>1. PICK l \in B : LastOf(B) = {l} /\ maxseq(B) = l.e /\ \A r \in B : r.s <= l.s /\ r.e <= l.e
    BY <1>3, ListEnds
  <2>2. start < l.e /\ start < end
    BY <1>3, <2>1, <1>t DEF AtTail
  <2>3. CASE AtHead(B, end)
    <3>1. PICK f \in B : FirstOf(B) = {f} /\ minseq(B) = f.s /\ \A r \in B : f.s <= r.s
      BY <1>3, ListEnds
    <3>2. Pointer({}, B) /\ Pointer({f}, B) /\ end <= f.s
      BY <2>3, <3>1 DEF Pointer, AtHead
    <3>3. Adds(rq, link(rq, {}, {f}, start, end, fin), start, end, fin, n)
      BY <1>l, <2>2, <3>1, <3>2, <1>t
    <3> QED BY <1>3, <2>3, <3>1, <3>3 DEF place
  <2>4. CASE ~AtHead(B, end)
    <3>1. minseq(B) \in Nat
      BY <1>3, ListEnds
    <3>2. minseq(B) < end /\ start < maxseq(B)
      BY <2>1, <2>2, <2>4, <3>1 DEF AtHead
    <3>3. Adds(rq, stretch(rq, start, end, fin), start, end, fin, n)
      BY <1>3, <2>2, <2>4, <3>2, StretchAdds
    <3> QED BY <1>3, <2>4, <3>3 DEF place
  <2> QED BY <2>3, <2>4
<1> QED BY <1>1, <1>2, <1>3

\* add() does what Adds says: however the segment overlaps the blocks of the
\* queue, the queue has its bytes afterwards and no other new ones.
THEOREM AddAdds ==
    ASSUME NEW n \in Nat, NEW rq \in QueueType, Good(rq.blocks, n),
           NEW start \in Nat, NEW end \in Nat, NEW fin \in BOOLEAN, start <= end, end <= n,
           start < end \/ \A b \in rq.blocks : b.e <= start
    PROVE  Adds(rq, add(rq, start, end, fin), start, end, fin, n)
<1> DEFINE B == rq.blocks
           exact == {b \in B : b.s = start /\ b.e = end}
           cover == {b \in B : start <= b.s /\ b.s < end /\ b.e <= end}
<1>t. /\ rq.nxt \in Int /\ rq.total \in Int /\ B \subseteq Block
      /\ \A b \in B : b.s \in Nat /\ b.e \in Nat /\ b.fin \in BOOLEAN /\ b.s <= b.e /\ b.e <= n
  BY DEF QueueType, Good, Block
<1>1. CASE B = {} \/ AtTail(B, start) \/ AtHead(B, end)
  <2>1. Adds(rq, place(rq, start, end, fin), start, end, fin, n)
    BY <1>1, PlaceAdds
  <2> QED BY <1>1, <2>1 DEF add
<1>2. CASE ~(B = {} \/ AtTail(B, start) \/ AtHead(B, end)) /\ exact # {}
  <2>1. PICK x \in B : x.s = start /\ x.e = end
    BY <1>2
  <2>2. exact = {x}
    BY <2>1, <1>t, StartsDiffer
  <2> DEFINE y == [x EXCEPT !.fin = @ \/ fin]
             C == (B \ {x}) \cup {y}
             res == [rq |-> [rq EXCEPT !.blocks = C], flags |-> fin \/ HasFin(exact)]
  <2>3. y \in Block /\ y.s = x.s /\ y.e = x.e /\ (y.fin <=> x.fin \/ fin)
    BY <1>t DEF Block
  <2>4. add(rq, start, end, fin) = res
    <3>1. {[b EXCEPT !.fin = @ \/ fin] : b \in exact} = {y}
      BY <2>2
    <3>2. (B \ exact) \cup {[b EXCEPT !.fin = @ \/ fin] : b \in exact} = C
      BY <2>2, <3>1
    <3> HIDE DEF C
    <3> QED BY <1>2, <3>2 DEF add
  <2>5. HasFin(exact) <=> x.fin
    BY <2>2 DEF HasFin
  <2> HIDE DEF y, exact
  <2>6. Good(C, n) /\ BytesOf(C) = BytesOf(B)
    BY <2>3, Reflag
  <2>7. /\ res.rq \in QueueType /\ res.rq.blocks = C /\ res.rq.total = rq.total
        /\ res.rq.nxt = rq.nxt /\ (res.flags <=> fin \/ x.fin) /\ res.flags \in BOOLEAN
    <3> HIDE DEF C
    <3>1. C \subseteq Block
      BY <2>6 DEF Good
    <3>2. /\ [rq EXCEPT !.blocks = C] \in QueueType /\ [rq EXCEPT !.blocks = C].blocks = C
          /\ [rq EXCEPT !.blocks = C].total = rq.total /\ [rq EXCEPT !.blocks = C].nxt = rq.nxt
      BY <3>1 DEF QueueType
    <3>3. (fin \/ HasFin(exact)) \in BOOLEAN
      OBVIOUS
    <3> QED BY <3>2, <3>3, <2>5
  <2> HIDE DEF res
  <2>8. start .. (end - 1) \subseteq BytesOf(B)
    BY <2>1 DEF BytesOf
  <2>9. FinAt(B, n) /\ (fin => end = n) => FinAt(C, n)
    BY <2>1, <2>3 DEF FinAt
  <2>10. HasFin(C) \/ res.flags => HasFin(B) \/ fin
    BY <2>3, <2>7 DEF HasFin
  <2>11. ASSUME rq.nxt <= start, \A b \in B : rq.nxt < b.s
         PROVE  rq.nxt < start /\ \A c \in C : rq.nxt < c.s
    BY <2>1, <2>3, <2>11
  <2> HIDE DEF C
  <2>12. Adds(rq, res, start, end, fin, n)
    <3>1. BytesOf(res.rq.blocks) = BytesOf(B) \cup (start .. (end - 1))
      BY <2>6, <2>7, <2>8
    <3>2. Counted(rq) => Counted(res.rq)
      BY <2>6, <2>7 DEF Counted
    <3>3. ASSUME rq.nxt <= start, \A b \in B : rq.nxt < b.s
          PROVE  rq.nxt # start
      BY <2>11, <3>3, <1>t
    <3>4. Filled(B) => Filled(C)
      BY <2>3 DEF Filled, C
    <3> QED BY <2>6, <2>7, <2>9, <2>10, <2>11, <3>1, <3>2, <3>3, <3>4 DEF Adds
  <2> QED BY <2>4, <2>12
<1>3. CASE ~(B = {} \/ AtTail(B, start) \/ AtHead(B, end)) /\ exact = {}
  <2> DEFINE D == B \ cover
             T == rq.total - Cardinality(BytesOf(cover))
             rq2 == [blocks |-> D, total |-> T, nxt |-> rq.nxt]
             fin2 == fin \/ HasFin(cover)
             res == place(rq2, start, end, fin2)
  <2>1. add(rq, start, end, fin) = res
    <3>1. [rq EXCEPT !.blocks = @ \ cover, !.total = @ - Cardinality(BytesOf(cover))] = rq2
      BY NewBlocks
    <3> HIDE DEF rq2
    <3> QED BY <1>3, <3>1 DEF add
  <2>2. Good(D, n) /\ Good(cover, n)
    BY DEF Good, Separated
  <2>3. /\ IsFiniteSet(BytesOf(B)) /\ IsFiniteSet(BytesOf(cover)) /\ IsFiniteSet(BytesOf(D))
        /\ Cardinality(BytesOf(cover)) \in Nat /\ Cardinality(BytesOf(D)) \in Nat
    BY <2>2, BytesFinite
  <2>4. /\ BytesOf(cover) \subseteq start .. (end - 1)
        /\ BytesOf(B) = BytesOf(D) \cup BytesOf(cover)
        /\ BytesOf(D) \cap BytesOf(cover) = {}
    <3>1. \A x : /\ x \in BytesOf(cover) <=> x \in Nat /\ \E b \in cover : b.s <= x /\ x < b.e
                 /\ x \in BytesOf(D) <=> x \in Nat /\ \E b \in D : b.s <= x /\ x < b.e
                 /\ x \in BytesOf(B) <=> x \in Nat /\ \E b \in B : b.s <= x /\ x < b.e
      BY <2>2, InBytes DEF Good
    <3>2. BytesOf(cover) \subseteq start .. (end - 1)
      <4> SUFFICES ASSUME NEW x \in BytesOf(cover) PROVE x \in start .. (end - 1)
        OBVIOUS
      <4>1. PICK b \in cover : b.s <= x /\ x < b.e
        BY <3>1
      <4>2. x \in Nat /\ b \in B /\ start <= b.s /\ b.e <= end
        BY <3>1
      <4> QED BY <4>1, <4>2, <1>t
    <3>3. BytesOf(B) = BytesOf(D) \cup BytesOf(cover)
      BY <3>1
    <3>4. ASSUME NEW x \in BytesOf(D), x \in BytesOf(cover) PROVE FALSE
      <4>1. PICK a \in D : a.s <= x /\ x < a.e
        BY <3>1, <3>4
      <4>2. PICK b \in cover : b.s <= x /\ x < b.e
        BY <3>1, <3>4
      <4>3. a \in B /\ b \in B /\ a # b /\ x \in Nat
        BY <3>1
      <4>4. (a.s < b.s /\ a.e < b.s) \/ (b.s < a.s /\ b.e < a.s)
        BY <4>3, StartsDiffer
      <4> QED BY <4>1, <4>2, <4>3, <4>4, <1>t
    <3> QED BY <3>2, <3>3, <3>4
  <2>5. Cardinality(BytesOf(B)) = Cardinality(BytesOf(D)) + Cardinality(BytesOf(cover))
    <3>1. Cardinality(BytesOf(D) \cap BytesOf(cover)) = 0
      BY <2>4, FS_EmptySet
    <3> HIDE DEF D, cover
    <3>2. Cardinality(BytesOf(D) \cup BytesOf(cover)) =
             Cardinality(BytesOf(D)) + Cardinality(BytesOf(cover)) - Cardinality(BytesOf(D) \cap BytesOf(cover))
      BY <2>3, FS_Union
    <3> QED BY <2>3, <2>4, <3>1, <3>2
  <2> HIDE DEF D, cover
  <2>6. rq2 \in QueueType /\ rq2.blocks = D /\ rq2.total = T /\ rq2.nxt = rq.nxt
    <3>1. D \subseteq Block /\ T \in Int
      BY <2>2, <2>3, <1>t DEF Good
    <3> HIDE DEF T
    <3> QED BY <3>1, <1>t DEF QueueType
  <2> HIDE DEF rq2
  <2>7. fin2 \in BOOLEAN
    OBVIOUS
  <2> HIDE DEF fin2
  <2>8. Adds(rq2, res, start, end, fin2, n)
    <3>1. \A b \in D : ~(start <= b.s /\ b.s < end /\ b.e <= end)
      BY DEF D, cover
    <3>2. start < end \/ \A b \in D : b.e <= start
      BY DEF D
    <3> QED BY <2>2, <2>6, <2>7, <3>1, <3>2, PlaceAdds
  <2> HIDE DEF res
  <2>9. Adds(rq, res, start, end, fin, n)
    <3>1. BytesOf(D) \cup (start .. (end - 1)) = BytesOf(B) \cup (start .. (end - 1))
      BY <2>4
    <3>2. Counted(rq) => Counted(rq2)
      BY <2>3, <2>5, <2>6 DEF Counted
    <3>3. FinAt(B, n) /\ (fin => end = n) => FinAt(D, n) /\ (fin2 => end = n)
      <4> SUFFICES ASSUME FinAt(B, n), fin => end = n PROVE FinAt(D, n) /\ (fin2 => end = n)
        OBVIOUS
      <4>1. FinAt(D, n)
        BY DEF FinAt, D
      <4>2. HasFin(cover) => end = n
        BY <1>t DEF HasFin, FinAt, cover
      <4> QED BY <4>1, <4>2 DEF fin2
    <3>4. HasFin(D) \/ fin2 => HasFin(B) \/ fin
      BY DEF HasFin, D, cover, fin2
    <3>5. (\A b \in B : rq.nxt < b.s) => \A b \in D : rq.nxt < b.s
      BY DEF D
    <3>6. Filled(B) => Filled(D)
      BY DEF Filled, D
    <3> QED BY <2>6, <2>8, <3>1, <3>2, <3>3, <3>4, <3>5, <3>6 DEF Adds
  <2> QED BY <2>1, <2>9
<1> QED BY <1>1, <1>2, <1>3

-----------------------------------------------------------------------------
(* clearto() and nexthole() *)

\* res is what clearto() should return: the bytes below seq are gone, and a
\* block that started below seq now starts there.
Clears(rq, res, seq, n) ==
    LET B == rq.blocks
        C == res.rq.blocks
    IN /\ res.rq \in QueueType /\ res.flags \in BOOLEAN
       /\ Good(C, n)
       /\ BytesOf(C) = {x \in BytesOf(B) : x >= seq}
       /\ Counted(rq) => Counted(res.rq)
       /\ Filled(B) => Filled(C)
       /\ res.rq.nxt = rq.nxt
       /\ FinAt(B, n) => FinAt(C, n)
       /\ HasFin(C) \/ res.flags => HasFin(B)
       /\ res.flags => \E b \in B : b.fin /\ b.s <= seq
       /\ \A c \in C : seq <= c.s
       /\ \A c \in C : c.s = seq => \E b \in B : b.s <= seq /\ seq < b.e

\* clearto() does what Clears says: it takes out exactly the bytes below seq.
THEOREM CleartoClears ==
    ASSUME NEW n \in Nat, NEW rq \in QueueType, Good(rq.blocks, n), NEW seq \in Nat
    PROVE  Clears(rq, clearto(rq, seq), seq, n)
<1> DEFINE B == rq.blocks
           gone == {b \in B : b.e <= seq}
           cut == {b \in B : b.s <= seq /\ b.e > seq}
           new == {[b EXCEPT !.s = seq] : b \in cut}
           C == (B \ (gone \cup cut)) \cup new
           T == rq.total - Cardinality(BytesOf(gone)) - (seq - StartOf(cut, seq))
           res == clearto(rq, seq)
<1>t. /\ rq.nxt \in Int /\ rq.total \in Int /\ B \subseteq Block
      /\ \A b \in B : b.s \in Nat /\ b.e \in Nat /\ b.fin \in BOOLEAN /\ b.s <= b.e /\ b.e <= n
  BY DEF QueueType, Good, Block
<1>1. res = [rq |-> [blocks |-> C, total |-> T, nxt |-> rq.nxt], flags |-> HasFin(gone \cup cut)]
  <2>1. [rq EXCEPT !.blocks = (@ \ (gone \cup cut)) \cup new,
                   !.total  = @ - Cardinality(BytesOf(gone)) - (seq - StartOf(cut, seq))]
           = [blocks |-> C, total |-> T, nxt |-> rq.nxt]
    BY NewBlocks
  <2> QED BY <2>1 DEF clearto
<1> HIDE DEF res
\* At most one block is cut.
<1>2. \/ cut = {} /\ new = {} /\ StartOf(cut, seq) = seq
      \/ \E b \in B : \E d \in Block :
            /\ cut = {b} /\ new = {d} /\ b.s <= seq /\ seq < b.e
            /\ d.s = seq /\ d.e = b.e /\ (d.fin <=> b.fin) /\ StartOf(cut, seq) = b.s
  <2>1. CASE cut = {}
    <3>1. new = {}
      BY <2>1
    <3> HIDE DEF cut, new
    <3> QED BY <2>1, <3>1, PointsTo
  <2>2. CASE cut # {}
    <3>1. PICK b \in B : b.s <= seq /\ b.e > seq
      BY <2>2
    <3>2. ASSUME NEW a \in B, a # b, a.s <= seq, a.e > seq PROVE FALSE
      <4>1. (a.s < b.s /\ a.e < b.s) \/ (b.s < a.s /\ b.e < a.s)
        BY <3>2, StartsDiffer
      <4> QED BY <4>1, <3>1, <3>2, <1>t
    <3>3. cut = {b}
      BY <3>1, <3>2
    <3> DEFINE d == [b EXCEPT !.s = seq]
    <3>4. new = {d}
      BY <3>3
    <3>5. d \in Block /\ d.s = seq /\ d.e = b.e /\ d.fin = b.fin
      BY <1>t DEF Block
    <3> HIDE DEF cut, new, d
    <3>6. StartOf(cut, seq) = b.s
      BY <3>3, PointsTo
    <3> QED BY <3>1, <3>3, <3>4, <3>5, <3>6, <1>t
  <2> QED BY <2>1, <2>2
<1>3. \A b \in B : b \notin gone /\ b \notin cut => seq < b.s
  BY <1>t
<1> HIDE DEF cut, new
<1>4. \A b \in B : b \in gone \/ b \in cut <=> b.s <= seq
  BY <1>3, <1>t DEF cut
<1>5. Good(C, n) /\ \A c \in C : seq <= c.s
  <2>1. C \subseteq Block /\ \A c \in C : c.s <= c.e /\ c.e <= n /\ seq <= c.s
    BY <1>2, <1>3, <1>t
  <2>2. Separated(C)
    <3> SUFFICES ASSUME NEW a \in C, NEW c \in C, a # c PROVE a.e < c.s \/ c.e < a.s
      BY DEF Separated
    <3>1. CASE a \in B \ (gone \cup cut) /\ c \in B \ (gone \cup cut)
      BY <3>1 DEF Good, Separated
    <3>2. CASE cut # {}
      <4>1. PICK b \in B : \E d \in Block :
               /\ cut = {b} /\ new = {d} /\ b.s <= seq /\ seq < b.e /\ d.s = seq /\ d.e = b.e
        BY <3>2, <1>2
      <4>2. PICK d \in Block :
               /\ cut = {b} /\ new = {d} /\ b.s <= seq /\ seq < b.e /\ d.s = seq /\ d.e = b.e
        BY <4>1
      <4>3. \A x \in B \ (gone \cup cut) : d.e < x.s
        <5> SUFFICES ASSUME NEW x \in B, x \notin gone, x \notin cut PROVE b.e < x.s
          BY <4>2
        <5>1. x # b /\ seq < x.s
          BY <4>2, <1>3
        <5>2. (x.s < b.s /\ x.e < b.s) \/ (b.s < x.s /\ b.e < x.s)
          BY <5>1, StartsDiffer
        <5> QED BY <5>1, <5>2, <4>2, <1>t
      <4> QED BY <3>1, <4>2, <4>3
    <3> QED BY <3>1, <3>2, <1>2
  <2> QED BY <2>1, <2>2 DEF Good
<1>6. Good(gone, n)
  BY DEF Good, Separated
<1>7. \A x : /\ x \in BytesOf(C) <=> x \in Nat /\ \E b \in C : b.s <= x /\ x < b.e
             /\ x \in BytesOf(gone) <=> x \in Nat /\ \E b \in gone : b.s <= x /\ x < b.e
             /\ x \in BytesOf(B) <=> x \in Nat /\ \E b \in B : b.s <= x /\ x < b.e
  BY <1>5, <1>6, InBytes DEF Good
<1> DEFINE head == StartOf(cut, seq) .. (seq - 1)
<1>8. \A x \in Nat : x \in head <=> x < seq /\ \E b \in cut : b.s <= x /\ x < b.e
  BY <1>2, <1>t
<1>9. BytesOf(C) = {x \in BytesOf(B) : x >= seq}
  <2>1. ASSUME NEW x \in BytesOf(C) PROVE x \in BytesOf(B) /\ x >= seq
    <3>1. x \in Nat /\ \E b \in C : b.s <= x /\ x < b.e
      BY <1>7
    <3>2. PICK c \in C : c.s <= x /\ x < c.e
      BY <3>1
    <3>3. x >= seq
      <4>1. c.s \in Nat /\ seq <= c.s
        BY <1>5 DEF Good, Block
      <4> QED BY <4>1, <3>1, <3>2
    <3>4. \E b \in B : b.s <= x /\ x < b.e
      <4>1. CASE c \in B
        BY <3>2, <4>1
      <4>2. CASE c \in new
        <5>1. PICK b \in B : b.s <= seq /\ c.e = b.e
          BY <4>2, <1>2
        <5> QED BY <5>1, <3>1, <3>2, <3>3, <1>t
      <4> QED BY <4>1, <4>2
    <3> QED BY <3>1, <3>3, <3>4, <1>7
  <2>2. ASSUME NEW x \in BytesOf(B), x >= seq PROVE x \in BytesOf(C)
    <3>1. x \in Nat /\ \E b \in B : b.s <= x /\ x < b.e
      BY <1>7
    <3>2. PICK b \in B : b.s <= x /\ x < b.e
      BY <3>1
    <3>3. b \notin gone
      BY <2>2, <3>1, <3>2, <1>t
    <3>4. CASE b \in cut
      <4>1. \E d \in C : d.s = seq /\ d.e = b.e
        BY <3>4, <1>2
      <4> QED BY <4>1, <2>2, <3>1, <3>2, <1>7
    <3>5. CASE b \notin cut
      BY <3>1, <3>2, <3>3, <3>5, <1>7
    <3> QED BY <3>4, <3>5
  <2> QED BY <2>1, <2>2
<1>10. Counted(rq) => T = Cardinality(BytesOf(C))
  <2>1. BytesOf(B) = (BytesOf(C) \cup BytesOf(gone)) \cup head
    <3>1. ASSUME NEW x \in BytesOf(B), x \notin BytesOf(C), x \notin BytesOf(gone) PROVE x \in head
      <4>1. x < seq /\ x \in Nat
        BY <3>1, <1>7, <1>9
      <4>2. PICK b \in B : b.s <= x /\ x < b.e
        BY <1>7
      <4>3. b \in cut
        BY <3>1, <4>1, <4>2, <1>7, <1>3, <1>t
      <4> QED BY <4>1, <4>2, <4>3, <1>8
    <3>2. head \subseteq BytesOf(B)
      <4> SUFFICES ASSUME NEW x \in head PROVE x \in BytesOf(B)
        OBVIOUS
      <4>1. x \in Nat
        BY <1>2, <1>t
      <4> QED BY <4>1, <1>7, <1>8 DEF cut
    <3>3. BytesOf(gone) \subseteq BytesOf(B) /\ BytesOf(C) \subseteq BytesOf(B)
      BY <1>7, <1>9
    <3> HIDE DEF head
    <3> QED BY <3>1, <3>2, <3>3
  <2>2. BytesOf(C) \cap BytesOf(gone) = {}
    <3> SUFFICES ASSUME NEW x \in BytesOf(C), x \in BytesOf(gone) PROVE FALSE
      OBVIOUS
    <3>1. x >= seq /\ x \in Nat
      BY <1>7, <1>9
    <3>2. PICK b \in gone : x < b.e
      BY <1>7
    <3> QED BY <3>1, <3>2, <1>t
  <2>3. (BytesOf(C) \cup BytesOf(gone)) \cap head = {}
    <3> SUFFICES ASSUME NEW x \in head, x \in BytesOf(C) \cup BytesOf(gone) PROVE FALSE
      OBVIOUS
    <3>1. x \in Nat /\ x < seq
      BY <1>2, <1>t
    <3>2. PICK b \in gone : b.s <= x /\ x < b.e
      BY <3>1, <1>7, <1>9
    <3>3. PICK c \in cut : c.s <= x /\ x < c.e
      BY <3>1, <1>8
    <3>4. b \in B /\ c \in B /\ b # c
      BY <1>t DEF cut
    <3>5. (b.s < c.s /\ b.e < c.s) \/ (c.s < b.s /\ c.e < b.s)
      BY <3>4, StartsDiffer
    <3> QED BY <3>1, <3>2, <3>3, <3>4, <3>5, <1>t
  <2>4. /\ IsFiniteSet(BytesOf(C)) /\ Cardinality(BytesOf(C)) \in Nat
        /\ IsFiniteSet(BytesOf(gone)) /\ Cardinality(BytesOf(gone)) \in Nat
    BY <1>5, <1>6, BytesFinite
  <2> HIDE DEF C, gone
  <2>5. Cardinality(BytesOf(C) \cup BytesOf(gone)) =
           Cardinality(BytesOf(C)) + Cardinality(BytesOf(gone)) - Cardinality(BytesOf(C) \cap BytesOf(gone))
    BY <2>4, FS_Union
  <2>6. Cardinality(BytesOf(C) \cup BytesOf(gone)) = Cardinality(BytesOf(C)) + Cardinality(BytesOf(gone))
    <3>1. Cardinality(BytesOf(C) \cap BytesOf(gone)) = 0
      BY <2>2, FS_EmptySet
    <3> QED BY <2>4, <2>5, <3>1
  <2>7. IsFiniteSet(BytesOf(C) \cup BytesOf(gone))
    BY <2>4, FS_Union
  <2>8. StartOf(cut, seq) \in Nat /\ StartOf(cut, seq) <= seq
    BY <1>2, <1>t
  <2>9. Cardinality((BytesOf(C) \cup BytesOf(gone)) \cup head) =
           Cardinality(BytesOf(C) \cup BytesOf(gone)) + (seq - StartOf(cut, seq))
    BY <2>3, <2>7, <2>8, CountAdded
  <2> HIDE DEF head
  <2> QED BY <2>1, <2>4, <2>6, <2>8, <2>9, <1>t DEF Counted
<1>11. FinAt(B, n) => FinAt(C, n)
  BY <1>2 DEF FinAt
<1>12. HasFin(C) => HasFin(B)
  BY <1>2 DEF HasFin
<1>13. HasFin(gone \cup cut) => \E b \in B : b.fin /\ b.s <= seq
  BY <1>4 DEF HasFin, cut
<1>14. \A c \in C : c.s = seq => \E b \in B : b.s <= seq /\ seq < b.e
  BY <1>2, <1>3, <1>t
<1>15. T \in Int
  <2>1. StartOf(cut, seq) \in Nat
    BY <1>2, <1>t
  <2>2. Cardinality(BytesOf(gone)) \in Nat
    BY <1>6, BytesFinite
  <2> QED BY <2>1, <2>2, <1>t
<1> HIDE DEF C, T, gone
<1>16. /\ res.rq = [blocks |-> C, total |-> T, nxt |-> rq.nxt] /\ res.rq.blocks = C
       /\ res.rq.total = T /\ res.rq.nxt = rq.nxt /\ res.flags = HasFin(gone \cup cut)
  BY <1>1
<1>17. res.rq \in QueueType /\ res.flags \in BOOLEAN
  <2>1. HasFin(gone \cup cut) \in BOOLEAN
    BY DEF HasFin
  <2>2. C \subseteq Block
    BY <1>5 DEF Good
  <2> QED BY <2>1, <2>2, <1>15, <1>16, <1>t DEF QueueType
<1>18. Counted(rq) => Counted(res.rq)
  BY <1>10, <1>16 DEF Counted
<1>19. HasFin(gone \cup cut) => HasFin(B)
  BY <1>13 DEF HasFin
<1>20. Filled(B) => Filled(C)
  BY <1>2 DEF Filled, C
<1> QED BY <1>5, <1>9, <1>11, <1>12, <1>13, <1>14, <1>16, <1>17, <1>18, <1>19, <1>20 DEF Clears, res

\* hole is what nexthole() should return: the first byte at or above seq that
\* is not in the queue, and the number of bytes above it.
Hole(rq, hole, seq) ==
    LET have  == BytesOf(rq.blocks)
        above == {x \in have : x > hole.seq}
    IN IF hole.seq = -1 THEN \A x \in have : x < seq
       ELSE /\ hole.seq \in Nat /\ hole.seq >= seq
            /\ hole.seq \notin have
            /\ seq .. (hole.seq - 1) \subseteq have
            /\ IF above = {} THEN hole.bytes <= 0 ELSE hole.bytes = Cardinality(above)

\* nexthole() does what Hole says: the byte it names is the first one missing.
THEOREM NextholeFinds ==
    ASSUME NEW n \in Nat, NEW rq, Good(rq.blocks, n), NEW seq \in Nat
    PROVE  Hole(rq, nexthole(rq, seq), seq)
<1> DEFINE B == rq.blocks
           I == {b \in B : b.s <= seq /\ seq <= b.e}
           in == FirstOf(I)
           above == {b \in B : b.s > seq /\ \A r \in in : b.s > r.s}
           bytes == IF above = {} THEN -1 ELSE Cardinality(BytesOf(above))
           hole == nexthole(rq, seq)
<1>t. \A b \in B : b.s \in Nat /\ b.e \in Nat /\ b.s <= b.e
  BY DEF Good, Block
<1>0. hole = IF in = {} /\ above = {} THEN [seq |-> -1, bytes |-> -1]
             ELSE [seq |-> EndOf(in, seq), bytes |-> bytes]
  BY DEF nexthole
<1>1. Good(above, n)
  BY DEF Good, Separated
<1>2. \A x : /\ x \in BytesOf(above) <=> x \in Nat /\ \E b \in above : b.s <= x /\ x < b.e
             /\ x \in BytesOf(B) <=> x \in Nat /\ \E b \in B : b.s <= x /\ x < b.e
  BY <1>1, InBytes DEF Good
\* The blocks above are counted once the bytes above are theirs.
<1>3. ASSUME NEW h \in Nat, hole = [seq |-> h, bytes |-> bytes],
             h >= seq, h \notin BytesOf(B), seq .. (h - 1) \subseteq BytesOf(B),
             BytesOf(above) = {x \in BytesOf(B) : x > h}
      PROVE  Hole(rq, hole, seq)
  <2>1. hole.seq = h /\ hole.bytes = bytes /\ h # -1
    BY <1>3
  <2>2. IF BytesOf(above) = {} THEN bytes <= 0 ELSE bytes = Cardinality(BytesOf(above))
    <3>1. CASE above = {}
      <4>1. BytesOf(above) = {}
        BY <3>1 DEF BytesOf
      <4> QED BY <3>1, <4>1
    <3>2. CASE above # {}
      <4>1. bytes = Cardinality(BytesOf(above)) /\ Cardinality({}) = 0
        BY <3>2, FS_EmptySet
      <4> HIDE DEF bytes, above
      <4> QED BY <4>1
    <3> QED BY <3>1, <3>2
  <2> HIDE DEF hole, bytes, above
  <2> QED BY <2>1, <2>2, <1>3 DEF Hole
<1>4. CASE I = {}
  <2>1. in = {}
    BY <1>4, NoFirstNoLast
  <2>2. above = {b \in B : b.s > seq}
    BY <2>1
  <2>3. \A b \in B : b.e < seq \/ b.s > seq
    BY <1>4, <1>t
  <2>4. CASE above = {}
    <3>1. hole.seq = -1
      BY <1>0, <2>1, <2>4
    <3>2. ASSUME NEW x \in BytesOf(B) PROVE x < seq
      <4>1. x \in Nat
        BY <1>2
      <4>2. PICK b \in B : b.s <= x /\ x < b.e
        BY <1>2
      <4> QED BY <4>1, <4>2, <2>2, <2>3, <2>4, <1>t
    <3> HIDE DEF hole
    <3> QED BY <3>1, <3>2 DEF Hole, hole
  <2>5. CASE above # {}
    <3>1. hole = [seq |-> seq, bytes |-> bytes]
      <4>1. EndOf(in, seq) = seq
        BY <2>1, PointsTo
      <4> HIDE DEF hole, above, bytes, in
      <4> QED BY <4>1, <1>0, <2>5
    <3>2. seq \notin BytesOf(B)
      <4> SUFFICES ASSUME NEW b \in B, b.s <= seq, seq < b.e PROVE FALSE
        BY <1>2
      <4> QED BY <2>3, <1>t
    <3>3. BytesOf(above) = {x \in BytesOf(B) : x > seq}
      <4>1. ASSUME NEW x \in BytesOf(above) PROVE x \in BytesOf(B) /\ x > seq
        BY <1>2, <2>2, <1>t
      <4>2. ASSUME NEW x \in BytesOf(B), x > seq PROVE x \in BytesOf(above)
        <5>1. PICK b \in B : b.s <= x /\ x < b.e /\ x \in Nat
          BY <1>2
        <5>2. b \in above
          BY <5>1, <4>2, <2>2, <2>3, <1>t
        <5> QED BY <5>1, <5>2, <1>2
      <4> QED BY <4>1, <4>2
    <3>4. seq .. (seq - 1) = {} /\ seq >= seq
      OBVIOUS
    <3> QED BY <3>1, <3>2, <3>3, <3>4, <1>3
  <2> QED BY <2>4, <2>5
<1>5. CASE I # {}
  <2>1. PICK i \in I : FirstOf(I) = {i}
    BY <1>5, FirstIs
  <2>2. in = {i} /\ i \in B /\ i.s <= seq /\ seq <= i.e
    BY <2>1
  <2>3. above = {b \in B : b.s > seq}
    BY <2>2, <1>t
  <2>4. \A b \in B : b = i \/ b.e < i.s \/ i.e < b.s
    BY <2>2 DEF Good, Separated
  <2>5. hole = [seq |-> i.e, bytes |-> bytes]
    <3>1. EndOf(in, seq) = i.e /\ in # {}
      BY <2>2, PointsTo
    <3> HIDE DEF hole, above, bytes, in
    <3> QED BY <3>1, <1>0
  <2>6. i.e \notin BytesOf(B)
    <3> SUFFICES ASSUME NEW b \in B, b.s <= i.e, i.e < b.e PROVE FALSE
      BY <1>2
    <3> QED BY <2>2, <2>4, <1>t
  <2>7. seq .. (i.e - 1) \subseteq BytesOf(B)
    <3>1. i.s .. (i.e - 1) \subseteq BytesOf(B)
      BY <2>2 DEF BytesOf
    <3> QED BY <3>1, <2>2, <1>t
  <2>8. BytesOf(above) = {x \in BytesOf(B) : x > i.e}
    <3>1. ASSUME NEW x \in BytesOf(above) PROVE x \in BytesOf(B) /\ x > i.e
      <4>1. PICK b \in above : b.s <= x /\ x < b.e /\ x \in Nat
        BY <1>2
      <4>2. b \in B /\ b.s > seq
        BY <2>3
      <4>3. i.e < b.s
        BY <4>2, <2>2, <2>4, <1>t
      <4> QED BY <4>1, <4>2, <4>3, <2>2, <1>2, <1>t
    <3>2. ASSUME NEW x \in BytesOf(B), x > i.e PROVE x \in BytesOf(above)
      <4>1. PICK b \in B : b.s <= x /\ x < b.e /\ x \in Nat
        BY <1>2
      <4>2. b \in above
        BY <4>1, <3>2, <2>2, <2>3, <2>4, <1>t
      <4> QED BY <4>1, <4>2, <1>2
    <3> QED BY <3>1, <3>2
  <2> QED BY <2>2, <2>5, <2>6, <2>7, <2>8, <1>3, <1>t
<1> QED BY <1>4, <1>5

-----------------------------------------------------------------------------
(* The receiver *)

\* A queue all of whose blocks lie behind a gap at rcv_nxt_, below n.
Waiting(rq, n) ==
    /\ rq \in QueueType /\ Good(rq.blocks, n)
    /\ rq.nxt \in Nat /\ rq.nxt <= n
    /\ \A b \in rq.blocks : rq.nxt < b.s

\* res is what the receiver should make of the segment [start, end): what it
\* has got is what it had and the part of the segment behind rcv_nxt_, and the
\* FIN is reported only when everything below n is in order.
Accepts(rq, res, start, end, fin, n) ==
    /\ Waiting(res.rq, n) /\ res.flags \in BOOLEAN
    /\ rq.nxt <= res.rq.nxt
    /\ BytesOf(res.rq.blocks) \cup (rq.nxt .. (res.rq.nxt - 1)) =
          BytesOf(rq.blocks) \cup {x \in start .. (end - 1) : x >= rq.nxt}
    /\ Counted(rq) => Counted(res.rq)
    /\ ~fin /\ Filled(rq.blocks) => Filled(res.rq.blocks)
    /\ FinAt(rq.blocks, n) => FinAt(res.rq.blocks, n) /\ (res.flags => res.rq.nxt = n)
    /\ HasFin(res.rq.blocks) \/ res.flags => HasFin(rq.blocks) \/ fin

\* A segment that starts at or behind rcv_nxt_ goes through reass().
LEMMA ReassAccepts ==
    ASSUME NEW n \in Nat, NEW rq, Waiting(rq, n),
           NEW start \in Nat, NEW end \in Nat, NEW fin \in BOOLEAN,
           rq.nxt <= start, end <= n, fin => end = n,
           start < end \/ (start = end /\ end = n /\ fin)
    PROVE  Accepts(rq, reass(rq, [s |-> start, e |-> end, fin |-> fin]), start, end, fin, n)
<1> DEFINE seg == [s |-> start, e |-> end, fin |-> fin]
           added == add(rq, start, end, fin)
           cleared == cleartonxt(added.rq)
           C == added.rq.blocks
           res == reass(rq, seg)
<1>t. /\ rq \in QueueType /\ Good(rq.blocks, n) /\ rq.nxt \in Nat /\ start <= end
      /\ \A b \in rq.blocks : b.s \in Nat /\ b.e \in Nat /\ b.e <= n
  BY DEF Waiting, Good, Block
<1>0. res = IF start = rq.nxt THEN [rq |-> cleared.rq, flags |-> added.flags \/ cleared.flags]
            ELSE [rq |-> added.rq, flags |-> FALSE]
  BY DEF reass
<1>1. Adds(rq, added, start, end, fin, n)
  <2>1. start < end \/ \A b \in rq.blocks : b.e <= start
    BY <1>t
  <2> QED BY <2>1, <1>t, AddAdds
<1> HIDE DEF added
<1>2. /\ added.rq \in QueueType /\ added.flags \in BOOLEAN /\ Good(C, n)
      /\ BytesOf(C) = BytesOf(rq.blocks) \cup (start .. (end - 1))
      /\ Counted(rq) => Counted(added.rq)
      /\ ~fin /\ Filled(rq.blocks) => Filled(C)
      /\ FinAt(rq.blocks, n) => FinAt(C, n)
      /\ HasFin(C) \/ added.flags => HasFin(rq.blocks) \/ fin
      /\ rq.nxt < start => added.rq.nxt = rq.nxt /\ \A c \in C : rq.nxt < c.s
      /\ rq.nxt = start =>
            /\ \A c \in C : start <= c.s
            /\ \E c \in C : c.s = start /\ added.rq.nxt = c.e /\ (added.flags => c.fin)
  BY <1>1 DEF Adds, Waiting
<1>3. {x \in start .. (end - 1) : x >= rq.nxt} = start .. (end - 1)
  BY <1>t
<1>4. CASE rq.nxt < start
  <2>1. res.rq = added.rq /\ res.flags = FALSE
    BY <1>0, <1>4, <1>t
  <2> HIDE DEF res, C
  <2>2. added.rq.nxt = rq.nxt /\ rq.nxt .. (rq.nxt - 1) = {}
    BY <1>2, <1>4, <1>t
  <2>3. Waiting(added.rq, n)
    BY <1>2, <1>4, <1>t DEF Waiting, C
  <2>4. res.rq.blocks = C
    BY <2>1 DEF C
  <2>5. rq.nxt <= res.rq.nxt /\ rq.nxt .. (res.rq.nxt - 1) = {}
    BY <2>1, <2>2, <1>t
  <2>6. Accepts(rq, res, start, end, fin, n)
    BY <2>1, <2>3, <2>4, <2>5, <1>2, <1>3 DEF Accepts
  <2> QED BY <2>6 DEF res
<1>5. CASE rq.nxt = start
  <2>1. res.rq = cleared.rq /\ (res.flags <=> added.flags \/ cleared.flags) /\ res.flags \in BOOLEAN
    <3> DEFINE fl == added.flags \/ cleared.flags
    <3>1. fl \in BOOLEAN /\ (fl <=> added.flags \/ cleared.flags)
      OBVIOUS
    <3>2. res = [rq |-> cleared.rq, flags |-> fl]
      BY <1>0, <1>5
    <3> HIDE DEF fl, res, cleared
    <3>3. res.rq = cleared.rq /\ res.flags = fl
      BY <3>2
    <3> QED BY <3>1, <3>3
  <2> HIDE DEF res
  <2>2. PICK c \in C : c.s = start /\ added.rq.nxt = c.e /\ (added.flags => c.fin)
    BY <1>2, <1>5
  <2>3. /\ \A b \in C : b.s \in Nat /\ b.e \in Nat /\ b.s <= b.e /\ b.e <= n
        /\ \A b \in C : start <= b.s
        /\ \A b \in C : b = c \/ c.e < b.s
    <3>1. \A b \in C : b.s \in Nat /\ b.e \in Nat /\ b.s <= b.e /\ b.e <= n
      BY <1>2 DEF Good, Block
    <3>2. \A b \in C : b = c \/ b.e < c.s \/ c.e < b.s
      BY <1>2 DEF Good, Separated
    <3> QED BY <3>1, <3>2, <1>2, <1>5, <2>2
  <2>4. Clears(added.rq, cleared, c.e, n)
    BY <1>2, <2>2, <2>3, CleartoClears DEF cleartonxt
  <2> HIDE DEF cleared
  <2> DEFINE D == cleared.rq.blocks
  <2>5. /\ cleared.rq \in QueueType /\ cleared.flags \in BOOLEAN /\ Good(D, n)
        /\ BytesOf(D) = {x \in BytesOf(C) : x >= c.e}
        /\ Counted(added.rq) => Counted(cleared.rq)
        /\ Filled(C) => Filled(D)
        /\ cleared.rq.nxt = c.e
        /\ FinAt(C, n) => FinAt(D, n)
        /\ HasFin(D) \/ cleared.flags => HasFin(C)
        /\ cleared.flags => \E b \in C : b.fin /\ b.s <= c.e
        /\ \A d \in D : c.e <= d.s
        /\ \A d \in D : d.s = c.e => \E b \in C : b.s <= c.e /\ c.e < b.e
    BY <2>2, <2>4 DEF Clears
  <2>6. Waiting(cleared.rq, n)
    <3>1. ASSUME NEW d \in D PROVE c.e < d.s
      <4>1. d.s # c.e
        BY <2>3, <2>5
      <4>2. d.s \in Nat /\ c.e <= d.s
        BY <2>5 DEF Good, Block
      <4> QED BY <4>1, <4>2, <2>3
    <3> QED BY <3>1, <2>3, <2>5 DEF Waiting
  <2>7. BytesOf(D) \cup (start .. (c.e - 1)) = BytesOf(C)
    <3>1. start .. (c.e - 1) \subseteq BytesOf(C)
      BY <2>2 DEF BytesOf
    <3>2. \A x \in BytesOf(C) : x \in Nat /\ start <= x
      <4> SUFFICES ASSUME NEW x \in BytesOf(C) PROVE x \in Nat /\ start <= x
        OBVIOUS
      <4>1. x \in Nat /\ \E b \in C : b.s <= x /\ x < b.e
        BY <1>2, InBytes DEF Good
      <4> QED BY <4>1, <2>3
    <3>3. c.e \in Nat /\ BytesOf(D) = {x \in BytesOf(C) : x >= c.e}
      BY <2>3, <2>5
    <3>4. \A x \in BytesOf(C) : x >= c.e \/ x \in start .. (c.e - 1)
      BY <3>2, <3>3
    <3> HIDE DEF D, C
    <3> QED BY <3>1, <3>3, <3>4
  <2>8. FinAt(rq.blocks, n) => FinAt(D, n) /\ (added.flags \/ cleared.flags => c.e = n)
    <3> SUFFICES ASSUME FinAt(C, n)
                 PROVE  FinAt(D, n) /\ (added.flags \/ cleared.flags => c.e = n)
      BY <1>2
    <3>1. c.fin => c.e = n
      BY DEF FinAt
    <3>2. cleared.flags => c.fin
      BY <2>3, <2>5
    <3> QED BY <3>1, <3>2, <2>2, <2>5
  <2>9. HasFin(D) \/ added.flags \/ cleared.flags => HasFin(rq.blocks) \/ fin
    BY <1>2, <2>5
  <2>10. start <= c.e
    BY <2>2, <2>3
  <2> HIDE DEF C, D
  <2>11. res.rq.blocks = D /\ res.rq.nxt = c.e /\ res.rq = cleared.rq
    BY <2>1, <2>5 DEF D
  <2>12. Accepts(rq, res, start, end, fin, n)
    BY <2>1, <2>5, <2>6, <2>7, <2>8, <2>9, <2>10, <2>11, <1>2, <1>3, <1>5 DEF Accepts
  <2> QED BY <2>12 DEF res
<1> QED BY <1>4, <1>5, <1>t

\* FullTcpAgent::recv keeps what is new of a segment, whatever it overlaps.
THEOREM AcceptAccepts ==
    ASSUME NEW n \in Nat, NEW rq, Waiting(rq, n),
           NEW start \in Nat, NEW end \in Nat, NEW fin \in BOOLEAN,
           end <= n, fin => end = n, start < end \/ (start = end /\ end = n)
    PROVE  Accepts(rq, Accept(rq, start, end, fin), start, end, fin, n)
<1> DEFINE seg == Trim(rq, start, end, fin)
           new == {x \in start .. (end - 1) : x >= rq.nxt}
<1>t. /\ rq \in QueueType /\ Good(rq.blocks, n) /\ rq.nxt \in Nat /\ rq.nxt <= n /\ start <= end
  BY DEF Waiting
<1>0. Accept(rq, start, end, fin) =
         IF seg.s = seg.e /\ ~seg.fin THEN [rq |-> rq, flags |-> FALSE]
         ELSE IF seg.s = rq.nxt /\ rq.blocks = {}
         THEN [rq |-> [rq EXCEPT !.nxt = @ + (seg.e - seg.s)], flags |-> seg.fin]
         ELSE reass(rq, seg)
  BY DEF Accept
\* What the trim leaves.
<1>1. \/ seg = [s |-> end, e |-> end, fin |-> FALSE] /\ new = {}
      \/ \E s \in Nat : /\ seg = [s |-> s, e |-> end, fin |-> fin]
                        /\ rq.nxt <= s /\ (s < end \/ (s = end /\ end = n /\ fin))
                        /\ new = s .. (end - 1)
  <2> DEFINE todrop == rq.nxt - start
             datalen == end - start
             all == todrop > datalen \/ (todrop = datalen /\ ~fin)
  <2>0. seg = IF todrop <= 0 \/ datalen = 0 THEN [s |-> start, e |-> end, fin |-> fin]
              ELSE IF all THEN [s |-> end, e |-> end, fin |-> FALSE]
              ELSE [s |-> rq.nxt, e |-> end, fin |-> fin]
    BY DEF Trim
  <2>1. CASE todrop <= 0 \/ datalen = 0
    <3>1. seg = [s |-> start, e |-> end, fin |-> fin]
      BY <2>0, <2>1
    <3>2. rq.nxt <= start
      BY <2>1, <1>t
    <3>3. new = start .. (end - 1)
      BY <3>2, <1>t
    <3>4. CASE start < end \/ fin
      <4>1. start < end \/ (start = end /\ end = n /\ fin)
        BY <3>4, <1>t
      <4> HIDE DEF seg, new
      <4> QED BY <3>1, <3>2, <3>3, <4>1
    <3>5. CASE ~(start < end) /\ ~fin
      <4>1. start = end /\ new = {}
        BY <3>5, <3>3, <1>t
      <4>2. fin = FALSE
        BY <3>5
      <4> HIDE DEF seg, new
      <4> QED BY <3>1, <4>1, <4>2
    <3> QED BY <3>4, <3>5
  <2>2. CASE ~(todrop <= 0 \/ datalen = 0) /\ all
    <3>1. seg = [s |-> end, e |-> end, fin |-> FALSE]
      BY <2>0, <2>2
    <3>2. new = {}
      BY <2>2, <1>t
    <3> HIDE DEF seg, new
    <3> QED BY <3>1, <3>2
  <2>3. CASE ~(todrop <= 0 \/ datalen = 0) /\ ~all
    <3>1. seg = [s |-> rq.nxt, e |-> end, fin |-> fin]
      BY <2>0, <2>3
    <3>2. rq.nxt < end \/ (rq.nxt = end /\ end = n /\ fin)
      BY <2>3, <1>t
    <3>3. new = rq.nxt .. (end - 1)
      BY <2>3, <1>t
    <3>4. rq.nxt <= rq.nxt
      BY <1>t
    <3> HIDE DEF seg, new
    <3> QED BY <3>1, <3>2, <3>3, <3>4, <1>t
  <2> QED BY <2>1, <2>2, <2>3
<1> HIDE DEF seg
<1>2. CASE seg = [s |-> end, e |-> end, fin |-> FALSE] /\ new = {}
  <2>1. Accept(rq, start, end, fin) = [rq |-> rq, flags |-> FALSE]
    BY <1>0, <1>2
  <2> DEFINE res == [rq |-> rq, flags |-> FALSE]
  <2>2. res.rq = rq /\ res.flags = FALSE
    OBVIOUS
  <2>3. rq.nxt .. (rq.nxt - 1) = {} /\ rq.nxt <= rq.nxt
    BY <1>t
  <2> HIDE DEF res, new
  <2>4. Accepts(rq, res, start, end, fin, n)
    BY <2>2, <2>3, <1>2 DEF Accepts, new
  <2> QED BY <2>1, <2>4 DEF res
<1>3. ASSUME NEW s \in Nat, seg = [s |-> s, e |-> end, fin |-> fin],
             rq.nxt <= s, s < end \/ (s = end /\ end = n /\ fin), new = s .. (end - 1)
      PROVE  Accepts(rq, Accept(rq, start, end, fin), start, end, fin, n)
  <2>0. seg.s = s /\ seg.e = end /\ seg.fin = fin
    BY <1>3
  <2>1. ~(seg.s = seg.e /\ ~seg.fin)
    BY <1>3, <2>0
  <2>2. CASE s = rq.nxt /\ rq.blocks = {}
    <3> DEFINE rq2 == [rq EXCEPT !.nxt = @ + (end - s)]
               res == [rq |-> rq2, flags |-> fin]
    <3>1. Accept(rq, start, end, fin) = res
      BY <1>0, <2>0, <2>1, <2>2
    <3>2. rq.nxt + (end - s) = end
      BY <2>2, <1>t
    <3>3. rq2 \in QueueType /\ rq2.blocks = {} /\ rq2.total = rq.total /\ rq2.nxt = end
      BY <2>2, <3>2, <1>t DEF QueueType
    <3> HIDE DEF rq2
    <3>4. res.rq = rq2 /\ res.flags = fin
      OBVIOUS
    <3> HIDE DEF res, new
    <3>5. Waiting(rq2, n)
      BY <3>3, <2>2, <1>t DEF Waiting
    <3>6. rq.nxt <= end
      BY <1>3, <1>t
    <3>7. FinAt({}, n) /\ ~HasFin({})
      BY DEF FinAt, HasFin
    <3>8. Counted(rq) => Counted(rq2)
      BY <2>2, <3>3 DEF Counted
    <3>9. Accepts(rq, res, start, end, fin, n)
      BY <1>3, <2>2, <3>3, <3>4, <3>5, <3>6, <3>7, <3>8 DEF Accepts, new
    <3> QED BY <3>1, <3>9
  <2>3. CASE ~(s = rq.nxt /\ rq.blocks = {})
    <3>1. Accept(rq, start, end, fin) = reass(rq, [s |-> s, e |-> end, fin |-> fin])
      BY <1>0, <1>3, <2>0, <2>1, <2>3
    <3>2. Accepts(rq, reass(rq, [s |-> s, e |-> end, fin |-> fin]), s, end, fin, n)
      BY <1>3, ReassAccepts
    <3>3. {x \in s .. (end - 1) : x >= rq.nxt} = new
      BY <1>3, <1>t
    <3> DEFINE res == reass(rq, [s |-> s, e |-> end, fin |-> fin])
    <3> HIDE DEF res, new
    <3>4. Accepts(rq, res, start, end, fin, n)
      BY <3>2, <3>3 DEF Accepts, new, res
    <3> QED BY <3>1, <3>4 DEF res
  <2> QED BY <2>2, <2>3
<1> QED BY <1>1, <1>2, <1>3
=============================================================================
