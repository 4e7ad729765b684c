-------------------------- MODULE ReassemblyQueue --------------------------
(***************************************************************************)
(* The class ReassemblyQueue (rq.cc, rq.h): the receiver's queue of         *)
(* out-of-order segments (rq_) and the sender's SACK scoreboard (sq_).      *)
(*                                                                         *)
(* A block holds the bytes s .. e-1; the FIFO is the set of the blocks,     *)
(* ordered by s.  A pointer to a block is a set with at most one element,   *)
(* {} for NULL.  The LIFO holds the same blocks; its order only decides     *)
(* which blocks gensack reports when there are too many, and gensack is     *)
(* modelled as reporting any of them.  Of the header flags only FIN is      *)
(* kept.  A queue is a record of its blocks, total_ and the sequence number *)
(* `nxt' that the reference rcv_nxt_ names.                                 *)
(***************************************************************************)
EXTENDS Integers, FiniteSets

Block == [s : Nat, e : Nat, fin : BOOLEAN]

QueueType == [blocks : SUBSET Block, total : Int, nxt : Int]

\* The bytes in a set of blocks.
BytesOf(S) == UNION {b.s .. (b.e - 1) : b \in S}

HasFin(S) == \E b \in S : b.fin

\* The first and the last block of a set, {} if it is empty.
FirstOf(S) == {b \in S : \A r \in S : b.s <= r.s}
LastOf(S) == {b \in S : \A r \in S : r.s <= b.s}

\* What a pointer holds, `none' if it is NULL.
StartOf(ptr, none) == IF ptr = {} THEN none ELSE (CHOOSE b \in ptr : TRUE).s
EndOf(ptr, none) == IF ptr = {} THEN none ELSE (CHOOSE b \in ptr : TRUE).e

minseq(B) == StartOf(FirstOf(B), -1)
maxseq(B) == EndOf(LastOf(B), -1)

\* Mutant: > for >=.
MutAdvance(nxt, b) == IF nxt > b.s THEN b.e ELSE nxt

\* `if (rcv_nxt_ >= b->startseq_) rcv_nxt_ = b->endseq_'
Advance(nxt, b) == IF nxt >= b.s THEN b.e ELSE nxt

\* The end of add(): the new block is linked between p and q (what lay
\* between them is off the list) and coalesced with the ones it touches.
\* The joined block has the flags of p and the new one, or of q and the new
\* one, but when it joins both, those of q are dropped with q.
link(rq, p, q, start, end, fin) ==
    LET kept  == {b \in rq.blocks : \/ \E r \in p : b.s <= r.s
                                    \/ \E r \in q : b.s >= r.s}
        left  == {b \in p : b.e = start}
        right == {b \in q : b.s = end}
        new   == [s   |-> StartOf(left, start),
                  e   |-> EndOf(right, end),
                  fin |-> fin \/ HasFin(IF left = {} THEN right ELSE left)]
    IN [rq    |-> [blocks |-> (kept \ (left \cup right)) \cup {new},
                   total  |-> rq.total + (end - start),
                   nxt    |-> Advance(rq.nxt, new)],
        flags |-> new.fin]

\* add() when [start, end) overlaps blocks but covers none of them: the block
\* on the left and the one on the right are stretched (they may be the same),
\* then what is left of the segment is linked between them.
stretch(rq, start, end, fin) ==
    LET B  == rq.blocks
        p  == LastOf({b \in B : b.e <= start})
        q  == FirstOf({b \in B : b.s >= end})
        \* p->next_ and q->prev_, or head_ and tail_
        pn == FirstOf({b \in B : \A r \in p : b.s > r.s})
        qp == LastOf({b \in B : \A r \in q : b.s < r.s})
        P  == {b \in pn : p = {} \/ b.s < start}
        R  == {b \in qp : q = {} \/ b.e > end}
        new(b) == [s   |-> IF b \in P /\ start < b.s THEN start ELSE b.s,
                   e   |-> IF b \in R /\ end > b.e THEN end ELSE b.e,
                   fin |-> b.fin \/ (fin /\ b \in P \cup R)]
        start2 == EndOf(P, start)
        end2   == StartOf({new(b) : b \in R}, end)
        rq2    == [rq EXCEPT
                     !.blocks = {new(b) : b \in B},
                     !.total  = @ + (StartOf(P, start) - StartOf({new(b) : b \in P}, start))
                                  + (EndOf({new(b) : b \in R}, end) - EndOf(R, end))]
    IN IF end2 <= start2
       THEN [rq    |-> [rq2 EXCEPT
                          !.nxt = IF @ >= minseq(rq2.blocks)
                                  THEN EndOf(FirstOf(rq2.blocks), @) ELSE @],
             flags |-> fin]
       ELSE link(rq2,
                 IF P = {} THEN p ELSE {new(b) : b \in P},
                 IF R = {} THEN q ELSE {new(b) : b \in R},
                 start2, end2, fin)

\* The segment lies behind the last block or before the first one.
AtTail(B, start) == start >= maxseq(B)
AtHead(B, end) == end <= minseq(B)

\* One pass of add() over a list no block of which is covered.
place(rq, start, end, fin) ==
    LET B == rq.blocks IN
    IF B = {} THEN link(rq, {}, {}, start, end, fin)
    ELSE IF AtTail(B, start) THEN link(rq, LastOf(B), {}, start, end, fin)
    ELSE IF AtHead(B, end) THEN link(rq, {}, FirstOf(B), start, end, fin)
    ELSE stretch(rq, start, end, fin)

\* add(): an exact duplicate only adds its flags; covered blocks are removed
\* before the segment is placed.
add(rq, start, end, fin) ==
    LET B     == rq.blocks
        exact == {b \in B : b.s = start /\ b.e = end}
        cover == {b \in B : start <= b.s /\ b.s < end /\ b.e <= end}
    IN IF B = {} \/ AtTail(B, start) \/ AtHead(B, end)
       THEN place(rq, start, end, fin)
       ELSE IF exact # {}
       THEN [rq    |-> [rq EXCEPT !.blocks = (@ \ exact) \cup
                           {[b EXCEPT !.fin = @ \/ fin] : b \in exact}],
             flags |-> fin \/ HasFin(exact)]
       ELSE place([rq EXCEPT !.blocks = @ \ cover,
                             !.total = @ - Cardinality(BytesOf(cover))],
                  start, end, fin \/ HasFin(cover))

\* Mutant: total_ is not reduced for the block that is trimmed.
MutClearto(rq, seq) ==
    LET gone == {b \in rq.blocks : b.e <= seq}
        cut  == {b \in rq.blocks : b.s <= seq /\ b.e > seq}
    IN [rq    |-> [rq EXCEPT
                     !.blocks = (@ \ (gone \cup cut)) \cup
                                {[b EXCEPT !.s = seq] : b \in cut}],
        flags |-> HasFin(gone \cup cut)]

\* clearto(): drops the blocks below seq and trims the one that contains it.
clearto(rq, seq) ==
    LET gone == {b \in rq.blocks : b.e <= seq}
        cut  == {b \in rq.blocks : b.s <= seq /\ b.e > seq}
    IN [rq    |-> [rq EXCEPT
                     !.blocks = (@ \ (gone \cup cut)) \cup
                                {[b EXCEPT !.s = seq] : b \in cut},
                     !.total  = @ - Cardinality(BytesOf(gone))
                                  - (seq - StartOf(cut, seq))],
        flags |-> HasFin(gone \cup cut)]

cleartonxt(rq) == clearto(rq, rq.nxt)

\* The reports gensack may make: all blocks, or max of them.
gensack(rq, max) ==
    {S \in SUBSET rq.blocks :
        S = rq.blocks \/ (Cardinality(S) = max /\ Cardinality(rq.blocks) > max)}

\* Mutant: a byte at the start of a block is taken for a hole.
MutNexthole(rq, seq) ==
    LET in    == FirstOf({b \in rq.blocks : b.s < seq /\ seq <= b.e})
        above == {b \in rq.blocks : b.s >= seq /\ \A r \in in : b.s > r.s}
        bytes == IF above = {} THEN -1 ELSE Cardinality(BytesOf(above))
    IN IF in = {} /\ above = {} THEN [seq |-> -1, bytes |-> -1]
       ELSE [seq |-> EndOf(in, seq), bytes |-> bytes]

\* nexthole(): the hole at or above seq, and the bytes in the blocks above
\* the hole (-1 if there is none).
nexthole(rq, seq) ==
    LET in    == FirstOf({b \in rq.blocks : b.s <= seq /\ seq <= b.e})
        above == {b \in rq.blocks : b.s > seq /\ \A r \in in : b.s > r.s}
        bytes == IF above = {} THEN -1 ELSE Cardinality(BytesOf(above))
    IN IF in = {} /\ above = {} THEN [seq |-> -1, bytes |-> -1]
       ELSE [seq |-> EndOf(in, seq), bytes |-> bytes]

-----------------------------------------------------------------------------
(* The receiver: what FullTcpAgent::recv does with the data of a segment *)

\* The part of the segment that is left after the data trim.
Trim(rq, start, end, fin) ==
    LET todrop  == rq.nxt - start
        datalen == end - start
        all     == todrop > datalen \/ (todrop = datalen /\ ~fin)
    IN IF todrop <= 0 \/ datalen = 0 THEN [s |-> start, e |-> end, fin |-> fin]
       ELSE IF all THEN [s |-> end, e |-> end, fin |-> FALSE]
       ELSE [s |-> rq.nxt, e |-> end, fin |-> fin]

\* Mutant: the flags of an out-of-order segment are returned too.
MutReass(rq, seg) ==
    LET added   == add(rq, seg.s, seg.e, seg.fin)
        cleared == cleartonxt(added.rq)
    IN IF seg.s = rq.nxt
       THEN [rq |-> cleared.rq, flags |-> added.flags \/ cleared.flags]
       ELSE added

\* reass(): the queue and the flags afterwards.
reass(rq, seg) ==
    LET added   == add(rq, seg.s, seg.e, seg.fin)
        cleared == cleartonxt(added.rq)
    IN IF seg.s = rq.nxt
       THEN [rq |-> cleared.rq, flags |-> added.flags \/ cleared.flags]
       ELSE [rq |-> added.rq, flags |-> FALSE]

\* step6 of recv, before the FIN is looked at: the segment is appended to
\* the stream, queued or, if nothing is left of it, ignored.
Accept(rq, start, end, fin) ==
    LET seg == Trim(rq, start, end, fin) IN
    IF seg.s = seg.e /\ ~seg.fin THEN [rq |-> rq, flags |-> FALSE]
    ELSE IF seg.s = rq.nxt /\ rq.blocks = {}
    THEN [rq |-> [rq EXCEPT !.nxt = @ + (seg.e - seg.s)], flags |-> seg.fin]
    ELSE reass(rq, seg)

-----------------------------------------------------------------------------
(* What the properties of the users of a queue say about its blocks *)

\* Between two blocks there is a gap.
Separated(B) ==
    \A a, b \in B : a = b \/ a.e < b.s \/ b.e < a.s
=============================================================================
