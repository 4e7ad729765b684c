------------------------- MODULE FlowTransferProofs -------------------------
(***************************************************************************)
(* Proofs about module FlowTransfer, for flows of any number and size, any  *)
(* segment size and window, and any losses and reordering.  What the queue  *)
(* operations do is taken from module ReassemblyQueueProofs.                *)
(***************************************************************************)
EXTENDS FlowTransfer, ReassemblyQueueProofs

\* What the application has handed over, and when a flow is reported done.
AppOK ==
    /\ flow \in 0 .. Len(Flows) /\ chunk \in Nat /\ done \in Nat
    /\ flow = 0 => chunk = 0
    /\ flow > 0 => chunk \in 1 .. Len(Flows[flow])
    /\ done = flow \/ done = flow - 1
    /\ done = flow => flow = 0 \/ chunk = Len(Flows[flow])
    /\ signal_on_empty_ <=> flow > done /\ chunk = Len(Flows[flow])

SendJob == [op : {"send"}, force : BOOLEAN, cwin : Nat]
AckJob == [op : {"ack"}, ackno : Nat, sacks : SUBSET Block]

\* What the running handler has left to do.
JobOK ==
    \/ job = Idle
    \/ job \in SendJob /\ job.cwin >= maxseg_
    \/ job \in AckJob /\ job.ackno <= rq_.nxt

\* The sequence numbers of SeqOrder, and those of recovery.
NumbersOK ==
    /\ SeqOrder
    /\ highest_ack_ >= 1 /\ dupacks_ \in Nat
    /\ recover_ <= maxseq_
    /\ h_seqno_ = -1 \/ h_seqno_ >= highest_ack_

\* The receiver's queue lies behind the gap at rcv_nxt_, below what was sent.
ReceiverOK == Waiting(rq_, maxseq_) /\ Filled(rq_.blocks)

\* The scoreboard holds bytes that the receiver has.
ScoreOK ==
    /\ Good(sq_.blocks, maxseq_) /\ Counted(sq_)
    /\ BytesOf(sq_.blocks) \subseteq Received

\* The receiver has what the SACK blocks S report.
Reported(S) == \A b \in S : b \in Block /\ b.s < b.e /\ b.s .. (b.e - 1) \subseteq Received

SacksTrue ==
    /\ \A m \in BagToSet(acks) : Reported(m.sacks)
    /\ job.op = "ack" => Reported(job.sacks)

\* The timer runs as long as something is outstanding.
TimerOK ==
    /\ ~rtx_pending => highest_ack_ = maxseq_ /\ ~pipectrl_
    /\ rtx_pending => highest_ack_ <= curseq_

\* The inductive invariant.
FInv == /\ AppOK /\ JobOK /\ NumbersOK /\ ReceiverOK /\ ScoreOK /\ SacksTrue
        /\ TimerOK /\ UrgentCopyExists

\* Every chunk has at least two bytes: the applications hand over whole packets
\* (app-chunks.cc, line 108).
TwoBytes == \A i \in 1 .. Len(Flows) : \A k \in 1 .. Len(Flows[i]) : Flows[i][k] >= 2

\* Without a timer, the handler that runs will send what waits.
SendsSoon ==
    ~rtx_pending /\ highest_ack_ <= curseq_ =>
        job.op = "send" /\ (job.force \/ highest_ack_ < curseq_)

-----------------------------------------------------------------------------
(* Packets, windows and segments *)

\* Sending adds a packet to those in flight.
LEMMA BagPut == ASSUME NEW B, NEW m PROVE BagToSet(Put(B, m)) = BagToSet(B) \cup {m}
  BY DEF Put, BagToSet, (+), SetToBag

\* Receiving adds none.
LEMMA BagTake == ASSUME NEW B, NEW m PROVE BagToSet(Take(B, m)) \subseteq BagToSet(B)
  BY DEF Take, BagToSet, (-), SetToBag

\* The assumptions on the constants, one by one.
LEMMA Consts ==
    /\ maxseg_ \in Nat /\ maxseg_ >= 1 /\ MaxWin \in Nat /\ MaxLoss \in Nat
    /\ prob_cap_ \in Nat /\ tcprexmtthresh_ \in Nat
    /\ Flows \in Seq(Seq(Nat \ {0})) /\ Len(Flows) \in Nat
    /\ \A i \in 1 .. Len(Flows) : /\ Flows[i] \in Seq(Nat \ {0}) /\ Len(Flows[i]) \in Nat
                                  /\ Len(Flows[i]) >= 1
                                  /\ \A k \in 1 .. Len(Flows[i]) : Flows[i][k] \in Nat \ {0}
<1>1. Flows \in Seq(Seq(Nat \ {0})) /\ \A i \in 1 .. Len(Flows) : Flows[i] # <<>>
  BY FlowAssumption
<1>2. ASSUME NEW i \in 1 .. Len(Flows)
      PROVE  /\ Flows[i] \in Seq(Nat \ {0}) /\ Len(Flows[i]) \in Nat
             /\ Len(Flows[i]) >= 1
             /\ \A k \in 1 .. Len(Flows[i]) : Flows[i][k] \in Nat \ {0}
  <2>1. Flows[i] \in Seq(Nat \ {0}) /\ Flows[i] # <<>>
    BY <1>1
  <2> QED BY <2>1
<1> QED BY <1>1, <1>2, FlowAssumption

\* What is known of a running send_much.
LEMMA SendingJob ==
    ASSUME JobOK, job.op = "send" PROVE job \in SendJob /\ job.cwin >= maxseg_
  BY DEF JobOK, Idle, AckJob

\* What is known of a running process_sack.
LEMMA AckingJob ==
    ASSUME JobOK, job.op = "ack" PROVE job \in AckJob /\ job.ackno <= rq_.nxt
  BY DEF JobOK, Idle, SendJob

\* A call of send_much finds a window of at least one segment.
LEMMA NewSendJob ==
    ASSUME NEW force \in BOOLEAN, SendMuch(force)
    PROVE  job' \in SendJob /\ job'.cwin >= maxseg_ /\ job'.op = "send" /\ job'.force = force
<1>1. PICK w \in 1 .. MaxWin : job' = [op |-> "send", force |-> force, cwin |-> w * maxseg_]
  BY DEF SendMuch
<1>2. w * maxseg_ \in Nat /\ w * maxseg_ >= maxseg_
  <2>1. maxseg_ \in Nat /\ w - 1 \in Nat
    BY Consts
  <2>2. (w - 1) * maxseg_ \in Nat
    BY <2>1
  <2>3. w * maxseg_ = (w - 1) * maxseg_ + maxseg_
    BY <2>1
  <2> QED BY ONLY <2>1, <2>2, <2>3
<1> QED BY <1>1, <1>2 DEF SendJob

\* The window is never closed.
LEMMA WindowOpen ==
    ASSUME JobOK, job.op = "send"
    PROVE  win \in Nat /\ win >= 1 /\ (win < maxseg_ => win = 1 /\ prob_mode_)
<1>1. job.cwin \in Nat /\ job.cwin >= maxseg_
  BY SendingJob DEF SendJob
<1> QED BY <1>1, Consts DEF win

\* What foutput sends fits into a segment and is in the buffer.
LEMMA Datalen ==
    ASSUME highest_ack_ \in Nat, curseq_ \in Nat, win \in Nat,
           NEW seq \in Nat, NEW all, datalen(seq, all) # 0
    PROVE  /\ datalen(seq, all) \in 1 .. maxseg_
           /\ seq + datalen(seq, all) <= curseq_ + 1
<1> DEFINE b == curseq_ - highest_ack_ + 1
           limit == IF all \/ b < win THEN b ELSE win
           rest == limit - (seq - highest_ack_)
           len == IF rest > maxseg_ THEN maxseg_ ELSE rest
           nagle == /\ len # maxseg_
                    /\ seq + len <= curseq_
                    /\ seq >= maxseq_
                    /\ ~(len = 1 /\ prob_mode_)
<1>1. datalen(seq, all) = IF len <= 0 \/ nagle THEN 0 ELSE len
  BY DEF datalen, buffered_bytes
<1>2. limit \in Int /\ limit <= b
  OBVIOUS
<1> HIDE DEF limit
<1>3. len \in Int /\ len <= maxseg_ /\ len <= rest
  BY <1>2, Consts
<1> HIDE DEF nagle, len
<1>4. datalen(seq, all) = len /\ len > 0
  BY <1>1, <1>3
<1> QED BY <1>2, <1>3, <1>4, Consts

\* The byte that send_much looks at lies at or above what is acknowledged.
LEMMA NextSeq ==
    ASSUME NumbersOK, ScoreOK
    PROVE  /\ nxt_tseq \in Nat /\ nxt_tseq >= highest_ack_
           /\ hole_seqno \in Int /\ (hole_seqno = -1 \/ hole_seqno >= highest_ack_)
<1> DEFINE hole == nexthole(sq_, h_seqno_)
<1>1. /\ highest_ack_ \in Nat /\ highest_ack_ >= 1 /\ t_seqno_ \in Nat /\ t_seqno_ >= highest_ack_
      /\ h_seqno_ \in Int /\ (h_seqno_ = -1 \/ h_seqno_ >= highest_ack_)
      /\ maxseq_ \in Nat
  BY DEF NumbersOK, SeqOrder, TypeOK, SeqNumbers
<1>2. FillHole => hole.seq \in Nat /\ hole.seq >= h_seqno_ /\ h_seqno_ >= highest_ack_
  <2> SUFFICES ASSUME FillHole
               PROVE  hole.seq \in Nat /\ hole.seq >= h_seqno_ /\ h_seqno_ >= highest_ack_
    OBVIOUS
  <2>1. hole.seq > 0
    BY DEF FillHole
  <2>2. CASE h_seqno_ = -1
    <3>1. \A b \in sq_.blocks : b.s \in Nat
      BY DEF ScoreOK, Good, Block
    <3>2. FirstOf({b \in sq_.blocks : b.s <= -1 /\ -1 <= b.e}) = {}
      BY <3>1 DEF FirstOf
    <3>3. hole.seq = -1
      BY <2>2, <3>2 DEF nexthole, EndOf
    <3> QED BY <2>1, <3>3
  <2>3. CASE h_seqno_ >= highest_ack_
    <3>1. h_seqno_ \in Nat
      BY <2>3, <1>1
    <3>2. Hole(sq_, hole, h_seqno_)
      BY <3>1, <1>1, NextholeFinds DEF ScoreOK
    <3> HIDE DEF hole
    <3>3. hole.seq # -1
      BY <2>1
    <3> QED BY <2>3, <3>2, <3>3 DEF Hole
  <2> QED BY <1>1, <2>2, <2>3
<1>3. nxt_tseq = IF FillHole THEN hole.seq ELSE t_seqno_
  BY DEF nxt_tseq
<1> HIDE DEF hole
<1>4. nxt_tseq \in Nat /\ nxt_tseq >= highest_ack_
  BY <1>1, <1>2, <1>3
<1> QED BY <1>1, <1>2, <1>4 DEF hole_seqno

-----------------------------------------------------------------------------
(* What a step leaves alone *)

\* Blocks below n are below everything above n.
LEMMA GoodBelow ==
    ASSUME NEW n \in Nat, NEW k \in Nat, n <= k, NEW B, Good(B, n)
    PROVE  Good(B, k)
  BY DEF Good, Block

\* Sending disturbs neither queue.
LEMMA QueuesKept ==
    ASSUME ReceiverOK, ScoreOK, UNCHANGED <<rq_, sq_>>,
           maxseq_ \in Nat, maxseq_' \in Nat, maxseq_ <= maxseq_'
    PROVE  ReceiverOK' /\ ScoreOK' /\ Received' = Received
<1>1. Good(rq_.blocks, maxseq_') /\ Good(sq_.blocks, maxseq_')
  BY GoodBelow DEF ReceiverOK, ScoreOK, Waiting
<1>2. rq_.nxt \in Nat /\ rq_.nxt <= maxseq_'
  BY DEF ReceiverOK, Waiting
<1>3. Received' = Received
  BY DEF Received
<1> QED BY <1>1, <1>2, <1>3 DEF ReceiverOK, ScoreOK, Waiting, Counted

\* What the receiver has, it keeps.
LEMMA SacksKept ==
    ASSUME SacksTrue, Received \subseteq Received', BagToSet(acks)' \subseteq BagToSet(acks),
           job'.op = "ack" => UNCHANGED job
    PROVE  SacksTrue'
<1>1. ASSUME NEW S, Reported(S) PROVE Reported(S)'
  BY <1>1 DEF Reported
<1> QED BY <1>1 DEF SacksTrue

\* The flow is as far as it was.
LEMMA AppKept ==
    ASSUME AppOK, UNCHANGED <<flow, chunk, done, signal_on_empty_>> PROVE AppOK'
  BY DEF AppOK

-----------------------------------------------------------------------------
(* The steps *)

\* foutput sends the bytes seq .. seq + len - 1, which are in the buffer.
LEMMA OutputInv ==
    ASSUME FInv, NEW seq \in Nat, NEW len \in 1 .. maxseg_,
           seq >= highest_ack_, seq + len <= curseq_ + 1,
           Output(seq, len),
           UNCHANGED <<rtx_on_eof_, flow, chunk, done, curseq_, signal_on_empty_,
                       highest_ack_, sq_, prob_count_, rq_, acks>>,
           job' \in SendJob, job'.cwin >= maxseg_,
           t_seqno_' = t_seqno_ \/ (seq = t_seqno_ /\ t_seqno_' = t_seqno_ + len),
           h_seqno_' \in Int, h_seqno_' = -1 \/ h_seqno_' >= highest_ack_,
           recover_' \in Int, recover_' <= maxseq_, pipe_' \in Int, dupacks_' \in Nat
    PROVE  FInv'
<1> USE Consts
<1>1. NumbersOK /\ ReceiverOK /\ ScoreOK /\ SacksTrue /\ UrgentCopyExists /\ AppOK /\ TimerOK
  BY DEF FInv
<1>2. /\ highest_ack_ \in Nat /\ curseq_ \in Nat /\ maxseq_ \in Nat /\ t_seqno_ \in Nat
      /\ t_seqno_ >= highest_ack_ /\ t_seqno_ <= maxseq_ /\ maxseq_ <= curseq_ + 1
      /\ rq_ \in QueueType /\ rq_.nxt \in Nat /\ highest_ack_ <= rq_.nxt /\ rq_.nxt <= maxseq_
  BY <1>1 DEF NumbersOK, SeqOrder, TypeOK, SeqNumbers, ReceiverOK, Waiting
<1>3. /\ maxseq_' \in Nat /\ maxseq_ <= maxseq_' /\ seq + len <= maxseq_' /\ maxseq_' <= curseq_ + 1
      /\ rtx_pending' = TRUE
      /\ urgent' = IF signal_on_empty_ THEN urgent \cup (seq .. (seq + len - 1)) ELSE urgent
  BY <1>2 DEF Output
<1>4. losses' \in 0 .. MaxLoss
  BY <1>1 DEF Output, SendData, NumbersOK, SeqOrder, TypeOK
<1>5. \A m \in BagToSet(data)' : m \in BagToSet(data) \/ m = [seq |-> seq, len |-> len]
  BY BagPut DEF Output, SendData
<1>6. ASSUME NEW m \in BagToSet(data)'
      PROVE  m.seq \in Nat /\ m.len \in 1 .. maxseg_ /\ m.seq + m.len <= maxseq_'
  <2>1. CASE m \in BagToSet(data)
    <3>1. m.seq \in Nat /\ m.len \in 1 .. maxseg_ /\ m.seq + m.len <= maxseq_
      BY <2>1, <1>1 DEF NumbersOK, SeqOrder, TypeOK
    <3> QED BY ONLY <3>1, <1>2, <1>3, Consts
  <2>2. CASE m = [seq |-> seq, len |-> len]
    BY <2>2, <1>3
  <2> QED BY <1>5, <2>1, <2>2
<1>7. t_seqno_' \in Nat /\ highest_ack_ <= t_seqno_' /\ t_seqno_' <= maxseq_'
  BY <1>2, <1>3
<1>8. NumbersOK'
  <2>1. TypeOK'
    BY <1>1, <1>2, <1>3, <1>4, <1>6, <1>7 DEF NumbersOK, SeqOrder, TypeOK, SeqNumbers
  <2>2. SeqOrder'
    <3>1. \A m \in BagToSet(acks)' : m.ackno <= rq_'.nxt
      BY <1>1 DEF NumbersOK, SeqOrder
    <3>2. rq_'.nxt <= maxseq_' /\ maxseq_' <= curseq_' + 1 /\ highest_ack_' <= rq_'.nxt
      BY <1>2, <1>3
    <3>3. \A m \in BagToSet(data)' : m.seq + m.len <= maxseq_'
      BY <1>6
    <3> QED BY <2>1, <1>7, <3>1, <3>2, <3>3 DEF SeqOrder
  <2>3. recover_' <= maxseq_'
    BY <1>2, <1>3
  <2> QED BY <2>2, <2>3, <1>1 DEF NumbersOK
<1>9. ReceiverOK' /\ ScoreOK' /\ Received' = Received
  BY <1>1, <1>2, <1>3, QueuesKept
<1>10. job'.op = "send"
  BY DEF SendJob
<1>11. SacksTrue'
  BY <1>1, <1>9, <1>10, SacksKept
<1>12. TimerOK'
  BY <1>2, <1>3 DEF TimerOK
<1>13. UrgentCopyExists'
  <2> SUFFICES ASSUME rtx_on_eof_, signal_on_empty_
               PROVE  highest_ack_ .. (t_seqno_' - 1) \subseteq urgent'
    BY DEF UrgentCopyExists
  <2>1. highest_ack_ .. (t_seqno_ - 1) \subseteq urgent
    BY <1>1 DEF UrgentCopyExists
  <2>2. urgent' = urgent \cup (seq .. (seq + len - 1))
    BY <1>3
  <2>3. \A x \in highest_ack_ .. (t_seqno_' - 1) :
           x \in highest_ack_ .. (t_seqno_ - 1) \/ x \in seq .. (seq + len - 1)
    BY <1>2
  <2> QED BY <2>1, <2>2, <2>3
<1>14. AppOK' /\ JobOK'
  BY <1>1, AppKept DEF JobOK
<1> QED BY <1>8, <1>9, <1>11, <1>12, <1>13, <1>14 DEF FInv

\* A packet is sent by send_much.
LEMMA SendPacketInv == ASSUME FInv, SendPacket PROVE FInv'
<1> DEFINE seq == nxt_tseq
           len == datalen(seq, pipectrl_)
           hs == hole_seqno
<1>1. NumbersOK /\ ScoreOK /\ JobOK
  BY DEF FInv
<1>2. /\ job.op = "send" /\ len > 0 /\ Output(seq, len)
      /\ t_seqno_' = (IF seq = t_seqno_ THEN t_seqno_ + len ELSE t_seqno_)
      /\ h_seqno_' = (IF seq = hs THEN hs + len ELSE hs)
      /\ pipe_' = (IF pipectrl_ THEN pipe_ + len ELSE 0)
      /\ job' = [job EXCEPT !.force = FALSE]
      /\ UNCHANGED <<rtx_on_eof_, flow, chunk, done, curseq_, signal_on_empty_,
                     highest_ack_, recover_, sq_, dupacks_, prob_count_, rq_, acks>>
  BY DEF SendPacket
<1>3. /\ seq \in Nat /\ seq >= highest_ack_
      /\ hs \in Int /\ (hs = -1 \/ hs >= highest_ack_)
  BY <1>1, NextSeq
<1>4. /\ highest_ack_ \in Nat /\ curseq_ \in Nat /\ maxseq_ \in Nat /\ t_seqno_ \in Nat
      /\ recover_ \in Int /\ recover_ <= maxseq_ /\ dupacks_ \in Nat /\ pipe_ \in Int
  BY <1>1 DEF NumbersOK, SeqOrder, TypeOK, SeqNumbers
<1>5. len \in 1 .. maxseg_ /\ seq + len <= curseq_ + 1
  <2>1. win \in Nat
    BY <1>1, <1>2, WindowOpen
  <2>2. len # 0
    BY <1>2
  <2> HIDE DEF seq
  <2> QED BY <1>3, <1>4, <2>1, <2>2, Datalen
<1>6. job' \in SendJob /\ job'.cwin >= maxseg_
  <2>1. job \in SendJob /\ job.cwin >= maxseg_
    BY <1>1, <1>2, SendingJob
  <2> QED BY <1>2, <2>1 DEF SendJob
<1> HIDE DEF seq, len, hs
<1>7. h_seqno_' \in Int /\ (h_seqno_' = -1 \/ h_seqno_' >= highest_ack_) /\ pipe_' \in Int
  <2>1. /\ h_seqno_' = (IF seq = hs THEN hs + len ELSE hs)
        /\ pipe_' = (IF pipectrl_ THEN pipe_ + len ELSE 0)
    BY <1>2
  <2>2. len \in Nat
    BY <1>5, Consts
  <2>3. h_seqno_' \in Int /\ (h_seqno_' = -1 \/ h_seqno_' >= highest_ack_)
    BY ONLY <2>1, <2>2, <1>3, <1>4
  <2> QED BY <2>1, <2>2, <2>3, <1>4
<1> QED BY <1>2, <1>3, <1>4, <1>5, <1>6, <1>7, OutputInv

\* What is sent stays below what is handed over.
LEMMA StillBelow ==
    ASSUME NEW m \in Nat, NEW c \in Nat, NEW d \in Nat, d >= c, m <= c + 1
    PROVE  m <= d + 1
  OBVIOUS

\* Nothing is sent or received.
LEMMA QuietInv ==
    ASSUME FInv, UNCHANGED <<highest_ack_, maxseq_, sq_, rq_, data, acks, losses>>,
           AppOK', JobOK', job'.op # "ack", curseq_' \in Nat, curseq_' >= curseq_,
           t_seqno_' = t_seqno_ \/ t_seqno_' = highest_ack_,
           recover_' = recover_ \/ recover_' = maxseq_,
           h_seqno_' \in Int, h_seqno_' = -1 \/ h_seqno_' >= highest_ack_,
           pipe_' \in Int, dupacks_' \in Nat, prob_count_' \in 0 .. prob_cap_,
           TimerOK', UrgentCopyExists'
    PROVE  FInv'
<1>1. NumbersOK /\ ReceiverOK /\ ScoreOK /\ SacksTrue
  BY DEF FInv
<1>2. /\ highest_ack_ \in Nat /\ curseq_ \in Nat /\ maxseq_ \in Nat /\ t_seqno_ \in Nat
      /\ t_seqno_ >= highest_ack_ /\ t_seqno_ <= maxseq_ /\ maxseq_ <= curseq_ + 1
      /\ highest_ack_ <= maxseq_ /\ recover_ \in Int /\ recover_ <= maxseq_
  BY <1>1 DEF NumbersOK, SeqOrder, TypeOK, SeqNumbers, ReceiverOK, Waiting
<1>3. /\ t_seqno_' \in Nat /\ t_seqno_' >= highest_ack_ /\ t_seqno_' <= maxseq_
      /\ maxseq_ <= curseq_' + 1 /\ recover_' \in Int /\ recover_' <= maxseq_
  <2>1. t_seqno_' \in Nat /\ t_seqno_' >= highest_ack_ /\ t_seqno_' <= maxseq_
    BY <1>2
  <2>2. recover_' \in Int /\ recover_' <= maxseq_
    BY <1>2
  <2>3. maxseq_ <= curseq_' + 1
    BY <1>2, StillBelow
  <2> QED BY <2>1, <2>2, <2>3
<1>4. TypeOK'
  BY <1>1, <1>2, <1>3 DEF NumbersOK, SeqOrder, TypeOK, SeqNumbers
<1>5. SeqOrder'
  BY <1>1, <1>3, <1>4 DEF NumbersOK, SeqOrder
<1>6. NumbersOK'
  BY <1>1, <1>3, <1>5 DEF NumbersOK
<1>7. ReceiverOK' /\ ScoreOK' /\ Received' = Received
  BY <1>1, <1>2, QueuesKept
<1>8. SacksTrue'
  BY <1>1, <1>7, SacksKept
<1> QED BY <1>6, <1>7, <1>8 DEF FInv

\* send_much ends; it may report the end of the flow.
LEMMA SendEndInv == ASSUME FInv, SendEnd PROVE FInv'
<1> DEFINE report == Reports(job.force \/ send_allowed(nxt_tseq))
<1>1. /\ job.op = "send" /\ h_seqno_' = hole_seqno
      /\ signal_on_empty_' = (signal_on_empty_ /\ ~report)
      /\ done' = (IF report THEN done + 1 ELSE done)
      /\ urgent' = (IF report THEN {} ELSE urgent)
      /\ job' = Idle
      /\ UNCHANGED <<rtx_on_eof_, flow, chunk, curseq_, highest_ack_, t_seqno_,
                     maxseq_, recover_, sq_, dupacks_, pipectrl_, pipe_,
                     prob_count_, rtx_pending, rq_, data, acks, losses>>
  BY DEF SendEnd, netVars
<1>2. report => signal_on_empty_
  BY DEF Reports
<1> HIDE DEF report
<1>3. NumbersOK /\ ScoreOK /\ AppOK /\ TimerOK /\ UrgentCopyExists
  BY DEF FInv
<1>4. hole_seqno \in Int /\ (hole_seqno = -1 \/ hole_seqno >= highest_ack_)
  BY <1>3, NextSeq
<1>5. AppOK'
  <2>1. CASE report
    <3>1. flow > done /\ chunk = Len(Flows[flow]) /\ done = flow - 1 /\ flow \in Nat
      BY <1>2, <1>3, <2>1, Consts DEF AppOK
    <3>2. done' = flow' /\ done' \in Nat /\ ~signal_on_empty_'
      <4>1. done' = done + 1 /\ flow' = flow
        BY <1>1, <2>1
      <4>2. ~signal_on_empty_'
        BY <1>1, <2>1
      <4> QED BY <3>1, <4>1, <4>2
    <3>3. flow' = flow /\ chunk' = chunk /\ ~(flow' > done')
      BY <1>1, <3>1, <3>2
    <3> QED BY <1>3, <3>1, <3>2, <3>3 DEF AppOK
  <2>2. CASE ~report
    <3>1. signal_on_empty_' <=> signal_on_empty_
      BY <1>1, <2>2
    <3>2. UNCHANGED <<flow, chunk, done>>
      BY <1>1, <2>2
    <3> QED BY <1>3, <3>1, <3>2 DEF AppOK
  <2> QED BY <2>1, <2>2
<1>6. JobOK' /\ job'.op # "ack"
  BY <1>1 DEF JobOK, Idle
<1>7. TimerOK' /\ UrgentCopyExists'
  BY <1>1, <1>2, <1>3 DEF TimerOK, UrgentCopyExists
<1>8. curseq_ \in Nat /\ pipe_ \in Int /\ dupacks_ \in Nat /\ prob_count_ \in 0 .. prob_cap_
  BY <1>3 DEF NumbersOK, SeqOrder, TypeOK, SeqNumbers
<1> QED BY <1>1, <1>4, <1>5, <1>6, <1>7, <1>8, QuietInv

\* The application hands over nb bytes.
LEMMA SendMsgInv ==
    ASSUME FInv, NEW nb \in Nat \ {0}, NEW eof \in BOOLEAN, sendmsg(nb, eof), AppOK',
           signal_on_empty_ => ~eof
    PROVE  FInv'
<1> USE Consts
<1>1. NumbersOK /\ TimerOK /\ UrgentCopyExists
  BY DEF FInv
<1>2. /\ highest_ack_ \in Nat /\ curseq_ \in Nat /\ maxseq_ \in Nat /\ t_seqno_ \in Nat
      /\ highest_ack_ <= t_seqno_ /\ t_seqno_ <= maxseq_ /\ maxseq_ <= curseq_ + 1
      /\ h_seqno_ \in Int /\ (h_seqno_ = -1 \/ h_seqno_ >= highest_ack_)
      /\ pipe_ \in Int /\ dupacks_ \in Nat /\ prob_count_ \in 0 .. prob_cap_
  BY <1>1 DEF NumbersOK, SeqOrder, TypeOK, SeqNumbers
<1>3. /\ curseq_' = curseq_ + nb
      /\ signal_on_empty_' = (signal_on_empty_ \/ eof)
      /\ t_seqno_' = (IF eof /\ rtx_on_eof_ THEN highest_ack_ ELSE t_seqno_)
      /\ prob_count_' = (IF eof /\ reset_window_on_eof_ THEN 0 ELSE prob_count_)
      /\ rtx_pending' = (rtx_pending \/ (eof /\ reset_window_on_eof_))
      /\ SendMuch(rtx_on_eof_ /\ signal_on_empty_')
      /\ UNCHANGED <<rtx_on_eof_, done, urgent, highest_ack_, maxseq_, recover_,
                     h_seqno_, sq_, dupacks_, fastrecov_, pipectrl_, pipe_, rq_,
                     data, acks, losses>>
  BY DEF sendmsg, Rewind, netVars
<1>4. JobOK' /\ job'.op # "ack"
  <2>1. (rtx_on_eof_ /\ signal_on_empty_') \in BOOLEAN
    OBVIOUS
  <2>2. job' \in SendJob /\ job'.cwin >= maxseg_ /\ job'.op = "send"
    BY <1>3, <2>1, NewSendJob
  <2> QED BY <2>2 DEF JobOK
<1>5. curseq_' \in Nat /\ curseq_' >= curseq_ /\ highest_ack_ <= curseq_'
  BY <1>2, <1>3
<1>6. TimerOK'
  BY <1>1, <1>3, <1>5 DEF TimerOK
<1>7. UrgentCopyExists'
  <2>1. CASE eof /\ rtx_on_eof_
    <3>1. highest_ack_ .. (highest_ack_ - 1) = {}
      BY <1>2
    <3>2. highest_ack_' = highest_ack_ /\ t_seqno_' = highest_ack_
      BY <1>3, <2>1
    <3> QED BY <3>1, <3>2 DEF UrgentCopyExists
  <2>2. CASE ~(eof /\ rtx_on_eof_)
    BY <1>1, <1>3, <2>2 DEF UrgentCopyExists
  <2> QED BY <2>1, <2>2
<1>8. prob_count_' \in 0 .. prob_cap_
  BY <1>2, <1>3
<1> QED BY <1>2, <1>3, <1>4, <1>5, <1>6, <1>7, <1>8, QuietInv

\* A chunk of the flow in progress has been handed over.
LEMMA AppAdvances ==
    ASSUME flow' \in 0 .. Len(Flows), chunk' \in Nat, done' \in Nat,
           flow' > 0, chunk' \in 1 .. Len(Flows[flow']),
           done' = flow' - 1, done' # flow', flow' > done',
           signal_on_empty_' <=> chunk' = Len(Flows[flow'])
    PROVE  AppOK'
<1>1. (flow = 0 => chunk = 0)'
  OBVIOUS
<1>2. (flow > 0 => chunk \in 1 .. Len(Flows[flow]))'
  OBVIOUS
<1>3. (done = flow \/ done = flow - 1)'
  OBVIOUS
<1>4. (done = flow => flow = 0 \/ chunk = Len(Flows[flow]))'
  OBVIOUS
<1>5. (signal_on_empty_ <=> flow > done /\ chunk = Len(Flows[flow]))'
  OBVIOUS
<1> QED BY <1>1, <1>2, <1>3, <1>4, <1>5 DEF AppOK

\* The next flow starts.
LEMMA StartFlowInv == ASSUME FInv, StartFlow PROVE FInv'
<1> DEFINE nb == Flows[flow + 1][1]
           eof == Len(Flows[flow + 1]) = 1
<1>1. done = flow /\ flow < Len(Flows) /\ flow' = flow + 1 /\ chunk' = 1 /\ sendmsg(nb, eof)
  BY DEF StartFlow
<1>2. AppOK
  BY DEF FInv
<1>3. flow \in Nat /\ flow + 1 \in 1 .. Len(Flows) /\ ~signal_on_empty_
  BY <1>1, <1>2, Consts DEF AppOK
<1>4. nb \in Nat \ {0} /\ Len(Flows[flow + 1]) \in Nat /\ Len(Flows[flow + 1]) >= 1
  BY <1>3, Consts
<1>5. AppOK'
  <2>1. signal_on_empty_' = (signal_on_empty_ \/ eof) /\ done' = done
    BY <1>1 DEF sendmsg
  <2>2. flow' \in 0 .. Len(Flows) /\ chunk' \in Nat /\ done' \in Nat
    BY <1>1, <1>2, <1>3, <2>1, Consts DEF AppOK
  <2>3. flow' > 0 /\ chunk' \in 1 .. Len(Flows[flow'])
    BY <1>1, <1>3, <1>4
  <2>4. done' = flow' - 1 /\ done' # flow' /\ flow' > done'
    BY <1>1, <1>3, <2>1
  <2>5. signal_on_empty_' <=> chunk' = Len(Flows[flow'])
    BY <1>1, <1>3, <2>1
  <2> QED BY <2>2, <2>3, <2>4, <2>5, AppAdvances
<1>6. eof \in BOOLEAN
  OBVIOUS
<1> HIDE DEF nb, eof
<1> QED BY <1>1, <1>3, <1>4, <1>5, <1>6, SendMsgInv

\* The next chunk follows.
LEMMA NextChunkInv == ASSUME FInv, NextChunk PROVE FInv'
<1> DEFINE nb == Flows[flow][chunk + 1]
           eof == chunk + 1 = Len(Flows[flow])
<1>1. flow > 0 /\ chunk < Len(Flows[flow]) /\ chunk' = chunk + 1 /\ flow' = flow /\ sendmsg(nb, eof)
  BY DEF NextChunk
<1>2. AppOK
  BY DEF FInv
<1>3. flow \in 1 .. Len(Flows) /\ chunk \in Nat /\ chunk >= 1
  BY <1>1, <1>2, Consts DEF AppOK
<1>4. Len(Flows[flow]) \in Nat /\ chunk + 1 \in 1 .. Len(Flows[flow])
  BY <1>1, <1>3, Consts
<1>5. nb \in Nat \ {0}
  BY <1>3, <1>4, Consts
<1>6. ~signal_on_empty_ /\ done = flow - 1
  BY <1>1, <1>2, <1>3, <1>4 DEF AppOK
<1>7. AppOK'
  <2>1. signal_on_empty_' = (signal_on_empty_ \/ eof) /\ done' = done
    BY <1>1 DEF sendmsg
  <2>2. flow' > 0 /\ chunk' \in 1 .. Len(Flows[flow'])
    BY <1>1, <1>3, <1>4
  <2>3. done' = flow' - 1 /\ done' # flow' /\ flow' > done'
    BY <1>1, <1>3, <1>6, <2>1
  <2>4. signal_on_empty_' <=> chunk' = Len(Flows[flow'])
    BY <1>1, <1>6, <2>1
  <2>5. flow' \in 0 .. Len(Flows) /\ chunk' \in Nat /\ done' \in Nat
    BY <1>1, <1>2, <1>3, <2>1 DEF AppOK
  <2> QED BY <2>2, <2>3, <2>4, <2>5, AppAdvances
<1>8. eof \in BOOLEAN
  OBVIOUS
<1> HIDE DEF nb, eof
<1> QED BY <1>1, <1>5, <1>6, <1>7, <1>8, SendMsgInv

\* A data packet arrives: the receiver has what it had and what is new of the
\* packet, and the ACK reports some of it.
LEMMA RecvDataInv == ASSUME FInv, NEW m \in BagToSet(data), RecvData(m) PROVE FInv'
<1> DEFINE end == m.seq + m.len
           res == Accept(rq_, m.seq, end, FALSE)
<1> USE Consts
<1>1. NumbersOK /\ ReceiverOK /\ ScoreOK /\ SacksTrue /\ AppOK /\ JobOK /\ TimerOK /\ UrgentCopyExists
  BY DEF FInv
<1>2. /\ m.seq \in Nat /\ m.len \in 1 .. maxseg_ /\ end <= maxseq_
      /\ maxseq_ \in Nat /\ highest_ack_ \in Nat /\ highest_ack_ <= rq_.nxt
  BY <1>1 DEF NumbersOK, SeqOrder, TypeOK, SeqNumbers
<1>3. /\ job = Idle /\ data' = Take(data, m) /\ rq_' = res.rq
      /\ \/ /\ \E S \in gensack(rq_', max_sack_blocks_) :
                  acks' = Put(acks, [ackno |-> rq_'.nxt, sacks |-> S])
            /\ UNCHANGED losses
         \/ losses < MaxLoss /\ losses' = losses + 1 /\ UNCHANGED acks
      /\ UNCHANGED <<appVars, sndVars, job>>
  BY DEF RecvData
<1>4. /\ UNCHANGED <<flow, chunk, done, curseq_, signal_on_empty_, urgent, rtx_on_eof_>>
      /\ UNCHANGED <<highest_ack_, t_seqno_, maxseq_, recover_, h_seqno_, sq_,
                     dupacks_, pipectrl_, pipe_, prob_count_, rtx_pending, job>>
  BY <1>3 DEF appVars, sndVars
<1>5. Accepts(rq_, res, m.seq, end, FALSE, maxseq_)
  <2>1. end \in Nat /\ m.seq < end
    BY <1>2
  <2> HIDE DEF end
  <2> QED BY <1>1, <1>2, <2>1, AcceptAccepts DEF ReceiverOK
<1> HIDE DEF res
<1> DEFINE B == rq_.blocks
           C == rq_'.blocks
<1>6. /\ Waiting(rq_', maxseq_) /\ rq_.nxt <= rq_'.nxt
      /\ BytesOf(C) \cup (rq_.nxt .. (rq_'.nxt - 1)) =
            BytesOf(B) \cup {x \in m.seq .. (end - 1) : x >= rq_.nxt}
      /\ Filled(C)
  BY <1>1, <1>3, <1>5 DEF Accepts, ReceiverOK
<1>7. /\ rq_.nxt \in Nat /\ rq_'.nxt \in Nat /\ rq_'.nxt <= maxseq_ /\ rq_' \in QueueType
      /\ C \subseteq Block
  BY <1>1, <1>6 DEF ReceiverOK, Waiting, Good
<1>8. ReceiverOK'
  BY <1>4, <1>6 DEF ReceiverOK
<1>9. Received \subseteq Received'
  <2>1. BytesOf(B) \subseteq BytesOf(C) \cup (rq_.nxt .. (rq_'.nxt - 1))
    BY <1>6
  <2>2. 1 .. (rq_.nxt - 1) \subseteq 1 .. (rq_'.nxt - 1)
    BY <1>6, <1>7
  <2>3. \A x \in rq_.nxt .. (rq_'.nxt - 1) : x >= 1 => x \in 1 .. (rq_'.nxt - 1)
    BY <1>7
  <2>4. rq_.nxt >= 1
    BY <1>1, <1>2, <1>7 DEF NumbersOK
  <2>5. rq_.nxt .. (rq_'.nxt - 1) \subseteq 1 .. (rq_'.nxt - 1)
    BY <1>7, <2>4
  <2> HIDE DEF B, C
  <2> QED BY <2>1, <2>2, <2>5 DEF Received, B, C
<1>10. ScoreOK'
  BY <1>1, <1>4, <1>9 DEF ScoreOK, Counted
<1>11. \A r \in BagToSet(data)' : r \in BagToSet(data)
  BY <1>3, BagTake
<1>12. ASSUME NEW r \in BagToSet(acks)'
       PROVE  \/ r \in BagToSet(acks)
              \/ \E S \in SUBSET C : r = [ackno |-> rq_'.nxt, sacks |-> S]
  <2>1. CASE UNCHANGED acks
    BY <2>1
  <2>2. ASSUME NEW S \in gensack(rq_', max_sack_blocks_),
               acks' = Put(acks, [ackno |-> rq_'.nxt, sacks |-> S])
        PROVE  r \in BagToSet(acks) \/ \E T \in SUBSET C : r = [ackno |-> rq_'.nxt, sacks |-> T]
    <3>1. S \in SUBSET C
      BY DEF gensack
    <3>2. r \in BagToSet(acks) \/ r = [ackno |-> rq_'.nxt, sacks |-> S]
      BY <2>2, BagPut
    <3> QED BY <3>1, <3>2
  <2> QED BY <1>3, <2>1, <2>2
<1>13. losses' \in 0 .. MaxLoss
  BY <1>1, <1>3 DEF NumbersOK, SeqOrder, TypeOK
<1>14. ASSUME NEW r \in BagToSet(acks)'
       PROVE  r.ackno \in Nat /\ r.ackno <= rq_'.nxt /\ r.sacks \subseteq Block /\ Reported(r.sacks)'
  <2>1. CASE r \in BagToSet(acks)
    <3>1. r.ackno \in Nat /\ r.sacks \subseteq Block /\ r.ackno <= rq_.nxt /\ Reported(r.sacks)
      BY <2>1, <1>1 DEF NumbersOK, SeqOrder, TypeOK, SacksTrue
    <3>2. r.ackno <= rq_'.nxt
      BY <3>1, <1>6, <1>7
    <3> QED BY <3>1, <3>2, <1>9 DEF Reported
  <2>2. ASSUME NEW S \in SUBSET C, r = [ackno |-> rq_'.nxt, sacks |-> S]
        PROVE  r.ackno \in Nat /\ r.ackno <= rq_'.nxt /\ r.sacks \subseteq Block /\ Reported(r.sacks)'
    <3>1. r.ackno = rq_'.nxt /\ r.sacks = S
      BY <2>2
    <3>2. ASSUME NEW b \in S PROVE b \in Block /\ b.s < b.e /\ b.s .. (b.e - 1) \subseteq Received'
      <4>1. b \in C /\ b \in Block /\ b.s < b.e
        BY <1>6, <1>7 DEF Filled
      <4>2. b.s .. (b.e - 1) \subseteq BytesOf(C)
        BY <4>1 DEF BytesOf
      <4> QED BY <4>1, <4>2 DEF Received
    <3> QED BY <3>1, <3>2, <1>7 DEF Reported
  <2> QED BY <1>12, <2>1, <2>2
<1>15. NumbersOK'
  <2>1. TypeOK'
    BY <1>1, <1>4, <1>7, <1>11, <1>13, <1>14 DEF NumbersOK, SeqOrder, TypeOK, SeqNumbers
  <2>2. highest_ack_ <= rq_'.nxt
    BY <1>2, <1>6, <1>7
  <2>3. SeqOrder'
    BY <2>1, <2>2, <1>1, <1>4, <1>7, <1>11, <1>14 DEF NumbersOK, SeqOrder
  <2> QED BY <2>3, <1>1, <1>4 DEF NumbersOK
<1>16. SacksTrue' /\ JobOK'
  <2>1. job' = Idle /\ job'.op # "ack"
    BY <1>3, <1>4 DEF Idle
  <2> QED BY <2>1, <1>14 DEF SacksTrue, JobOK
<1>17. AppOK' /\ TimerOK' /\ UrgentCopyExists'
  BY <1>1, <1>4, AppKept DEF TimerOK, UrgentCopyExists
<1> QED BY <1>8, <1>10, <1>15, <1>16, <1>17 DEF FInv

\* An ACK arrives; its SACK blocks are looked at one by one.
LEMMA RecvAckInv == ASSUME FInv, NEW m \in BagToSet(acks), RecvAck(m) PROVE FInv'
<1>1. NumbersOK /\ ReceiverOK /\ ScoreOK /\ SacksTrue /\ AppOK /\ TimerOK /\ UrgentCopyExists
  BY DEF FInv
<1>2. /\ acks' = Take(acks, m) /\ prob_count_' = 0
      /\ job' = [op |-> "ack", ackno |-> m.ackno, sacks |-> m.sacks]
      /\ UNCHANGED <<flow, chunk, done, curseq_, signal_on_empty_, urgent, rtx_on_eof_,
                     highest_ack_, t_seqno_, maxseq_, recover_, h_seqno_,
                     sq_, dupacks_, pipectrl_, pipe_, rtx_pending, rq_, data, losses>>
  BY DEF RecvAck, appVars
<1>3. m.ackno \in Nat /\ m.ackno <= rq_.nxt /\ m.sacks \subseteq Block /\ Reported(m.sacks)
  BY <1>1 DEF NumbersOK, SeqOrder, TypeOK, SacksTrue
<1>4. \A r \in BagToSet(acks)' : r \in BagToSet(acks)
  BY <1>2, BagTake
<1>5. 0 \in 0 .. prob_cap_ /\ maxseq_ \in Nat
  BY <1>1, Consts DEF NumbersOK, SeqOrder, TypeOK, SeqNumbers
<1>6. NumbersOK'
  <2>1. TypeOK'
    BY <1>1, <1>2, <1>4, <1>5 DEF NumbersOK, SeqOrder, TypeOK, SeqNumbers
  <2>2. SeqOrder'
    BY <2>1, <1>1, <1>2, <1>4 DEF NumbersOK, SeqOrder
  <2> QED BY <2>2, <1>1, <1>2 DEF NumbersOK
<1>7. ReceiverOK' /\ ScoreOK' /\ Received' = Received
  BY <1>1, <1>2, <1>5, QueuesKept
<1>8. JobOK'
  <2>1. job' \in AckJob /\ job'.ackno = m.ackno
    BY <1>2, <1>3 DEF AckJob
  <2> QED BY <2>1, <1>2, <1>3 DEF JobOK
<1>9. SacksTrue'
  <2>1. job'.sacks = m.sacks
    BY <1>2
  <2> QED BY <2>1, <1>1, <1>3, <1>4, <1>7 DEF SacksTrue, Reported
<1>10. AppOK' /\ TimerOK' /\ UrgentCopyExists'
  BY <1>1, <1>2, AppKept DEF TimerOK, UrgentCopyExists
<1> QED BY <1>6, <1>7, <1>8, <1>9, <1>10 DEF FInv

\* process_sack enters a block into the scoreboard.
LEMMA ProcessSackInv ==
    ASSUME FInv, job.op = "ack", NEW b \in job.sacks, ProcessSack(b) PROVE FInv'
<1> DEFINE res == add(sq_, b.s, b.e, FALSE)
<1>1. NumbersOK /\ ReceiverOK /\ ScoreOK /\ SacksTrue /\ AppOK /\ JobOK /\ TimerOK /\ UrgentCopyExists
  BY DEF FInv
<1>2. /\ sq_' = res.rq /\ job' = [job EXCEPT !.sacks = @ \ {b}]
      /\ UNCHANGED <<flow, chunk, done, curseq_, signal_on_empty_, urgent, rtx_on_eof_,
                     highest_ack_, t_seqno_, maxseq_, recover_, h_seqno_, dupacks_,
                     pipectrl_, pipe_, prob_count_, rtx_pending, rq_, data, acks, losses>>
  BY DEF ProcessSack, appVars, netVars
<1>3. job \in AckJob /\ job.ackno <= rq_.nxt
  BY <1>1, AckingJob
<1>4. b \in Block /\ b.s < b.e /\ b.s .. (b.e - 1) \subseteq Received
  BY <1>1 DEF SacksTrue, Reported
<1>5. maxseq_ \in Nat /\ sq_ \in QueueType /\ rq_.nxt \in Nat /\ rq_.nxt <= maxseq_
      /\ b.s \in Nat /\ b.e \in Nat /\ b.s <= b.e
  BY <1>1, <1>4 DEF NumbersOK, SeqOrder, TypeOK, SeqNumbers, ReceiverOK, Waiting, Block
<1>6. b.e <= maxseq_
  <2>1. b.e - 1 \in Received
    <3>1. b.e - 1 \in b.s .. (b.e - 1)
      BY <1>4, <1>5
    <3> QED BY <3>1, <1>4
  <2>2. BytesOf(rq_.blocks) \subseteq 0 .. (maxseq_ - 1)
    BY <1>1, <1>5, BytesFinite DEF ReceiverOK, Waiting
  <2>3. b.e - 1 \in 1 .. (rq_.nxt - 1) \/ b.e - 1 \in 0 .. (maxseq_ - 1)
    BY <2>1, <2>2 DEF Received
  <2> QED BY <2>3, <1>5
<1>7. Adds(sq_, res, b.s, b.e, FALSE, maxseq_)
  BY <1>1, <1>4, <1>5, <1>6, AddAdds DEF ScoreOK
<1> HIDE DEF res
<1>8. /\ sq_' \in QueueType /\ Good(sq_'.blocks, maxseq_)
      /\ BytesOf(sq_'.blocks) = BytesOf(sq_.blocks) \cup (b.s .. (b.e - 1))
      /\ Counted(sq_) => Counted(sq_')
  BY <1>2, <1>7 DEF Adds
<1>9. ScoreOK' /\ Received' = Received
  <2>1. Received' = Received
    BY <1>2 DEF Received
  <2> QED BY <2>1, <1>1, <1>2, <1>4, <1>8 DEF ScoreOK, Counted
<1>10. ReceiverOK'
  BY <1>1, <1>2 DEF ReceiverOK
<1>11. NumbersOK'
  <2>1. TypeOK'
    BY <1>1, <1>2, <1>8 DEF NumbersOK, SeqOrder, TypeOK, SeqNumbers
  <2>2. SeqOrder'
    BY <2>1, <1>1, <1>2 DEF NumbersOK, SeqOrder
  <2> QED BY <2>2, <1>1, <1>2 DEF NumbersOK
<1>12. job' \in AckJob /\ job'.ackno = job.ackno /\ job'.sacks = job.sacks \ {b}
  BY <1>2, <1>3 DEF AckJob
<1>13. JobOK'
  BY <1>2, <1>3, <1>12 DEF JobOK
<1>14. SacksTrue'
  BY <1>1, <1>2, <1>9, <1>12 DEF SacksTrue, Reported
<1>15. AppOK' /\ TimerOK' /\ UrgentCopyExists'
  BY <1>1, <1>2, AppKept DEF TimerOK, UrgentCopyExists
<1> QED BY <1>9, <1>10, <1>11, <1>13, <1>14, <1>15 DEF FInv

\* An ACK that acknowledges nothing new leads to output at most.
LEMMA Step6Job == ASSUME Step6 PROVE JobOK' /\ job'.op # "ack"
<1>1. CASE SendMuch(FALSE)
  <2>1. job' \in SendJob /\ job'.cwin >= maxseg_ /\ job'.op = "send"
    BY <1>1, NewSendJob
  <2> QED BY <2>1 DEF JobOK
<1>2. CASE job' = Idle
  BY <1>2 DEF JobOK, Idle
<1> QED BY <1>1, <1>2 DEF Step6

\* An old ACK, or a duplicate one short of the threshold.
LEMMA QuietAckInv == ASSUME FInv, OldAck \/ DupAck PROVE FInv'
<1> USE Consts
<1>1. NumbersOK /\ AppOK /\ TimerOK /\ UrgentCopyExists
  BY DEF FInv
<1>2. /\ pipe_' = PipeAfterAck /\ Step6
      /\ UNCHANGED <<flow, chunk, done, curseq_, signal_on_empty_, urgent, rtx_on_eof_,
                     highest_ack_, t_seqno_, maxseq_, recover_, h_seqno_, sq_,
                     pipectrl_, prob_count_, rtx_pending, rq_, data, acks, losses>>
  BY DEF OldAck, DupAck, appVars, netVars
<1>3. /\ curseq_ \in Nat /\ dupacks_ \in Nat /\ prob_count_ \in 0 .. prob_cap_
      /\ h_seqno_ \in Int /\ (h_seqno_ = -1 \/ h_seqno_ >= highest_ack_) /\ pipe_ \in Int
  BY <1>1 DEF NumbersOK, SeqOrder, TypeOK, SeqNumbers
<1>4. dupacks_' \in Nat
  BY <1>3 DEF OldAck, DupAck
<1>5. pipe_' \in Int
  BY <1>2, <1>3 DEF PipeAfterAck
<1>6. AppOK' /\ TimerOK' /\ UrgentCopyExists'
  BY <1>1, <1>2, AppKept DEF TimerOK, UrgentCopyExists
<1>7. curseq_' \in Nat /\ curseq_' >= curseq_
  BY <1>2, <1>3
<1> QED BY <1>2, <1>3, <1>4, <1>5, <1>6, <1>7, Step6Job, QuietInv

\* The retransmission timer expires.
LEMMA TimeoutInv == ASSUME FInv, Timeout PROVE FInv'
<1> USE Consts
<1>1. NumbersOK /\ AppOK /\ TimerOK
  BY DEF FInv
<1>2. /\ prob_count_' = (IF prob_count_ < prob_cap_ THEN prob_count_ + 1 ELSE prob_count_)
      /\ h_seqno_' = (IF prob_cap_ # 0 THEN highest_ack_ ELSE h_seqno_)
      /\ recover_' = maxseq_ /\ t_seqno_' = highest_ack_ /\ dupacks_' = 0
      /\ SendMuch(TRUE)
      /\ UNCHANGED <<flow, chunk, done, curseq_, signal_on_empty_, urgent, rtx_on_eof_,
                     highest_ack_, maxseq_, sq_, pipectrl_, pipe_,
                     rtx_pending, rq_, data, acks, losses>>
  BY DEF Timeout, TimeoutSeq, appVars, netVars
<1>3. /\ curseq_ \in Nat /\ highest_ack_ \in Nat /\ prob_count_ \in 0 .. prob_cap_
      /\ h_seqno_ \in Int /\ (h_seqno_ = -1 \/ h_seqno_ >= highest_ack_) /\ pipe_ \in Int
  BY <1>1 DEF NumbersOK, SeqOrder, TypeOK, SeqNumbers
<1>4. h_seqno_' \in Int /\ (h_seqno_' = -1 \/ h_seqno_' >= highest_ack_)
  BY <1>2, <1>3
<1>5. prob_count_' \in 0 .. prob_cap_
  BY <1>2, <1>3
<1>6. JobOK' /\ job'.op # "ack"
  <2>1. job' \in SendJob /\ job'.cwin >= maxseg_ /\ job'.op = "send"
    BY <1>2, NewSendJob
  <2> QED BY <2>1 DEF JobOK
<1>7. AppOK' /\ TimerOK'
  BY <1>1, <1>2, AppKept DEF TimerOK
<1>8. UrgentCopyExists'
  <2>1. highest_ack_ .. (highest_ack_ - 1) = {}
    BY <1>3
  <2> QED BY <1>2, <2>1 DEF UrgentCopyExists
<1>9. curseq_' \in Nat /\ curseq_' >= curseq_ /\ 0 \in Nat
  BY <1>2, <1>3
<1> QED BY <1>2, <1>3, <1>4, <1>5, <1>6, <1>7, <1>8, <1>9, QuietInv

\* The duplicate ACK at the threshold: a fast retransmit, or none when one is
\* going on.
LEMMA FastRetransmitInv == ASSUME FInv, FastRetransmit PROVE FInv'
<1> USE Consts
<1> DEFINE len == IF buffered_bytes > maxseg_ THEN maxseg_ ELSE buffered_bytes
           pipe == maxseq_ - highest_ack_ - sq_.total
<1>1. NumbersOK /\ AppOK /\ JobOK /\ TimerOK /\ UrgentCopyExists
  BY DEF FInv
<1>2. /\ rtx_pending /\ dupacks_' = dupacks_ + 1
      /\ \/ /\ Output(highest_ack_, len)
            /\ recover_' = maxseq_ /\ pipe_' = pipe
            /\ h_seqno_' = highest_ack_ + len
            /\ SendMuch(FALSE)
         \/ /\ job' = Idle
            /\ pipe_' = IF pipectrl_ THEN pipe ELSE 0
            /\ UNCHANGED <<data, losses, maxseq_, rtx_pending, urgent,
                           recover_, pipectrl_, h_seqno_>>
      /\ UNCHANGED <<rtx_on_eof_, flow, chunk, done, curseq_, signal_on_empty_,
                     highest_ack_, t_seqno_, sq_, prob_count_, rq_, acks>>
  BY DEF FastRetransmit
<1>3. /\ curseq_ \in Nat /\ highest_ack_ \in Nat /\ maxseq_ \in Nat /\ t_seqno_ \in Nat
      /\ sq_.total \in Int /\ dupacks_ \in Nat /\ recover_ \in Int
      /\ h_seqno_ \in Int /\ (h_seqno_ = -1 \/ h_seqno_ >= highest_ack_)
      /\ prob_count_ \in 0 .. prob_cap_
  BY <1>1 DEF NumbersOK, SeqOrder, TypeOK, SeqNumbers, QueueType
<1>4. highest_ack_ <= curseq_
  BY <1>1, <1>2 DEF TimerOK
<1>5. len \in 1 .. maxseg_ /\ highest_ack_ + len <= curseq_ + 1
  BY <1>3, <1>4 DEF buffered_bytes
<1>6. pipe \in Int /\ dupacks_' \in Nat
  BY <1>2, <1>3
<1> HIDE DEF len, pipe
<1>7. CASE Output(highest_ack_, len) /\ recover_' = maxseq_ /\ pipe_' = pipe
           /\ h_seqno_' = highest_ack_ + len /\ SendMuch(FALSE)
  <2>1. job' \in SendJob /\ job'.cwin >= maxseg_
    BY <1>7, NewSendJob
  <2>2. h_seqno_' \in Int /\ h_seqno_' >= highest_ack_ /\ recover_' \in Int /\ recover_' <= maxseq_
    BY <1>3, <1>5, <1>7
  <2> QED BY <1>2, <1>3, <1>5, <1>6, <1>7, <2>1, <2>2, OutputInv
<1>8. CASE job' = Idle /\ pipe_' = (IF pipectrl_ THEN pipe ELSE 0)
           /\ UNCHANGED <<data, losses, maxseq_, rtx_pending, urgent, recover_, pipectrl_, h_seqno_>>
  <2>1. JobOK' /\ job'.op # "ack" /\ pipe_' \in Int
    BY <1>6, <1>8 DEF JobOK, Idle
  <2>2. AppOK' /\ TimerOK' /\ UrgentCopyExists'
    BY <1>1, <1>2, <1>8, AppKept DEF TimerOK, UrgentCopyExists
  <2>3. curseq_' \in Nat /\ curseq_' >= curseq_
    BY <1>2, <1>3
  <2> QED BY <1>2, <1>3, <1>6, <1>8, <2>1, <2>2, <2>3, QuietInv
<1> QED BY <1>2, <1>7, <1>8

\* Cutting the scoreboard takes bytes out of it and keeps it in order.
LEMMA CutOK ==
    ASSUME ScoreOK, sq_ \in QueueType, maxseq_ \in Nat, NEW ackno \in Nat
    PROVE  LET cut == CutScoreboard(ackno)
           IN  /\ cut \in QueueType /\ Good(cut.blocks, maxseq_) /\ Counted(cut)
               /\ BytesOf(cut.blocks) \subseteq BytesOf(sq_.blocks)
<1> DEFINE cond == sq_.blocks # {} /\ sq_.nxt < ackno
           moved == [sq_ EXCEPT !.nxt = ackno]
           res == clearto(moved, ackno)
<1>1. CutScoreboard(ackno) = IF cond THEN res.rq ELSE sq_
  BY DEF CutScoreboard
<1>2. moved \in QueueType /\ moved.blocks = sq_.blocks /\ moved.total = sq_.total
  BY DEF QueueType
<1> HIDE DEF moved
<1>3. Clears(moved, res, ackno, maxseq_)
  BY <1>2, CleartoClears DEF ScoreOK
<1> HIDE DEF res, cond
<1>4. /\ res.rq \in QueueType /\ Good(res.rq.blocks, maxseq_) /\ Counted(res.rq)
      /\ BytesOf(res.rq.blocks) \subseteq BytesOf(sq_.blocks)
  BY <1>2, <1>3 DEF Clears, Counted, ScoreOK
<1>5. Good(sq_.blocks, maxseq_) /\ Counted(sq_)
  BY DEF ScoreOK
<1>6. CASE cond
  BY <1>1, <1>4, <1>6
<1>7. CASE ~cond
  BY <1>1, <1>5, <1>7
<1> QED BY <1>6, <1>7

\* An ACK for new data.
LEMMA NewAckInv == ASSUME FInv, NewAck PROVE FInv'
<1> USE Consts
<1> DEFINE ackno == job.ackno
           partial == fastrecov_ /\ ackno < recover_
<1>1. NumbersOK /\ ReceiverOK /\ ScoreOK /\ SacksTrue /\ AppOK /\ JobOK /\ TimerOK /\ UrgentCopyExists
  BY DEF FInv
<1>2. /\ job.op = "ack" /\ ackno > highest_ack_
      /\ highest_ack_' = ackno /\ rtx_pending' = (ackno # maxseq_)
      /\ t_seqno_' = (IF t_seqno_ < ackno THEN ackno ELSE t_seqno_)
      /\ h_seqno_' = (IF h_seqno_ < ackno THEN ackno ELSE h_seqno_)
      /\ sq_' = CutScoreboard(ackno)
  BY DEF NewAck, AckReady, TimerAfterAck
<1>3. IF partial
      THEN /\ pipe_' = IF pipectrl_ THEN PipeAfterAck - maxseg_ ELSE 0
           /\ UNCHANGED <<dupacks_, fastrecov_, pipectrl_>>
      ELSE pipe_' = 0 /\ dupacks_' = 0 /\ fastrecov_' = FALSE /\ pipectrl_' = FALSE
  BY DEF NewAck
<1>4. SendMuch(TRUE) \/ SendMuch(FALSE) \/ job' = Idle
  BY DEF NewAck
<1>5. UNCHANGED <<flow, chunk, done, curseq_, signal_on_empty_, urgent, rtx_on_eof_,
                  maxseq_, recover_, prob_count_, rq_, data, acks, losses>>
  BY DEF NewAck, appVars, netVars
<1>6. /\ curseq_ \in Nat /\ highest_ack_ \in Nat /\ highest_ack_ >= 1 /\ maxseq_ \in Nat
      /\ t_seqno_ \in Nat /\ highest_ack_ <= t_seqno_ /\ t_seqno_ <= maxseq_
      /\ recover_ \in Int /\ recover_ <= maxseq_ /\ sq_ \in QueueType
      /\ h_seqno_ \in Int /\ pipe_ \in Int /\ dupacks_ \in Nat /\ maxseq_ <= curseq_ + 1
      /\ rq_.nxt \in Nat /\ rq_.nxt <= maxseq_
  BY <1>1 DEF NumbersOK, SeqOrder, TypeOK, SeqNumbers, ReceiverOK, Waiting
<1>7. ackno \in Nat /\ ackno <= rq_.nxt
  <2>1. job \in AckJob /\ job.ackno <= rq_.nxt
    BY <1>1, <1>2, AckingJob
  <2> QED BY <2>1 DEF AckJob
<1> HIDE DEF ackno
<1>8. /\ sq_' \in QueueType /\ Good(sq_'.blocks, maxseq_) /\ Counted(sq_')
      /\ BytesOf(sq_'.blocks) \subseteq BytesOf(sq_.blocks)
  BY <1>1, <1>2, <1>6, <1>7, CutOK
<1>9. ReceiverOK' /\ ScoreOK' /\ Received' = Received
  <2>1. Received' = Received
    BY <1>5 DEF Received
  <2> QED BY <2>1, <1>1, <1>5, <1>8 DEF ReceiverOK, ScoreOK, Counted
<1>10. /\ t_seqno_' \in Nat /\ ackno <= t_seqno_' /\ t_seqno_' <= maxseq_
       /\ h_seqno_' \in Int /\ h_seqno_' >= ackno /\ ackno >= 1
  BY <1>2, <1>6, <1>7
<1>11. pipe_' \in Int /\ dupacks_' \in Nat
  BY <1>3, <1>6 DEF PipeAfterAck
<1>12. NumbersOK'
  <2>1. TypeOK'
    BY <1>1, <1>2, <1>5, <1>7, <1>8, <1>10, <1>11 DEF NumbersOK, SeqOrder, TypeOK, SeqNumbers
  <2>2. SeqOrder'
    BY <2>1, <1>1, <1>2, <1>5, <1>7, <1>10 DEF NumbersOK, SeqOrder
  <2>3. highest_ack_' >= 1 /\ recover_' <= maxseq_' /\ h_seqno_' >= highest_ack_'
    BY <1>2, <1>5, <1>6, <1>10
  <2> QED BY <2>2, <2>3, <1>11 DEF NumbersOK
<1>13. JobOK' /\ job'.op # "ack"
  <2>1. CASE job' = Idle
    BY <2>1 DEF JobOK, Idle
  <2>2. CASE SendMuch(TRUE) \/ SendMuch(FALSE)
    <3>1. job' \in SendJob /\ job'.cwin >= maxseg_ /\ job'.op = "send"
      BY <2>2, NewSendJob
    <3> QED BY <3>1 DEF JobOK
  <2> QED BY <1>4, <2>1, <2>2
<1>14. SacksTrue'
  BY <1>1, <1>5, <1>9, <1>13, SacksKept
<1>15. TimerOK'
  <2>1. CASE ackno = maxseq_
    <3>1. ~partial
      BY <2>1, <1>6, <1>7
    <3>2. ~rtx_pending' /\ ~pipectrl_'
      BY <2>1, <3>1, <1>2, <1>3
    <3> QED BY <2>1, <3>2, <1>2, <1>5 DEF TimerOK
  <2>2. CASE ackno # maxseq_
    <3>1. ackno <= curseq_
      BY <2>2, <1>6, <1>7
    <3> QED BY <2>2, <3>1, <1>2, <1>5 DEF TimerOK
  <2> QED BY <2>1, <2>2
<1>16. UrgentCopyExists'
  <2> SUFFICES ASSUME rtx_on_eof_, signal_on_empty_, NEW x \in ackno .. (t_seqno_' - 1)
               PROVE  x \in urgent
    BY <1>2, <1>5 DEF UrgentCopyExists
  <2>1. x \in highest_ack_ .. (t_seqno_ - 1)
    BY <1>2, <1>6, <1>7
  <2> QED BY <2>1, <1>1 DEF UrgentCopyExists
<1>17. AppOK'
  BY <1>1, <1>5, AppKept
<1> QED BY <1>9, <1>12, <1>13, <1>14, <1>15, <1>16, <1>17 DEF FInv

-----------------------------------------------------------------------------
(* The invariant *)

\* The connection is established and idle.
LEMMA FlowInit == Init => FInv
<1> SUFFICES ASSUME Init PROVE FInv
  OBVIOUS
<1> USE Consts
<1>1. /\ flow = 0 /\ chunk = 0 /\ done = 0 /\ curseq_ = 0 /\ signal_on_empty_ = FALSE
      /\ highest_ack_ = 1 /\ t_seqno_ = 1 /\ maxseq_ = 1 /\ recover_ = 0 /\ h_seqno_ = -1
      /\ sq_ = EmptyRq(-1) /\ rq_ = EmptyRq(1) /\ dupacks_ = 0 /\ pipe_ = 0 /\ prob_count_ = 0
      /\ pipectrl_ = FALSE /\ rtx_pending = FALSE /\ job = Idle
      /\ data = EmptyBag /\ acks = EmptyBag /\ losses = 0
  BY DEF Init
<1>2. BagToSet(data) = {} /\ BagToSet(acks) = {}
  BY <1>1 DEF BagToSet, EmptyBag, SetToBag
<1>3. /\ rq_ \in QueueType /\ rq_.blocks = {} /\ rq_.nxt = 1 /\ rq_.total = 0
      /\ sq_ \in QueueType /\ sq_.blocks = {} /\ sq_.nxt = -1 /\ sq_.total = 0
  BY <1>1 DEF EmptyRq, QueueType
<1>4. BytesOf({}) = {} /\ Cardinality({}) = 0
  BY FS_EmptySet DEF BytesOf
<1>5. TypeOK
  BY <1>1, <1>2, <1>3 DEF TypeOK, SeqNumbers
<1>6. NumbersOK
  BY <1>1, <1>2, <1>3, <1>5 DEF NumbersOK, SeqOrder
<1>7. ReceiverOK /\ ScoreOK
  <2>1. Good({}, 1)
    BY DEF Good, Separated
  <2>2. Counted(sq_)
    BY <1>3, <1>4 DEF Counted
  <2>3. 1 \in Nat /\ 1 <= 1
    OBVIOUS
  <2>4. Filled({})
    BY DEF Filled
  <2> QED BY <1>1, <1>3, <1>4, <2>1, <2>2, <2>3, <2>4 DEF ReceiverOK, ScoreOK, Waiting
<1>8. SacksTrue /\ JobOK
  BY <1>1, <1>2 DEF SacksTrue, JobOK, Idle
<1>9. AppOK
  BY <1>1 DEF AppOK
<1>10. TimerOK /\ UrgentCopyExists
  BY <1>1 DEF TimerOK, UrgentCopyExists
<1> QED BY <1>6, <1>7, <1>8, <1>9, <1>10 DEF FInv

\* Every step keeps the invariant.
LEMMA FlowNext == FInv /\ [Next]_vars => FInv'
<1> SUFFICES ASSUME FInv, [Next]_vars PROVE FInv'
  OBVIOUS
<1>1. CASE StartFlow
  BY <1>1, StartFlowInv
<1>2. CASE NextChunk
  BY <1>2, NextChunkInv
<1>3. CASE \E m \in BagToSet(data) : RecvData(m)
  BY <1>3, RecvDataInv
<1>4. CASE \E m \in BagToSet(acks) : RecvAck(m)
  BY <1>4, RecvAckInv
<1>5. CASE SenderStep
  <2>1. CASE SendPacket
    BY <2>1, SendPacketInv
  <2>2. CASE SendEnd
    BY <2>2, SendEndInv
  <2>3. CASE OldAck \/ DupAck
    BY <2>3, QuietAckInv
  <2>4. CASE FastRetransmit
    BY <2>4, FastRetransmitInv
  <2>5. CASE NewAck
    BY <2>5, NewAckInv
  <2>6. CASE job.op = "ack" /\ \E b \in job.sacks : ProcessSack(b)
    BY <2>6, ProcessSackInv
  <2> QED BY <1>5, <2>1, <2>2, <2>3, <2>4, <2>5, <2>6 DEF SenderStep
<1>6. CASE Timeout
  BY <1>6, TimeoutInv
<1>7. CASE UNCHANGED vars
  <2>1. UNCHANGED <<flow, chunk, done, curseq_, signal_on_empty_, urgent, rtx_on_eof_, highest_ack_,
                    t_seqno_, maxseq_, recover_, h_seqno_, sq_, dupacks_, fastrecov_, pipectrl_,
                    pipe_, prob_count_, rtx_pending, job, rq_, data, acks, losses>>
    BY <1>7 DEF vars, appVars, sndVars, netVars
  <2>2. AppOK' /\ JobOK' /\ TimerOK' /\ UrgentCopyExists'
    BY <2>1, AppKept DEF FInv, JobOK, TimerOK, UrgentCopyExists
  <2>3. TypeOK' /\ SeqOrder' /\ NumbersOK'
    BY <2>1 DEF FInv, NumbersOK, SeqOrder, TypeOK, SeqNumbers
  <2>4. ReceiverOK' /\ ScoreOK' /\ Received' = Received
    BY <2>1 DEF FInv, ReceiverOK, ScoreOK, Received, Counted
  <2>5. SacksTrue'
    BY <2>1, <2>4, SacksKept DEF FInv
  <2> QED BY <2>2, <2>3, <2>4, <2>5 DEF FInv
<1> QED BY <1>1, <1>2, <1>3, <1>4, <1>5, <1>6, <1>7 DEF Next

\* FInv is an invariant.
THEOREM FlowInvariant == Spec => []FInv
  BY FlowInit, FlowNext, PTL DEF Spec

\* Acknowledged <= received in order <= sent <= handed over, whatever was lost,
\* reordered or retransmitted: recv never sees an ACK for more than was sent.
THEOREM NumbersInOrder == Spec => []SeqOrder
<1>1. FInv => SeqOrder
  BY DEF FInv, NumbersOK
<1> QED BY <1>1, FlowInvariant, PTL

\* The scoreboard sq_, filled by process_sack from ACKs in any order and cut by
\* newer ones, holds only bytes that the receiver has, and total_ counts them.
THEOREM ScoreboardIsTrue == Spec => []ScoreboardTrue
<1>1. FInv => ScoreboardTrue
  BY DEF FInv, ScoreOK, ScoreboardTrue, Good, Counted
<1> QED BY <1>1, FlowInvariant, PTL

\* Once sendmsg has seen DAT_EOF with rtx_on_eof_, every byte below t_seqno_ that
\* is not acknowledged has been sent again with the final priority.
THEOREM UrgentCopies == Spec => []UrgentCopyExists
<1>1. FInv => UrgentCopyExists
  BY DEF FInv
<1> QED BY <1>1, FlowInvariant, PTL

-----------------------------------------------------------------------------
(* The sender never waits without a timer *)

\* Without a timer everything sent is acknowledged, so send_much looks at the
\* first byte that waits, and neither the window nor Nagle holds it back.
LEMMA MustSend ==
    ASSUME FInv, SendsSoon, ~rtx_pending, highest_ack_ <= curseq_ PROVE ~SendEnd
<1> USE Consts
<1>1. NumbersOK /\ JobOK /\ TimerOK
  BY DEF FInv
<1>2. /\ job.op = "send" /\ (job.force \/ highest_ack_ < curseq_)
      /\ highest_ack_ = maxseq_ /\ ~pipectrl_
  BY <1>1 DEF SendsSoon, TimerOK
<1>3. /\ highest_ack_ \in Nat /\ curseq_ \in Nat /\ recover_ \in Int /\ recover_ <= highest_ack_
      /\ t_seqno_ = highest_ack_
  BY <1>1, <1>2 DEF NumbersOK, SeqOrder, TypeOK, SeqNumbers
<1>4. nxt_tseq = highest_ack_
  <2>1. ~FillHole
    BY <1>3 DEF FillHole
  <2> QED BY <1>3, <2>1 DEF nxt_tseq
<1>5. win \in Nat /\ win >= 1 /\ (win < maxseg_ => win = 1 /\ prob_mode_)
  BY <1>1, <1>2, WindowOpen
<1> HIDE DEF FInv
<1>6. job.force \/ send_allowed(highest_ack_)
  <2>1. highest_ack_ < highest_ack_ + win
    BY <1>3, <1>5
  <2> QED BY <1>2, <2>1 DEF send_allowed
<1>7. datalen(highest_ack_, pipectrl_) # 0
  <2> DEFINE b == curseq_ - highest_ack_ + 1
             limit == IF pipectrl_ \/ b < win THEN b ELSE win
             rest == limit - (highest_ack_ - highest_ack_)
             len == IF rest > maxseg_ THEN maxseg_ ELSE rest
             nagle == /\ len # maxseg_
                      /\ highest_ack_ + len <= curseq_
                      /\ highest_ack_ >= maxseq_
                      /\ ~(len = 1 /\ prob_mode_)
  <2>1. datalen(highest_ack_, pipectrl_) = IF len <= 0 \/ nagle THEN 0 ELSE len
    BY DEF datalen, buffered_bytes
  <2>2. b \in Nat /\ b >= 1 /\ limit \in Nat /\ limit >= 1 /\ (limit = b \/ limit = win)
    BY <1>2, <1>3, <1>5
  <2> HIDE DEF limit
  <2>3. len \in Nat /\ len >= 1 /\ (len = maxseg_ \/ (len = limit /\ len < maxseg_))
    BY <1>3, <2>2
  <2> HIDE DEF len
  <2>4. ~nagle
    <3>1. CASE len = maxseg_
      BY <3>1
    <3>2. CASE len = limit /\ len < maxseg_ /\ limit = b
      BY <3>2, <1>3
    <3>3. CASE len = limit /\ len < maxseg_ /\ limit = win
      BY <3>3, <1>5
    <3> QED BY <2>2, <2>3, <3>1, <3>2, <3>3
  <2> HIDE DEF nagle
  <2> QED BY <2>1, <2>3, <2>4
<1> QED BY <1>4, <1>6, <1>7 DEF SendEnd

\* A chunk of two bytes or more gets the sender to send.
LEMMA ChunkSends ==
    ASSUME FInv, SendsSoon, job = Idle, NEW nb \in Nat, nb >= 2, NEW eof, sendmsg(nb, eof)
    PROVE  SendsSoon'
<1>1. NumbersOK
  BY DEF FInv
<1>2. highest_ack_ \in Nat /\ curseq_ \in Nat /\ highest_ack_ <= curseq_ + 1
  BY <1>1 DEF NumbersOK, SeqOrder, TypeOK, SeqNumbers, FInv, ReceiverOK, Waiting
<1>3. /\ curseq_' = curseq_ + nb /\ highest_ack_' = highest_ack_
      /\ SendMuch(rtx_on_eof_ /\ signal_on_empty_')
  BY DEF sendmsg
<1>4. highest_ack_' < curseq_'
  BY <1>2, <1>3
<1>5. job'.op = "send"
  <2>1. (rtx_on_eof_ /\ signal_on_empty_') \in BOOLEAN
    OBVIOUS
  <2> QED BY <1>3, <2>1, NewSendJob
<1> QED BY <1>4, <1>5 DEF SendsSoon

\* Every step keeps SendsSoon.
LEMMA SendsSoonNext == TwoBytes /\ FInv /\ SendsSoon /\ [Next]_vars => SendsSoon'
<1> SUFFICES ASSUME TwoBytes, FInv, SendsSoon, [Next]_vars PROVE SendsSoon'
  OBVIOUS
<1> USE Consts
<1>0. /\ job.op # "send" => rtx_pending \/ ~(highest_ack_ <= curseq_)
      /\ Idle.op # "send"
  BY DEF SendsSoon, Idle
<1>a. AppOK
  BY DEF FInv
<1>1. CASE StartFlow
  <2>1. job = Idle /\ flow < Len(Flows) /\ sendmsg(Flows[flow + 1][1], Len(Flows[flow + 1]) = 1)
    BY <1>1 DEF StartFlow
  <2>2. flow + 1 \in 1 .. Len(Flows) /\ 1 \in 1 .. Len(Flows[flow + 1])
    BY <1>a, <2>1 DEF AppOK
  <2>3. Flows[flow + 1][1] \in Nat /\ Flows[flow + 1][1] >= 2
    BY <2>2 DEF TwoBytes
  <2> QED BY <2>1, <2>3, ChunkSends
<1>2. CASE NextChunk
  <2>1. /\ job = Idle /\ flow > 0 /\ chunk < Len(Flows[flow])
        /\ sendmsg(Flows[flow][chunk + 1], chunk + 1 = Len(Flows[flow]))
    BY <1>2 DEF NextChunk
  <2>2. flow \in 1 .. Len(Flows) /\ chunk + 1 \in 1 .. Len(Flows[flow])
    BY <1>a, <2>1 DEF AppOK
  <2>3. Flows[flow][chunk + 1] \in Nat /\ Flows[flow][chunk + 1] >= 2
    BY <2>2 DEF TwoBytes
  <2> QED BY <2>1, <2>3, ChunkSends
<1>3. CASE \E m \in BagToSet(data) : RecvData(m)
  <2>1. UNCHANGED <<rtx_pending, highest_ack_, curseq_, job>>
    BY <1>3 DEF RecvData, appVars, sndVars
  <2> QED BY <2>1 DEF SendsSoon
<1>4. CASE \E m \in BagToSet(acks) : RecvAck(m)
  <2>1. job = Idle /\ UNCHANGED <<rtx_pending, highest_ack_, curseq_>>
    BY <1>4 DEF RecvAck, appVars
  <2> QED BY <2>1, <1>0 DEF SendsSoon
<1>5. CASE SenderStep
  <2>1. CASE SendPacket
    <3>1. rtx_pending' = TRUE
      BY <2>1 DEF SendPacket, Output
    <3> QED BY <3>1 DEF SendsSoon
  <2>2. CASE SendEnd
    <3>1. UNCHANGED <<rtx_pending, highest_ack_, curseq_>>
      BY <2>2 DEF SendEnd
    <3> QED BY <2>2, <3>1, MustSend DEF SendsSoon
  <2>3. CASE OldAck \/ DupAck
    <3>1. job.op = "ack" /\ UNCHANGED <<rtx_pending, highest_ack_, curseq_>>
      BY <2>3 DEF OldAck, DupAck, AckReady, appVars
    <3> QED BY <3>1, <1>0 DEF SendsSoon
  <2>4. CASE FastRetransmit
    <3>1. rtx_pending /\ (rtx_pending' = TRUE \/ rtx_pending' = rtx_pending)
      BY <2>4 DEF FastRetransmit, Output
    <3> QED BY <3>1 DEF SendsSoon
  <2>5. CASE NewAck
    <3>1. rtx_pending' = (job.ackno # maxseq_) /\ (job.ackno = maxseq_ => SendMuch(TRUE))
      BY <2>5 DEF NewAck, TimerAfterAck
    <3>2. CASE job.ackno = maxseq_
      <4>1. job'.op = "send" /\ job'.force = TRUE
        BY <3>1, <3>2, NewSendJob
      <4> QED BY <4>1 DEF SendsSoon
    <3>3. CASE job.ackno # maxseq_
      BY <3>1, <3>3 DEF SendsSoon
    <3> QED BY <3>2, <3>3
  <2>6. CASE job.op = "ack" /\ \E b \in job.sacks : ProcessSack(b)
    <3>1. UNCHANGED <<rtx_pending, highest_ack_, curseq_>>
      BY <2>6 DEF ProcessSack, appVars
    <3> QED BY <2>6, <3>1, <1>0 DEF SendsSoon
  <2> QED BY <1>5, <2>1, <2>2, <2>3, <2>4, <2>5, <2>6 DEF SenderStep
<1>6. CASE Timeout
  <2>1. rtx_pending /\ rtx_pending' = rtx_pending
    BY <1>6 DEF Timeout
  <2> QED BY <2>1 DEF SendsSoon
<1>7. CASE UNCHANGED vars
  <2>1. UNCHANGED <<rtx_pending, highest_ack_, curseq_, job>>
    BY <1>7 DEF vars, appVars, sndVars
  <2> QED BY <2>1 DEF SendsSoon
<1> QED BY <1>1, <1>2, <1>3, <1>4, <1>5, <1>6, <1>7 DEF Next

\* If no chunk has a single byte, the retransmission timer runs whenever no
\* handler does and something is not acknowledged.
THEOREM TimerCovers == TwoBytes => (Spec => []NeverStuck)
<1> SUFFICES ASSUME TwoBytes PROVE Spec => []NeverStuck
  OBVIOUS
<1>1. Init => SendsSoon
  BY DEF Init, SendsSoon
<1>2. FInv /\ SendsSoon /\ [Next]_vars => SendsSoon'
  BY SendsSoonNext
<1>3. SendsSoon => NeverStuck
  BY DEF SendsSoon, NeverStuck, Idle
<1> QED BY <1>1, <1>2, <1>3, FlowInvariant, PTL DEF Spec

-----------------------------------------------------------------------------
(* The connection implements module Transfer *)

\* Every step is a step of the abstract connection or changes nothing of it.
LEMMA StepRefines == FInv /\ FInv' /\ [Next]_vars => [Abstract!Next]_(Abstract!vars)
<1> SUFFICES ASSUME FInv, FInv', [Next]_vars
             PROVE  Abstract!Next \/ UNCHANGED <<flow, chunk, curseq_, rq_.nxt - 1, done>>
  BY DEF Abstract!vars
<1> USE Consts
<1>0. AppOK /\ NumbersOK /\ ReceiverOK /\ NumbersOK' /\ ReceiverOK'
  BY DEF FInv
<1>1. CASE StartFlow
  <2>1. Abstract!Start
    BY <1>1 DEF StartFlow, sendmsg, Abstract!Start
  <2> QED BY <2>1 DEF Abstract!Next
<1>2. CASE NextChunk
  <2>1. flow > done
    BY <1>0, <1>2 DEF NextChunk, AppOK
  <2>2. Abstract!Chunk
    BY <1>2, <2>1 DEF NextChunk, sendmsg, Abstract!Chunk
  <2> QED BY <2>2 DEF Abstract!Next
<1>3. CASE \E m \in BagToSet(data) : RecvData(m)
  <2>1. PICK m \in BagToSet(data) : RecvData(m)
    BY <1>3
  <2>2. UNCHANGED <<flow, chunk, curseq_, done, maxseq_>>
    BY <2>1 DEF RecvData, appVars, sndVars
  <2>3. rq_.nxt <= rq_'.nxt
    <3> DEFINE end == m.seq + m.len
               res == Accept(rq_, m.seq, end, FALSE)
    <3>1. m.seq \in Nat /\ m.len \in 1 .. maxseg_ /\ end <= maxseq_ /\ maxseq_ \in Nat
      BY <1>0 DEF NumbersOK, SeqOrder, TypeOK, SeqNumbers
    <3>2. end \in Nat /\ m.seq < end
      BY <3>1
    <3> HIDE DEF end
    <3>3. Accepts(rq_, res, m.seq, end, FALSE, maxseq_)
      BY <1>0, <3>1, <3>2, AcceptAccepts DEF ReceiverOK
    <3>4. rq_' = res.rq
      BY <2>1 DEF RecvData, end
    <3> QED BY <3>3, <3>4 DEF Accepts
  <2>4. /\ rq_.nxt \in Nat /\ rq_'.nxt \in Nat /\ rq_.nxt >= 1 /\ curseq_ \in Nat
        /\ rq_'.nxt <= curseq_ + 1
    <3>1. rq_'.nxt \in Nat /\ rq_'.nxt <= maxseq_' /\ maxseq_' = maxseq_ /\ rq_.nxt \in Nat
      BY <1>0, <2>2 DEF ReceiverOK, Waiting
    <3>2. /\ maxseq_ \in Nat /\ curseq_ \in Nat /\ maxseq_ <= curseq_ + 1
          /\ highest_ack_ \in Nat /\ highest_ack_ >= 1 /\ highest_ack_ <= rq_.nxt
      BY <1>0 DEF NumbersOK, SeqOrder, TypeOK, SeqNumbers
    <3> QED BY <3>1, <3>2
  <2>5. CASE rq_'.nxt = rq_.nxt
    BY <2>2, <2>5
  <2>6. CASE rq_'.nxt > rq_.nxt
    <3>1. rq_'.nxt - 1 > rq_.nxt - 1 /\ rq_'.nxt - 1 <= curseq_ /\ rq_'.nxt - 1 \in Nat
      BY <2>4, <2>6
    <3>2. Abstract!Deliver
      BY <2>2, <3>1 DEF Abstract!Deliver
    <3> QED BY <3>2 DEF Abstract!Next
  <2> QED BY <2>3, <2>4, <2>5, <2>6
<1>4. CASE \E m \in BagToSet(acks) : RecvAck(m)
  BY <1>4 DEF RecvAck, appVars
<1>5. CASE SenderStep
  <2>1. CASE SendPacket
    BY <2>1 DEF SendPacket
  <2>2. CASE SendEnd
    <3>1. UNCHANGED <<flow, chunk, curseq_, rq_>>
      BY <2>2 DEF SendEnd
    <3> DEFINE report == Reports(job.force \/ send_allowed(nxt_tseq))
    <3>2. done' = IF report THEN done + 1 ELSE done
      BY <2>2 DEF SendEnd
    <3>3. report => signal_on_empty_ /\ curseq_ - highest_ack_ + 1 = 0
      BY DEF Reports, buffered_bytes
    <3> HIDE DEF report
    <3>4. CASE ~report
      BY <3>1, <3>2, <3>4
    <3>5. CASE report
      <4>1. flow > done /\ chunk = Len(Flows[flow]) /\ done = flow - 1 /\ flow \in Nat
        BY <1>0, <3>3, <3>5 DEF AppOK
      <4>2. /\ highest_ack_ \in Nat /\ curseq_ \in Nat /\ maxseq_ \in Nat /\ rq_.nxt \in Nat
            /\ highest_ack_ <= rq_.nxt /\ rq_.nxt <= maxseq_ /\ maxseq_ <= curseq_ + 1
        BY <1>0 DEF NumbersOK, SeqOrder, TypeOK, SeqNumbers, ReceiverOK, Waiting
      <4>3. rq_.nxt - 1 = curseq_
        BY <4>2, <3>3, <3>5
      <4>4. done' = flow
        BY <4>1, <3>2, <3>5
      <4>5. Abstract!Report
        BY <3>1, <4>1, <4>3, <4>4 DEF Abstract!Report
      <4> QED BY <4>5 DEF Abstract!Next
    <3> QED BY <3>4, <3>5
  <2>3. CASE OldAck \/ DupAck
    BY <2>3 DEF OldAck, DupAck, appVars
  <2>4. CASE FastRetransmit
    BY <2>4 DEF FastRetransmit
  <2>5. CASE NewAck
    BY <2>5 DEF NewAck, appVars
  <2>6. CASE job.op = "ack" /\ \E b \in job.sacks : ProcessSack(b)
    BY <2>6 DEF ProcessSack, appVars
  <2> QED BY <1>5, <2>1, <2>2, <2>3, <2>4, <2>5, <2>6 DEF SenderStep
<1>6. CASE Timeout
  BY <1>6 DEF Timeout, appVars
<1>7. CASE UNCHANGED vars
  BY <1>7 DEF vars, appVars
<1> QED BY <1>1, <1>2, <1>3, <1>4, <1>5, <1>6, <1>7 DEF Next

\* Bytes come out once, in order and only if they were handed over, and
\* done_data reports a flow once, after DAT_EOF and when all of it has come out.
THEOREM FlowRefines == Spec => ImplementsTransfer
<1>1. Init => Abstract!Init
  BY DEF Init, Abstract!Init, EmptyRq
<1> QED BY <1>1, StepRefines, FlowInvariant, PTL DEF Spec, ImplementsTransfer, Abstract!Spec
=============================================================================
