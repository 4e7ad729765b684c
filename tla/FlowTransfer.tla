---------------------------- MODULE FlowTransfer ----------------------------
(***************************************************************************)
(* Flows over an established connection of MinTcpAgent (tcp-full.cc): the   *)
(* application hands over a flow in chunks (sendmsg with DAT_NEW, no flag,  *)
(* DAT_EOF), the sender transmits and retransmits them with the help of the *)
(* SACK scoreboard sq_ and the retransmission timer, the receiver answers   *)
(* every data packet with one ACK, and the flow is reported done            *)
(* (done_data) when the buffer has run empty after DAT_EOF.                 *)
(*                                                                         *)
(* The simulator is single-threaded: a handler runs to its end before the   *)
(* next event.  The loops of a handler (the SACK blocks of an ACK, the      *)
(* packets of a send_much) are steps of their own here; `job' holds what    *)
(* the running handler has left to do and no other event happens meanwhile. *)
(*                                                                         *)
(* Packets are sprayed over several paths, so data and ACKs arrive in any   *)
(* order; they may be lost, never duplicated.  The congestion window is     *)
(* abstracted: each send_much finds some window between one segment and     *)
(* MaxWin segments, whatever the congestion control made of it.             *)
(***************************************************************************)
EXTENDS ReassemblyQueue, Sequences, Bags

CONSTANTS
    Flows,               \* for each flow, the sizes of its chunks in bytes
    maxseg_,
    RtxOnEof,            \* the values the scripts give to rtx_on_eof_
    reset_window_on_eof_,
    prob_cap_,           \* timeouts before probe mode; 0: never
    tcprexmtthresh_,     \* duplicate ACKs before a fast retransmit; 0: never
    max_sack_blocks_,
    MaxWin,              \* bound: the largest window, in segments
    MaxLoss,             \* bound: how many packets are lost
    MaxSpurious          \* bound: packets in flight when the timer expires

ASSUME FlowAssumption ==
    /\ Flows \in Seq(Seq(Nat \ {0}))
    /\ \A i \in 1 .. Len(Flows) : Flows[i] # <<>>
    /\ {maxseg_, max_sack_blocks_, MaxWin} \subseteq Nat \ {0}
    /\ {prob_cap_, tcprexmtthresh_, MaxLoss, MaxSpurious} \subseteq Nat
    /\ RtxOnEof \subseteq BOOLEAN /\ reset_window_on_eof_ \in BOOLEAN

VARIABLES
    rtx_on_eof_,         \* the end of a flow has it retransmitted
    flow, chunk,         \* the flow in progress and its last chunk sent
    done,                \* how many flows were reported done
    curseq_,             \* the last byte the application has handed over
    signal_on_empty_,    \* the end of the flow has been announced
    last_eof_,           \* last_eof_time_ is set
    highest_ack_, t_seqno_, maxseq_, recover_, h_seqno_,
    sq_,                 \* the scoreboard; sq_.nxt is sack_min_
    dupacks_, fastrecov_, pipectrl_, pipe_,
    prob_count_,         \* consecutive timeouts, up to prob_cap_
    rtx_pending,         \* the retransmission timer is running
    job,                 \* what the running handler has left to do
    rq_,                 \* the receiver; rq_.nxt is rcv_nxt_
    data, acks,          \* the packets in flight
    losses,              \* how many packets were lost
    urgent               \* history: bytes sent since the end was announced

appVars == <<flow, chunk, done, curseq_, signal_on_empty_, last_eof_, urgent,
             rtx_on_eof_>>
sndVars == <<highest_ack_, t_seqno_, maxseq_, recover_, h_seqno_, sq_,
             dupacks_, fastrecov_, pipectrl_, pipe_, prob_count_, rtx_pending>>
netVars == <<data, acks, losses>>
vars == <<appVars, sndVars, netVars, job, rq_>>

Idle == [op |-> "idle"]

EmptyRq(nxt) == [blocks |-> {}, total |-> 0, nxt |-> nxt]

\* The handshake has used sequence number 0.
Init ==
    /\ rtx_on_eof_ \in RtxOnEof
    /\ flow = 0 /\ chunk = 0 /\ done = 0 /\ curseq_ = 0
    /\ signal_on_empty_ = FALSE /\ last_eof_ = FALSE /\ urgent = {}
    /\ highest_ack_ = 1 /\ t_seqno_ = 1 /\ maxseq_ = 1
    /\ recover_ = 0 /\ h_seqno_ = -1 /\ sq_ = EmptyRq(-1)
    /\ dupacks_ = 0 /\ fastrecov_ = FALSE /\ pipectrl_ = FALSE /\ pipe_ = 0
    /\ prob_count_ = 0 /\ rtx_pending = FALSE
    /\ job = Idle /\ rq_ = EmptyRq(1)
    /\ data = EmptyBag /\ acks = EmptyBag /\ losses = 0

-----------------------------------------------------------------------------
(* The network *)

Put(bag, m) == bag (+) SetToBag({m})
Take(bag, m) == bag (-) SetToBag({m})

InFlight == BagCardinality(data) + BagCardinality(acks)

\* m is sent, and arrives sooner or later or is lost.
SendData(m) == \/ data' = Put(data, m) /\ UNCHANGED losses
               \/ losses < MaxLoss /\ losses' = losses + 1 /\ UNCHANGED data

-----------------------------------------------------------------------------
(* Sending: send_much, nxt_tseq, send_allowed, foutput, sent *)

\* A call of send_much; the window it finds is some number of segments.
SendMuch(force) ==
    \E w \in 1 .. MaxWin : job' = [op |-> "send", force |-> force, cwin |-> w * maxseg_]

prob_mode_ == prob_cap_ # 0 /\ prob_count_ = prob_cap_

\* The window in bytes, a single byte in probe mode.
win == IF prob_mode_ THEN 1 ELSE job.cwin

\* The hole that recovery fills next, if there is a block above it.
FillHole == /\ highest_ack_ < recover_
            /\ LET hole == nexthole(sq_, h_seqno_)
               IN hole.seq > 0 /\ hole.bytes >= 1

nxt_tseq == IF FillHole THEN nexthole(sq_, h_seqno_).seq ELSE t_seqno_

\* h_seqno_ once nxt_tseq has jumped over what is filled.
hole_seqno == IF FillHole /\ nxt_tseq > h_seqno_ THEN nxt_tseq ELSE h_seqno_

send_allowed(seq) ==
    IF pipectrl_ THEN pipe_ < job.cwin
    ELSE seq < curseq_ /\ seq < highest_ack_ + win

\* Mutant: one byte too many.
MutBufferedBytes == curseq_ - highest_ack_ + 2

buffered_bytes == curseq_ - highest_ack_ + 1

\* The payload of the packet that foutput would send at seq; 0 if it does
\* not send (`all': the window does not count).
datalen(seq, all) ==
    LET limit == IF all \/ buffered_bytes < win THEN buffered_bytes ELSE win
        rest  == limit - (seq - highest_ack_)
        len   == IF rest > maxseg_ THEN maxseg_ ELSE rest
        nagle == /\ len # maxseg_
                 /\ seq + len <= curseq_
                 /\ seq >= maxseq_
                 /\ ~(len = 1 /\ prob_mode_)
    IN IF len <= 0 \/ nagle THEN 0 ELSE len

\* foutput sends len bytes at seq.
Output(seq, len) ==
    /\ SendData([seq |-> seq, len |-> len])
    /\ maxseq_' = IF seq + len > maxseq_ THEN seq + len ELSE maxseq_
    /\ rtx_pending' = TRUE
    /\ last_eof_' = FALSE
    /\ urgent' = IF signal_on_empty_ THEN urgent \cup (seq .. (seq + len - 1)) ELSE urgent

\* One turn of the loop of send_much that sends a packet.
SendPacket ==
    /\ job.op = "send"
    /\ LET seq == nxt_tseq
           len == datalen(seq, pipectrl_)
       IN /\ job.force \/ send_allowed(seq)
          /\ len > 0
          /\ Output(seq, len)
          /\ t_seqno_' = IF seq = t_seqno_ THEN t_seqno_ + len ELSE t_seqno_
          /\ h_seqno_' = IF seq = hole_seqno THEN hole_seqno + len ELSE hole_seqno
          /\ pipe_' = IF pipectrl_ THEN pipe_ + len ELSE 0
    /\ job' = [job EXCEPT !.force = FALSE]
    /\ UNCHANGED <<rtx_on_eof_, flow, chunk, done, curseq_, signal_on_empty_,
                   highest_ack_, recover_, sq_, dupacks_, fastrecov_, pipectrl_, prob_count_,
                   rq_, acks>>

\* Mutant: the flow is done when everything has been sent.
MutReports(called) == signal_on_empty_ /\ t_seqno_ > curseq_

\* foutput, if it is called, calls bufferempty().
Reports(called) == called /\ signal_on_empty_ /\ buffered_bytes = 0

\* The turn that ends send_much; if foutput was called, it has reported the
\* end of the flow when nothing was left in the buffer.
SendEnd ==
    /\ job.op = "send"
    /\ LET seq     == nxt_tseq
           allowed == job.force \/ send_allowed(seq)
           report  == Reports(allowed)
       IN /\ ~allowed \/ datalen(seq, pipectrl_) = 0
          /\ h_seqno_' = hole_seqno
          /\ signal_on_empty_' = (signal_on_empty_ /\ ~report)
          /\ done' = IF report THEN done + 1 ELSE done
          /\ urgent' = IF report THEN {} ELSE urgent
    /\ job' = Idle
    /\ UNCHANGED <<rtx_on_eof_, flow, chunk, curseq_, last_eof_, highest_ack_, t_seqno_,
                   maxseq_, recover_, sq_, dupacks_, fastrecov_, pipectrl_, pipe_,
                   prob_count_, rtx_pending, rq_, netVars>>

-----------------------------------------------------------------------------
(* The application: sendmsg and advance_bytes *)

\* Mutant: the end of the flow does not rewind t_seqno_.
MutRewind(eof) == t_seqno_

\* t_seqno_ after sendmsg.
Rewind(eof) == IF eof /\ rtx_on_eof_ THEN highest_ack_ ELSE t_seqno_

sendmsg(nb, eof) ==
    /\ curseq_' = curseq_ + nb
    /\ signal_on_empty_' = (signal_on_empty_ \/ eof)
    /\ last_eof_' = (last_eof_ \/ (eof /\ rtx_on_eof_))
    /\ t_seqno_' = Rewind(eof)
    /\ prob_count_' = IF eof /\ reset_window_on_eof_ THEN 0 ELSE prob_count_
    /\ rtx_pending' = (rtx_pending \/ (eof /\ reset_window_on_eof_))
    /\ SendMuch(rtx_on_eof_ /\ signal_on_empty_')
    /\ UNCHANGED <<rtx_on_eof_, done, urgent, highest_ack_, maxseq_, recover_,
                   h_seqno_, sq_, dupacks_, fastrecov_, pipectrl_, pipe_, rq_, netVars>>

\* The next flow starts after the last one was reported done.
StartFlow ==
    /\ job = Idle /\ done = flow /\ flow < Len(Flows)
    /\ flow' = flow + 1 /\ chunk' = 1
    /\ sendmsg(Flows[flow + 1][1], Len(Flows[flow + 1]) = 1)

\* The application's timer hands over the next chunk, the last with DAT_EOF.
NextChunk ==
    /\ job = Idle /\ flow > 0 /\ chunk < Len(Flows[flow])
    /\ chunk' = chunk + 1 /\ UNCHANGED flow
    /\ sendmsg(Flows[flow][chunk + 1], chunk + 1 = Len(Flows[flow]))

-----------------------------------------------------------------------------
(* The receiver *)

\* A data packet arrives and is acknowledged at once, with SACK blocks for
\* what is in the reassembly queue.
RecvData(m) ==
    /\ job = Idle /\ BagIn(m, data)
    /\ data' = Take(data, m)
    /\ rq_' = Accept(rq_, m.seq, m.seq + m.len, FALSE).rq
    /\ \/ /\ \E S \in gensack(rq_', max_sack_blocks_) :
                acks' = Put(acks, [ackno |-> rq_'.nxt, sacks |-> S])
          /\ UNCHANGED losses
       \/ /\ losses < MaxLoss /\ losses' = losses + 1
          /\ UNCHANGED acks
    /\ UNCHANGED <<appVars, sndVars, job>>

-----------------------------------------------------------------------------
(* ACKs at the sender: recv *)

\* An ACK arrives: probe mode ends, then its SACK blocks are looked at.
RecvAck(m) ==
    /\ job = Idle /\ BagIn(m, acks)
    /\ acks' = Take(acks, m)
    /\ prob_count_' = 0
    /\ job' = [op |-> "ack", ackno |-> m.ackno, sacks |-> m.sacks]
    /\ UNCHANGED <<appVars, highest_ack_, t_seqno_, maxseq_, recover_, h_seqno_,
                   sq_, dupacks_, fastrecov_, pipectrl_, pipe_, rtx_pending,
                   rq_, data, losses>>

\* process_sack: one turn of its loop.
ProcessSack(b) ==
    /\ job.op = "ack" /\ b \in job.sacks
    /\ sq_' = add(sq_, b.s, b.e, FALSE).rq
    /\ job' = [job EXCEPT !.sacks = @ \ {b}]
    /\ UNCHANGED <<appVars, highest_ack_, t_seqno_, maxseq_, recover_, h_seqno_,
                   dupacks_, fastrecov_, pipectrl_, pipe_, prob_count_,
                   rtx_pending, rq_, netVars>>

AckReady == job.op = "ack" /\ job.sacks = {}

\* An ACK says that a packet has left the network.
PipeAfterAck == IF fastrecov_ /\ pipectrl_ THEN pipe_ - maxseg_ ELSE pipe_

\* step6 of recv for an ACK that does not ask for output.
Step6 == IF curseq_ >= highest_ack_ THEN SendMuch(FALSE) ELSE job' = Idle

\* An ACK below highest_ack_, or none is expected.
OldAck ==
    /\ AckReady
    /\ job.ackno <= highest_ack_
    /\ ~rtx_pending \/ job.ackno < highest_ack_
    /\ dupacks_' = 0 /\ pipe_' = PipeAfterAck
    /\ Step6
    /\ UNCHANGED <<appVars, highest_ack_, t_seqno_, maxseq_, recover_, h_seqno_, sq_,
                   fastrecov_, pipectrl_, prob_count_, rtx_pending, rq_, netVars>>

\* A duplicate ACK that is not the one at the threshold.  (Past it the code
\* calls send_much itself instead of going through step6.)
DupAck ==
    /\ AckReady
    /\ job.ackno = highest_ack_ /\ rtx_pending
    /\ dupacks_ + 1 # tcprexmtthresh_
    /\ dupacks_' = IF dupacks_ < tcprexmtthresh_ THEN dupacks_ + 1 ELSE dupacks_
    /\ pipe_' = PipeAfterAck
    /\ Step6
    /\ UNCHANGED <<appVars, highest_ack_, t_seqno_, maxseq_, recover_, h_seqno_, sq_,
                   fastrecov_, pipectrl_, prob_count_, rtx_pending, rq_, netVars>>

\* The duplicate ACK at the threshold starts a fast retransmit (dupack_action),
\* but not when the last one is still going on, except after a window that
\* ECN has cut.
FastRetransmit ==
    /\ AckReady
    /\ job.ackno = highest_ack_ /\ rtx_pending
    /\ dupacks_ + 1 = tcprexmtthresh_
    /\ dupacks_' = dupacks_ + 1
    /\ fastrecov_' = TRUE
    /\ LET len == IF buffered_bytes > maxseg_ THEN maxseg_ ELSE buffered_bytes IN
       \/ /\ Output(highest_ack_, len)
          /\ recover_' = maxseq_
          /\ pipectrl_' = TRUE
          /\ pipe_' = maxseq_ - highest_ack_ - sq_.total
          /\ h_seqno_' = highest_ack_ + len
          /\ SendMuch(FALSE)
       \/ /\ highest_ack_ <= recover_
          /\ job' = Idle
          /\ pipe_' = IF pipectrl_ THEN maxseq_ - highest_ack_ - sq_.total ELSE 0
          /\ UNCHANGED <<data, losses, maxseq_, rtx_pending, last_eof_, urgent,
                         recover_, pipectrl_, h_seqno_>>
    /\ UNCHANGED <<rtx_on_eof_, flow, chunk, done, curseq_, signal_on_empty_,
                   highest_ack_, t_seqno_, sq_, prob_count_, rq_, acks>>

\* Mutant: the timer is not restarted for what is still outstanding.
MutTimerAfterAck(ackno) == FALSE

\* newack: the timer runs as long as something is outstanding.
TimerAfterAck(ackno) == ackno # maxseq_

\* pack_action, ack_action: the scoreboard is cut at the new highest_ack_.
CutScoreboard(ackno) ==
    IF sq_.blocks # {} /\ sq_.nxt < ackno
    THEN clearto([sq_ EXCEPT !.nxt = ackno], ackno).rq
    ELSE sq_

\* An ACK for new data: newack, then pack_action or ack_action.
NewAck ==
    /\ AckReady
    /\ job.ackno > highest_ack_
    /\ LET ackno   == job.ackno
           partial == fastrecov_ /\ ackno < recover_
       IN /\ highest_ack_' = ackno
          /\ rtx_pending' = TimerAfterAck(ackno)
          /\ t_seqno_' = IF t_seqno_ < ackno THEN ackno ELSE t_seqno_
          /\ h_seqno_' = IF h_seqno_ < ackno THEN ackno ELSE h_seqno_
          /\ sq_' = CutScoreboard(ackno)
          /\ IF partial
             THEN /\ pipe_' = IF pipectrl_ THEN PipeAfterAck - maxseg_ ELSE 0
                  /\ UNCHANGED <<dupacks_, fastrecov_, pipectrl_>>
             ELSE /\ pipe_' = 0 /\ dupacks_' = 0
                  /\ fastrecov_' = FALSE /\ pipectrl_' = FALSE
          /\ IF ackno = maxseq_ THEN SendMuch(TRUE)
             ELSE IF curseq_ >= ackno THEN SendMuch(FALSE) ELSE job' = Idle
    /\ UNCHANGED <<appVars, maxseq_, recover_, prob_count_, rq_, netVars>>

-----------------------------------------------------------------------------
(* The retransmission timer: timeout and the three timeout_actions *)

\* Mutant: the timeout does not go back to what is outstanding.
MutTimeoutSeq == t_seqno_

\* t_seqno_ after a timeout.
TimeoutSeq == highest_ack_

Timeout ==
    /\ job = Idle /\ rtx_pending
    /\ InFlight <= MaxSpurious
    /\ prob_count_' = IF prob_count_ < prob_cap_ THEN prob_count_ + 1 ELSE prob_count_
    /\ h_seqno_' = IF prob_cap_ # 0 THEN highest_ack_ ELSE h_seqno_
    /\ recover_' = maxseq_
    /\ t_seqno_' = TimeoutSeq
    /\ fastrecov_' = FALSE /\ dupacks_' = 0
    /\ SendMuch(TRUE)
    /\ UNCHANGED <<appVars, highest_ack_, maxseq_, sq_, pipectrl_, pipe_,
                   rtx_pending, rq_, netVars>>

-----------------------------------------------------------------------------

SenderStep == \/ SendPacket \/ SendEnd
              \/ OldAck \/ DupAck \/ FastRetransmit \/ NewAck
              \/ job.op = "ack" /\ \E b \in job.sacks : ProcessSack(b)

Next == \/ StartFlow \/ NextChunk
        \/ \E m \in BagToSet(data) : RecvData(m)
        \/ \E m \in BagToSet(acks) : RecvAck(m)
        \/ SenderStep
        \/ Timeout

Spec == Init /\ [][Next]_vars

\* The simulator runs every event that is scheduled: the running handler
\* ends, packets that are not lost arrive, timers expire.
Fairness == /\ WF_vars(SenderStep)
            /\ WF_vars(StartFlow) /\ WF_vars(NextChunk)
            /\ WF_vars(\E m \in BagToSet(data) : RecvData(m))
            /\ WF_vars(\E m \in BagToSet(acks) : RecvAck(m))
            /\ WF_vars(Timeout)

FairSpec == Spec /\ Fairness

-----------------------------------------------------------------------------

SeqNumbers == {curseq_, highest_ack_, t_seqno_, maxseq_}

\* Type invariant.
TypeOK ==
    /\ SeqNumbers \subseteq Nat
    /\ {recover_, h_seqno_, pipe_} \subseteq Int
    /\ sq_ \in QueueType /\ rq_ \in QueueType
    /\ \A m \in BagToSet(data) : m.seq \in Nat /\ m.len \in 1 .. maxseg_
    /\ \A m \in BagToSet(acks) : m.ackno \in Nat /\ m.sacks \subseteq Block
    /\ prob_count_ \in 0 .. prob_cap_ /\ losses \in 0 .. MaxLoss

\* The bytes the receiver has.
Received == (1 .. (rq_.nxt - 1)) \cup BytesOf(rq_.blocks)

\* Every sequence number is where it belongs: acknowledged <= received in
\* order <= sent <= handed over, whatever was lost, reordered or
\* retransmitted.  So the "ack more than we sent" branch of recv is never
\* taken.
SeqOrder ==
    /\ TypeOK
    /\ highest_ack_ <= rq_.nxt
    /\ rq_.nxt <= maxseq_
    /\ maxseq_ <= curseq_ + 1
    /\ highest_ack_ <= t_seqno_ /\ t_seqno_ <= maxseq_
    /\ \A m \in BagToSet(data) : m.seq + m.len <= maxseq_
    /\ \A m \in BagToSet(acks) : m.ackno <= rq_.nxt

\* The scoreboard only holds bytes that the receiver has, although it is
\* filled from ACKs that arrive in any order, and its total_ is right.
ScoreboardTrue ==
    /\ BytesOf(sq_.blocks) \subseteq Received
    /\ Separated(sq_.blocks)
    /\ sq_.total = Cardinality(BytesOf(sq_.blocks))

\* The sender never waits without a timer: when no handler runs and
\* something is not acknowledged, the retransmission timer is running.
NeverStuck == job = Idle /\ highest_ack_ <= curseq_ => rtx_pending

\* Since the end of the flow was announced, everything below t_seqno_ that
\* is not acknowledged has been sent again with the flow's final priority:
\* a port may throw away the copies sent before (DropTail).
UrgentCopyExists ==
    rtx_on_eof_ /\ signal_on_empty_ =>
        highest_ack_ .. (t_seqno_ - 1) \subseteq urgent

\* Each flow is completed.
FlowsComplete == \A i \in 1 .. Len(Flows) : flow = i ~> done = i

\* The connection implements the abstract one of module Transfer: bytes are
\* delivered once, in order and only if handed over, and a flow is reported
\* done once, after its end was announced and when all of it is delivered.
Abstract == INSTANCE Transfer WITH offered <- curseq_, delivered <- rq_.nxt - 1
ImplementsTransfer == Abstract!Spec

\* "Forced retransmission failed!" (tcp-full.cc) is never printed: when
\* DAT_EOF has been handled, a packet has been sent.
EofIsForcedOut == job = Idle => ~last_eof_
=============================================================================
