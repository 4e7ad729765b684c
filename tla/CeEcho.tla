------------------------------- MODULE CeEcho -------------------------------
(***************************************************************************)
(* Congestion marks from the ports to the sender (ECN, tcp/ecn/ and the     *)
(* EcnProcessor of tcp-full.cc).  The receiver's tracker decides which      *)
(* marks its ACKs echo, the sender's tracker estimates the fraction of      *)
(* marked bytes (DCTCP's alpha) and reacts to an echo.  With                *)
(* afabric_ecn_enabled_ the receiver also tells whether only packets of the *)
(* lowest priority have arrived, and a sender that has announced the end of *)
(* its flow ignores such echoes.                                            *)
(*                                                                         *)
(* The connection is established and ECN negotiated.  Every segment has one *)
(* unit of data; data and ACKs are marked, lost and reordered by the        *)
(* network.  With the lazy priority scheme a data packet has the lowest     *)
(* priority until the end of its flow is announced.                         *)
(***************************************************************************)
EXTENDS Naturals, FiniteSets, Sequences, Bags

CONSTANTS
    AFabric,                \* the values of afabric_ecn_enabled_
    Orders,                 \* the values of in_order
    Flows,                  \* the flows: where each one ends, as a sequence
    MaxLoss,                \* bound: how many packets are lost
    MaxRtx                  \* bound: how many packets are retransmitted

ASSUME EchoAssumption ==
    /\ AFabric \subseteq BOOLEAN /\ Orders \subseteq BOOLEAN
    /\ {MaxLoss, MaxRtx} \subseteq Nat
    /\ Flows \in Seq(Nat) /\ Flows # <<>>
    /\ \A i \in 2 .. Len(Flows) : Flows[i] > Flows[i - 1]

VARIABLES
    afabric_ecn_enabled_,   \* the AFabric trackers, else the Ecnhat ones
    in_order,               \* the network keeps the order and loses nothing
    flow, signal_on_empty_,          \* the flow in progress; its end announced
    maxseq_, highest_ack_, recover_, last_cwnd_action_,
    alpha,       \* the sender's tracker: [recalc, max, marked, total]
    rcv_nxt_, last_ack_sent_, rq_,
    tracker,     \* the receiver's tracker
    data, acks,  \* the packets in flight
    losses, rtx, \* how many packets were lost, sent again
    reaction,    \* history: the ACK of the last reaction, and when it was
    counted,     \* history: marked units the sender has counted
    ce           \* history: whether the first copy of each segment was marked

confVars == <<afabric_ecn_enabled_, in_order>>
sndVars == <<maxseq_, highest_ack_, recover_, last_cwnd_action_, alpha>>
rcvVars == <<rcv_nxt_, last_ack_sent_, rq_, tracker>>
vars == <<confVars, flow, signal_on_empty_, sndVars, rcvVars, data, acks, losses,
          rtx, reaction, counted, ce>>

NoReaction == [at |-> 0, timeout |-> FALSE, announced |-> FALSE, why |-> <<>>]

Init ==
    /\ afabric_ecn_enabled_ \in AFabric /\ in_order \in Orders
    /\ flow = 1 /\ signal_on_empty_ = FALSE
    /\ maxseq_ = 0 /\ highest_ack_ = 0 /\ recover_ = 0 /\ last_cwnd_action_ = "NONE"
    /\ alpha = [recalc |-> 0, max |-> 0, marked |-> 0, total |-> 0]
    /\ rcv_nxt_ = 0 /\ last_ack_sent_ = 0 /\ rq_ = {}
    /\ tracker = [recent_ce_ |-> FALSE, is_low_prio_ |-> TRUE,
                  ce_transition_ |-> FALSE, why |-> <<>>]
    /\ data = {} /\ acks = EmptyBag /\ losses = 0 /\ rtx = 0
    /\ reaction = NoReaction /\ counted = 0 /\ ce = <<>>

-----------------------------------------------------------------------------
(* The receiver's tracker.  `why' remembers the packet behind recent_ce_. *)

is_priority_valid(low, prioLow) == low \/ ~prioLow

\* AFabricReceiverCETracker::update, for a packet p of the lowest priority or not.
AFabricUpdate(t, p) ==
    LET low == t.is_low_prio_ /\ p.low
    IN [recent_ce_     |-> p.ce /\ is_priority_valid(low, p.low),
        is_low_prio_   |-> low,
        ce_transition_ |-> \/ /\ is_priority_valid(t.is_low_prio_, p.low)
                              /\ t.recent_ce_ # p.ce
                           \/ t.is_low_prio_ /\ ~p.low,
        why            |-> p]

\* EcnhatReceiverCETracker::update.
EcnhatUpdate(t, p) ==
    [t EXCEPT !.recent_ce_ = p.ce, !.ce_transition_ = t.recent_ce_ # p.ce, !.why = p]

\* Mutant: a packet without a mark leaves the tracker as it is.
MutOnNewPacket(t, p, hasData) ==
    IF ~p.ce THEN t
    ELSE IF afabric_ecn_enabled_ THEN AFabricUpdate(t, p) ELSE EcnhatUpdate(t, p)

\* on_new_packet: a packet without a mark counts only if it has data.
on_new_packet(t, p, hasData) ==
    IF ~p.ce /\ ~hasData THEN t
    ELSE IF afabric_ecn_enabled_ THEN AFabricUpdate(t, p) ELSE EcnhatUpdate(t, p)

\* The ACK sent in the state t; `of' is the packet it answers, if it was new data.
Ack(no, t, of) ==
    [no |-> no, ece |-> t.recent_ce_, low |-> t.is_low_prio_, why |-> t.why, of |-> of]

-----------------------------------------------------------------------------
(* The receiver: one handler for the fast and the slow path of recv() *)

\* Mutant: an ACK only for every second segment.
MutNeedSend(acknow, next) == acknow \/ next - last_ack_sent_ > 1

need_send(acknow, next) == acknow \/ next - last_ack_sent_ > 0

\* Segments in the reassembly queue that follow the segment seq.
After(seq) == CHOOSE n \in seq + 1 .. seq + 1 + Cardinality(rq_) :
                 n \notin rq_ /\ \A k \in seq + 1 .. n - 1 : k \in rq_

\* on_receive_pure_incoming: an ACK with the previous CE state.
PreviousAck(t) ==
    IF t.ce_transition_ /\ rcv_nxt_ - last_ack_sent_ > 0
    THEN SetToBag({Ack(rcv_nxt_, [t EXCEPT !.recent_ce_ = ~@], <<>>)}) ELSE EmptyBag

\* Header prediction updates the tracker for the segment expected next, also
\* when the packet then takes the slow path, which updates it once more.
RecvData(p) ==
    LET inSeq   == p.seq = rcv_nxt_
        pure    == inSeq /\ rq_ = {}
        t1      == IF inSeq THEN on_new_packet(tracker, p, TRUE) ELSE tracker
        t2      == IF pure THEN t1 ELSE on_new_packet(t1, p, p.seq >= rcv_nxt_)
        next    == IF inSeq THEN After(p.seq) ELSE rcv_nxt_
        answers == need_send(~pure, next)
        reply   == Ack(next, t2, IF p.seq >= rcv_nxt_ THEN p ELSE <<>>)
    IN /\ p \in data
       /\ in_order => \A q \in data : p.seq <= q.seq
       /\ data' = data \ {p}
       /\ tracker' = t2
       /\ rcv_nxt_' = next
       /\ rq_' = {s \in rq_ \cup {p.seq} : s >= next}
       /\ last_ack_sent_' = IF answers THEN next ELSE last_ack_sent_
       /\ acks' = acks (+) (IF pure THEN PreviousAck(t2) ELSE EmptyBag)
                       (+) (IF answers THEN SetToBag({reply}) ELSE EmptyBag)
       /\ ce' = IF p.seq \in DOMAIN ce THEN ce
                ELSE [s \in DOMAIN ce \cup {p.seq} |-> IF s = p.seq THEN p.ce ELSE ce[s]]
       /\ UNCHANGED <<confVars, flow, signal_on_empty_, sndVars, losses, rtx, reaction,
                      counted>>

-----------------------------------------------------------------------------
(* The sender *)

\* The network may mark a packet, and the packet may be lost.
Send(seq, resent) ==
    /\ rtx' = rtx + resent /\ rtx' <= IF in_order THEN 0 ELSE MaxRtx
    /\ \/ \E mark \in BOOLEAN :
             data' = data \cup {[seq |-> seq, ce |-> mark, low |-> ~signal_on_empty_,
                                    copy |-> rtx']}
          /\ UNCHANGED losses
       \/ ~in_order /\ losses < MaxLoss /\ losses' = losses + 1 /\ UNCHANGED data

\* on_foutput: the tracker follows the highest sequence number sent.
Sent(a, highest) == [a EXCEPT !.max = IF highest > @ THEN highest ELSE @]

\* New data; the last segment of a flow comes with the announcement of its end.
Output ==
    /\ maxseq_ < (IF signal_on_empty_ THEN Flows[flow] ELSE Flows[flow] - 1)
    /\ Send(maxseq_, 0)
    /\ maxseq_' = maxseq_ + 1
    /\ alpha' = Sent(alpha, maxseq_ + 1)
    /\ UNCHANGED <<confVars, flow, signal_on_empty_, highest_ack_, recover_,
                   last_cwnd_action_, rcvVars, acks, reaction, counted, ce>>

\* DAT_EOF.
Announce ==
    /\ ~signal_on_empty_ /\ maxseq_ < Flows[flow]
    /\ signal_on_empty_' = TRUE
    /\ UNCHANGED <<confVars, flow, sndVars, rcvVars, data, acks, losses, rtx, reaction,
                   counted, ce>>

\* Mutant: the echo's priority is ignored.
MutIsEcnActive(a) == a.ece

is_ecn_active(a) ==
    a.ece /\ (afabric_ecn_enabled_ => ~a.low \/ ~signal_on_empty_)

\* What an ACK is taken to cover: the bytes above highest_ack_, or a segment.
AckedBytes(a) == IF a.no > highest_ack_ THEN a.no - highest_ack_ ELSE 1

MarkedBytes(a) == IF is_ecn_active(a) THEN AckedBytes(a) ELSE 0

\* update_ecnhat_alpha, with ecnhat_smooth_alpha_: once in a round trip the
\* fraction marked / total goes into ecnhat_alpha_ and both start again.
update_ecnhat_alpha(a) ==
    LET fresh == a.no > alpha.recalc
    IN [alpha EXCEPT !.recalc = IF fresh THEN alpha.max ELSE @,
                     !.marked = IF fresh THEN 0 ELSE @ + MarkedBytes(a),
                     !.total  = IF fresh THEN 0 ELSE @ + AckedBytes(a)]

\* Mutant: the window of a reaction ends with the ACK that caused it.
MutRecoverPoint == highest_ack_

\* recover_ after a reaction.
RecoverPoint == maxseq_

\* EcnProcessor::ecn, after highest_ack_ has become a.no.
Reacts(a) ==
    /\ a.no > highest_ack_ /\ is_ecn_active(a)
    /\ a.no > recover_ \/ last_cwnd_action_ = "TIMEOUT"

\* dupack_action and its fast_retransmit, for the duplicate ACK that meets the
\* threshold; with bug_fix_ nothing happens in a window that is being recovered,
\* unless the last action was a reaction to a mark.
DupAck(a) ==
    /\ a.no = highest_ack_ /\ a.no < maxseq_
    /\ highest_ack_ > recover_ \/ last_cwnd_action_ = "ECN"
    /\ recover_' = maxseq_ /\ last_cwnd_action_' = "DUPACK"
    /\ Send(highest_ack_, 1)
    /\ alpha' = Sent(update_ecnhat_alpha(a), highest_ack_ + 1)
    /\ UNCHANGED reaction

\* The buffer is empty: bufferempty() and, at some later time, the next flow.
EmptyAfter(no) == signal_on_empty_ /\ no = Flows[flow] /\ flow < Len(Flows)

\* The ACK is counted, and the sender reacts to its mark or does not.
Counts(a) ==
    /\ alpha' = update_ecnhat_alpha(a)
    /\ \/ /\ Reacts(a)
          /\ recover_' = RecoverPoint /\ last_cwnd_action_' = "ECN"
          /\ reaction' = [at |-> maxseq_, timeout |-> FALSE,
                          announced |-> signal_on_empty_, why |-> a.why]
       \/ ~Reacts(a) /\ UNCHANGED <<recover_, last_cwnd_action_, reaction>>
    /\ UNCHANGED <<data, losses, rtx>>

RecvAck(a) ==
    /\ in_order => \A b \in BagToSet(acks) : a.no <= b.no
    /\ acks' = acks (-) SetToBag({a})
    /\ counted' = counted + MarkedBytes(a)
    /\ highest_ack_' = IF a.no > highest_ack_ THEN a.no ELSE highest_ack_
    /\ Counts(a) \/ DupAck(a)
    /\ signal_on_empty_' = (signal_on_empty_ /\ ~EmptyAfter(a.no))
    /\ flow' = IF EmptyAfter(a.no) THEN flow + 1 ELSE flow
    /\ UNCHANGED <<confVars, maxseq_, rcvVars, ce>>

\* timeout_action and the retransmission that follows it.
Timeout ==
    /\ highest_ack_ < maxseq_
    /\ recover_' = maxseq_
    /\ last_cwnd_action_' = IF last_cwnd_action_ = "ECN" THEN "ECN" ELSE "TIMEOUT"
    /\ Send(highest_ack_, 1)
    /\ alpha' = [alpha EXCEPT !.recalc = highest_ack_, !.max = highest_ack_ + 1]
    /\ reaction' = [reaction EXCEPT !.timeout = TRUE]
    /\ UNCHANGED <<confVars, flow, signal_on_empty_, maxseq_, highest_ack_, rcvVars, acks,
                   counted, ce>>

\* Recovery sends any other unacknowledged segment again.
Retransmit(seq) ==
    /\ seq \in highest_ack_ .. maxseq_ - 1
    /\ Send(seq, 1)
    /\ alpha' = Sent(alpha, seq + 1)
    /\ UNCHANGED <<confVars, flow, signal_on_empty_, maxseq_, highest_ack_, recover_,
                   last_cwnd_action_, rcvVars, acks, reaction, counted, ce>>

\* An ACK is lost.
LoseAck(a) ==
    /\ ~in_order /\ losses < MaxLoss
    /\ losses' = losses + 1
    /\ acks' = acks (-) SetToBag({a})
    /\ UNCHANGED <<confVars, flow, signal_on_empty_, sndVars, rcvVars, data, rtx, reaction,
                   counted, ce>>

Next ==
    \/ Output \/ Announce \/ Timeout
    \/ \E seq \in highest_ack_ .. maxseq_ - 1 : Retransmit(seq)
    \/ \E p \in data : RecvData(p)
    \/ \E a \in BagToSet(acks) : RecvAck(a) \/ LoseAck(a)

Spec == Init /\ [][Next]_vars

-----------------------------------------------------------------------------
(* Properties *)

\* Type invariant; the marked bytes are a part of the bytes counted, so the
\* fraction that goes into ecnhat_alpha_ lies between 0 and 1.
TypeOK ==
    /\ flow \in DOMAIN Flows /\ signal_on_empty_ \in BOOLEAN
    /\ highest_ack_ \in 0 .. maxseq_ /\ maxseq_ \in 0 .. Flows[flow]
    /\ rcv_nxt_ \in highest_ack_ .. maxseq_ /\ last_ack_sent_ \in 0 .. rcv_nxt_
    /\ rq_ \subseteq rcv_nxt_ + 1 .. maxseq_ - 1
    /\ last_cwnd_action_ \in {"NONE", "ECN", "DUPACK", "TIMEOUT"}
    /\ alpha.marked \in 0 .. alpha.total /\ alpha.recalc \in 0 .. alpha.max
    /\ {tracker.recent_ce_, tracker.is_low_prio_, tracker.ce_transition_} \subseteq BOOLEAN

\* Every packet is answered before the next event, so nothing is ever pending
\* when a mark changes: the ACK with the previous CE state is never sent and
\* the stale ce_transition_ of a packet that took both paths does no harm.
AckedAtOnce ==
    /\ TypeOK
    /\ last_ack_sent_ = rcv_nxt_
    /\ \A a \in BagToSet(acks) : a.why # <<>>

\* The ACK of a packet with new data echoes the mark of this packet, and not of
\* an earlier one, on both paths of recv() and with packets out of order.
\* With AFabric a packet of the lowest priority counts only until one of
\* another priority has arrived.
EchoesMark ==
    \A a \in BagToSet(acks) : a.of # <<>> =>
        a.ece = (a.of.ce /\ (afabric_ecn_enabled_ => a.low \/ ~a.of.low))

\* A sender reacts to real marks only, and once it has announced the end of its
\* flow it never reacts to the mark of a packet of the lowest priority, whatever
\* echoes are still on their way.
ReactsToUrgent ==
    reaction.why # <<>> =>
        /\ reaction.why.ce
        /\ afabric_ecn_enabled_ /\ reaction.announced => ~reaction.why.low

\* The sender reacts at most once per window: a second reaction comes after an
\* ACK for data sent after the first, or after a timeout.
OncePerWindow ==
    [][reaction' # reaction /\ ~reaction'.timeout /\ reaction.why # <<>>
         => highest_ack_' > reaction.at \/ reaction.timeout]_vars

\* On a network that keeps the order a DCTCP sender counts the marked bytes
\* exactly: those acknowledged so far that were marked.
CountsExactly ==
    in_order /\ ~afabric_ecn_enabled_ =>
        counted = Cardinality({s \in DOMAIN ce : s < highest_ack_ /\ ce[s]})
=============================================================================
