------------------------------ MODULE DropTail ------------------------------
(***************************************************************************)
(* An output port of a switch or a host: Queue::recv/resume (queue.cc), the *)
(* queueing discipline DropTail (drop-tail.cc) with its priority dropping   *)
(* and priority dequeueing, and the link behind it (LinkDelay, delay.cc).   *)
(*                                                                         *)
(* The simulator is single-threaded: a handler runs to its end before the   *)
(* next event.  The events of a port are the arrival of a packet (Recv),    *)
(* the end of a transmission, which the link reports to the queue (Resume), *)
(* the arrival of a packet at the other end (Deliver) and the commands of   *)
(* the Tcl scripts (SetLimit, shrink-queue, reset).                         *)
(***************************************************************************)
EXTENDS PacketQueue

CONSTANTS
    Shapes,          \* the headers of the packets that arrive
    Limits,          \* the values the scripts give to limit_
    MaxPackets,      \* bound: the number of arrivals
    qib_,            \* queue_in_bytes_
    mean_pktsize_,
    drop_front_, drop_prio_, drop_smart_,
    deque_prio_, keep_order_, drop_low_prio_,
    good_prio_qlim_, \* good_limit_; negative: none
    ecn_enable_, thresh_,
    sq_limit_

ASSUME ConfigAssumption ==
    /\ \A s \in Shapes : /\ s.flow \in Flows
                         /\ s.prio \in Int
                         /\ s.size \in Sizes
                         /\ s.ect \in BOOLEAN
    /\ Limits \in SUBSET Nat
    /\ Limits # {}
    /\ MaxPackets \in Nat
    /\ mean_pktsize_ \in Nat
    /\ good_prio_qlim_ \in Int
    /\ thresh_ \in Int
    /\ sq_limit_ \in Nat
    /\ \A flag \in {qib_, drop_front_, drop_prio_, drop_smart_, deque_prio_,
                    keep_order_, drop_low_prio_, ecn_enable_} : flag \in BOOLEAN

VARIABLES
    q_,         \* the BadTrackingPacketQueue
    qlim_,      \* limit_
    sq_queue_,  \* flows of the last dequeued packets (drop_smart_)
    sq_counts_, \* how often each flow is in sq_queue_
    blocked_,   \* the link is busy
    intr_,      \* the link's event that ends the transmission is scheduled
    sent,       \* the packets handed to the link, in order
    arrived,    \* how many of them have reached the other end
    dropped,    \* the packets given to the drop target
    nextid,     \* the number of the next arrival
    mode        \* "run", "reset" inside Queue::reset, "aborted" by a throw

vars == <<q_, qlim_, sq_queue_, sq_counts_, blocked_, intr_, sent, arrived,
          dropped, nextid, mode>>

-----------------------------------------------------------------------------
(* Arrivals: DropTail::enque *)

qlim_in_bytes == qlim_ * mean_pktsize_

get_num_good_packets(pq) == Cardinality(pq.pkts) - pq.bad

\* Mutant: a limit that may be reached (> for >=).
MutWillOverflow(p) ==
    IF qib_ THEN q_.bytes + p.size > qlim_in_bytes
    ELSE Cardinality(q_.pkts) + 1 > qlim_

will_overflow(p) ==
    IF qib_ THEN q_.bytes + p.size >= qlim_in_bytes
    ELSE IF good_prio_qlim_ >= 0 /\ ~is_bad_prio(p)
         THEN get_num_good_packets(q_) + 1 >= good_prio_qlim_
         ELSE Cardinality(q_.pkts) + 1 >= qlim_

\* May v be dropped to make room (the test in the loop of drop_prio)?  The
\* arriving packet is already on the list pq.
DropCandidate(pq, v) ==
    \/ /\ ~qib_
       /\ \/ ~(good_prio_qlim_ >= 0 /\ get_num_good_packets(pq) > good_prio_qlim_)
          \/ ~is_bad_prio(v)
    \/ pq.bytes - v.size < qlim_in_bytes

DropCandidates(pq) == {v \in pq.pkts : DropCandidate(pq, v) /\ v.prio >= 0}

\* Mutant: the loop keeps the lowest prio value it has met.
MutIsPrioVictim(pq, p, v) ==
    /\ v \in DropCandidates(pq) \cup {p}
    /\ \A r \in DropCandidates(pq) : v.prio <= r.prio

\* v is the packet drop_prio removes when p arrives: the last of the
\* candidates with the highest prio value, p itself if there is none.
IsPrioVictim(pq, p, v) ==
    \/ DropCandidates(pq) = {} /\ v = p
    \/ /\ v \in DropCandidates(pq)
       /\ \A r \in DropCandidates(pq) :
             r.prio < v.prio \/ (r.prio = v.prio /\ r.id <= v.id)

\* v is the packet drop_smart removes when p arrives: the first of the flow
\* seen most often among the last dequeued packets, p if none was seen.
IsSmartVictim(pq, p, v) ==
    \/ (\A r \in pq.pkts : sq_counts_[r.flow] = 0) /\ v = p
    \/ /\ v \in pq.pkts
       /\ sq_counts_[v.flow] > 0
       /\ \A r \in pq.pkts :
             \/ sq_counts_[r.flow] < sq_counts_[v.flow]
             \/ sq_counts_[r.flow] = sq_counts_[v.flow] /\ v.id <= r.id

\* drop_prio throws from inside its loop.
Throws(p) == /\ will_overflow(p)
             /\ ~drop_front_ /\ drop_prio_
             /\ ~qib_ /\ good_prio_qlim_ >= 0

\* The outcomes of handle_overflow: the list and the packet to drop.
handle_overflow(p) ==
    LET pq == pq_enque(q_, p) IN
    IF drop_front_
    THEN {[pq |-> pq_deque(pq, v), lost |-> {v}] :
             v \in {v \in pq.pkts : IsFirst(pq.pkts, v)}}
    ELSE IF drop_prio_
    THEN {[pq |-> pq_remove(pq, {v}), lost |-> {v}] :
             v \in {v \in pq.pkts : IsPrioVictim(pq, p, v)}}
    ELSE IF drop_smart_
    THEN {[pq |-> pq_remove(pq, {v}), lost |-> {v}] :
             v \in {v \in pq.pkts : IsSmartVictim(pq, p, v)}}
    ELSE {[pq |-> q_, lost |-> {p}]}

\* p is the first packet with the highest prio value.
IsHighest(S, p) ==
    /\ p \in S
    /\ \A r \in S : r.prio < p.prio \/ (r.prio = p.prio /\ p.id <= r.id)

\* p is the first packet with the lowest prio value.
IsLowest(S, p) ==
    /\ p \in S
    /\ \A r \in S : p.prio < r.prio \/ (r.prio = p.prio /\ p.id <= r.id)

SetCE(pq, p) ==
    [pq EXCEPT !.pkts = (@ \ {p}) \cup {[p EXCEPT !.ce = @ \/ p.ect]}]

\* Mutant: the packet to be served next is marked.
MutMarkEcn(pq) ==
    IF ecn_enable_ /\ pq.pkts # {} /\ Cardinality(pq.pkts) >= thresh_
    THEN {SetCE(pq, p) : p \in {p \in pq.pkts : IsLowest(pq.pkts, p)}}
    ELSE {pq}

\* The outcomes of marking, the end of enque.
mark_ecn(pq) ==
    IF ecn_enable_ /\ pq.pkts # {} /\ Cardinality(pq.pkts) >= thresh_
    THEN {SetCE(pq, p) : p \in {p \in pq.pkts : IsHighest(pq.pkts, p)}}
    ELSE {pq}

\* The outcomes of the first half of enque.
Stored(p) ==
    IF will_overflow(p) THEN handle_overflow(p)
    ELSE {[pq |-> pq_enque(q_, p), lost |-> {}]}

\* The outcomes of DropTail::enque.
enque(p) ==
    UNION {{[pq |-> m, lost |-> s.lost] : m \in mark_ecn(s.pq)} : s \in Stored(p)}

-----------------------------------------------------------------------------
(* Departures: DropTail::deque *)

\* Packets of b's flow that are before b on the list.
SameFlowAhead(S, b) == {r \in S : r.flow = b.flow /\ r.id < b.id}

\* Mutant: does not look at the priority of the overtaken packet.
MutStale(r, b) == drop_low_prio_ /\ ~is_bad_prio(b)

\* Sent before the end of the flow was known, overtaken by b sent after.
Stale(r, b) == drop_low_prio_ /\ is_bad_prio(r) /\ ~is_bad_prio(b)

\* Those that end the loop of handle_same_flow.
Blockers(S, b) == {r \in SameFlowAhead(S, b) : ~Stale(r, b)}

\* packets_to_drop: the stale packets before the first blocker.
PacketsToDrop(S, b) ==
    {r \in SameFlowAhead(S, b) : /\ Stale(r, b)
                                 /\ \A k \in Blockers(S, b) : r.id < k.id}

\* Mutant: the most urgent packet is taken even if its flow has older ones.
MutIsChosen(S, b, c) == c = b

\* handle_same_flow(b) returns c.
IsChosen(S, b, c) ==
    IF keep_order_ THEN IsFirst(Blockers(S, b) \cup {b}, c) ELSE c = b

\* Mutant: stale packets are unlinked but not given to the drop target.
MutDequePriority(pq) ==
    UNION {LET D == PacketsToDrop(pq.pkts, b) IN
           {[pq |-> pq_remove(pq, D \cup {c}), lost |-> {}, out |-> {c}] :
                c \in {c \in pq.pkts : IsChosen(pq.pkts, b, c)}} :
           b \in {b \in pq.pkts : IsLowest(pq.pkts, b)}}

\* The outcomes of deque_priority: the list, the packets it drops and the
\* packet it returns.
deque_priority(pq) ==
    UNION {LET D == PacketsToDrop(pq.pkts, b) IN
           {[pq |-> pq_remove(pq, D \cup {c}), lost |-> D, out |-> {c}] :
                c \in {c \in pq.pkts : IsChosen(pq.pkts, b, c)}} :
           b \in {b \in pq.pkts : IsLowest(pq.pkts, b)}}

\* The outcomes of DropTail::deque.
deque(pq) ==
    IF pq.pkts = {} THEN {[pq |-> pq, lost |-> {}, out |-> {}]}
    ELSE IF deque_prio_ THEN deque_priority(pq)
    ELSE {[pq |-> pq_deque(pq, c), lost |-> {}, out |-> {c}] :
             c \in {c \in pq.pkts : IsFirst(pq.pkts, c)}}

\* Mutant: the oldest flow is popped but still counted.
MutNoteDequeued(c) ==
    IF drop_smart_ /\ ~deque_prio_
    THEN LET pushed == Append(sq_queue_, c.flow) IN
         /\ sq_queue_' = IF Len(pushed) > sq_limit_ THEN Tail(pushed) ELSE pushed
         /\ sq_counts_' = [sq_counts_ EXCEPT ![c.flow] = @ + 1]
    ELSE UNCHANGED <<sq_queue_, sq_counts_>>

\* deque_with_drop_smart: remember the flow of c, forget the oldest one.
NoteDequeued(c) ==
    IF drop_smart_ /\ ~deque_prio_
    THEN LET pushed == Append(sq_queue_, c.flow)
             counts == [sq_counts_ EXCEPT ![c.flow] = @ + 1]
         IN IF Len(pushed) > sq_limit_
            THEN /\ sq_queue_' = Tail(pushed)
                 /\ sq_counts_' = [counts EXCEPT ![Head(pushed)] = @ - 1]
            ELSE /\ sq_queue_' = pushed
                 /\ sq_counts_' = counts
    ELSE UNCHANGED <<sq_queue_, sq_counts_>>

\* Mutant: the link forgets to schedule the end of the transmission.
MutTransmit(d) ==
    \E c \in d.out : sent' = Append(sent, c) /\ intr_' = FALSE /\ NoteDequeued(c)

\* target_->recv(p, &qh_): the link takes the packet of outcome d and
\* schedules the end of its transmission.
Transmit(d) ==
    \E c \in d.out : /\ sent' = Append(sent, c)
                     /\ intr_' = TRUE
                     /\ NoteDequeued(c)

-----------------------------------------------------------------------------
(* The events of the port *)

NewPacket(s) == [id |-> nextid, flow |-> s.flow, prio |-> s.prio,
                 size |-> s.size, ect |-> s.ect, ce |-> FALSE]

\* Queue::recv while the link is busy: the packet waits, or one is dropped.
RecvBlocked(s) ==
    /\ mode = "run" /\ nextid <= MaxPackets /\ blocked_
    /\ ~Throws(NewPacket(s))
    /\ \E e \in enque(NewPacket(s)) :
          /\ q_' = e.pq
          /\ dropped' = dropped \cup e.lost
    /\ nextid' = nextid + 1
    /\ UNCHANGED <<qlim_, sq_queue_, sq_counts_, blocked_, intr_, sent,
                   arrived, mode>>

\* Queue::recv while the link is idle: enque, then deque at once.
RecvIdle(s) ==
    /\ mode = "run" /\ nextid <= MaxPackets /\ ~blocked_
    /\ ~Throws(NewPacket(s))
    /\ \E e \in enque(NewPacket(s)) : \E d \in deque(e.pq) :
          /\ q_' = d.pq
          /\ dropped' = dropped \cup e.lost \cup d.lost
          /\ \/ /\ d.out # {}
                /\ Transmit(d)
                /\ blocked_' = TRUE
             \/ /\ d.out = {}
                /\ UNCHANGED <<sq_queue_, sq_counts_, blocked_, intr_, sent>>
    /\ nextid' = nextid + 1
    /\ UNCHANGED <<qlim_, arrived, mode>>

\* Queue::recv when drop_prio throws: the arriving packet is already on the
\* list, the exception ends the simulation.
RecvThrows(s) ==
    /\ mode = "run" /\ nextid <= MaxPackets
    /\ Throws(NewPacket(s))
    /\ q_' = pq_enque(q_, NewPacket(s))
    /\ nextid' = nextid + 1
    /\ mode' = "aborted"
    /\ UNCHANGED <<qlim_, sq_queue_, sq_counts_, blocked_, intr_, sent,
                   arrived, dropped>>

\* QueueHandler::handle, Queue::resume: the transmission has ended.
Resume ==
    /\ mode = "run" /\ intr_
    /\ \E d \in deque(q_) :
          /\ q_' = d.pq
          /\ dropped' = dropped \cup d.lost
          /\ \/ /\ d.out # {}
                /\ Transmit(d)
                /\ UNCHANGED blocked_
             \/ /\ d.out = {}
                /\ blocked_' = FALSE
                /\ intr_' = FALSE
                /\ UNCHANGED <<sq_queue_, sq_counts_, sent>>
    /\ UNCHANGED <<qlim_, arrived, nextid, mode>>

\* The propagation delay of the first packet on the wire has passed.
Deliver ==
    /\ mode = "run" /\ arrived < Len(sent)
    /\ arrived' = arrived + 1
    /\ UNCHANGED <<q_, qlim_, sq_queue_, sq_counts_, blocked_, intr_, sent,
                   dropped, nextid, mode>>

\* A script assigns limit_.
SetLimit ==
    /\ mode = "run"
    /\ \E l \in Limits \ {qlim_} : qlim_' = l
    /\ UNCHANGED <<q_, sq_queue_, sq_counts_, blocked_, intr_, sent, arrived,
                   dropped, nextid, mode>>

\* The packets that shrink_queue leaves on the list: the loop cuts the head
\* (drop_front_) or the tail until the rest is within the limit.
ShrinkKeeps ==
    LET Rest(p) == IF drop_front_ THEN {r \in q_.pkts : r.id >= p.id}
                   ELSE {r \in q_.pkts : r.id <= p.id}
    IN {p \in q_.pkts : IF qib_ THEN Bytes(Rest(p)) <= qlim_in_bytes
                        ELSE Cardinality(Rest(p)) <= qlim_}

\* shrink_queue.  Cutting the tail is a remove(): the last packet left is
\* also the head.
shrink_queue ==
    /\ mode = "run"
    /\ LET D == q_.pkts \ ShrinkKeeps
           HeadsCut == IF drop_front_ \/ ShrinkKeeps # {} THEN {}
                       ELSE {p \in D : IsFirst(q_.pkts, p)}
       IN /\ D # {}
          /\ q_' = [pkts  |-> ShrinkKeeps,
                    bytes |-> q_.bytes - Bytes(D),
                    bad   |-> q_.bad - Cardinality(BadOf(D))
                                     - Cardinality(BadOf(HeadsCut))]
          /\ dropped' = dropped \cup D
    /\ UNCHANGED <<qlim_, sq_queue_, sq_counts_, blocked_, intr_, sent,
                   arrived, nextid, mode>>

\* Queue::reset starts to empty the queue; nothing else runs until its loop
\* has ended.
Reset ==
    /\ mode = "run" /\ q_.pkts # {}
    /\ mode' = "reset"
    /\ UNCHANGED <<q_, qlim_, sq_queue_, sq_counts_, blocked_, intr_, sent,
                   arrived, dropped, nextid>>

\* One iteration of the loop of Queue::reset.
ResetStep ==
    /\ mode = "reset"
    /\ \E d \in deque(q_) :
          /\ q_' = d.pq
          /\ dropped' = dropped \cup d.lost \cup d.out
          /\ \/ /\ d.out = {}
                /\ mode' = "run"
                /\ UNCHANGED <<sq_queue_, sq_counts_>>
             \/ /\ UNCHANGED mode
                /\ \E c \in d.out : NoteDequeued(c)
    /\ UNCHANGED <<qlim_, blocked_, intr_, sent, arrived, nextid>>

Init ==
    /\ q_ = EmptyQueue
    /\ qlim_ \in Limits
    /\ sq_queue_ = <<>>
    /\ sq_counts_ = [f \in Flows |-> 0]
    /\ blocked_ = FALSE
    /\ intr_ = FALSE
    /\ sent = <<>>
    /\ arrived = 0
    /\ dropped = {}
    /\ nextid = 1
    /\ mode = "run"

Next ==
    \/ \E s \in Shapes : RecvBlocked(s)
    \/ \E s \in Shapes : RecvIdle(s)
    \/ \E s \in Shapes : RecvThrows(s)
    \/ Resume
    \/ Deliver
    \/ SetLimit
    \/ shrink_queue
    \/ Reset
    \/ ResetStep

Spec == Init /\ [][Next]_vars

\* The scheduler runs every event it holds: the end of a transmission, the
\* arrival of a packet, the next iteration of a loop.
FairSpec == Spec /\ WF_vars(Resume) /\ WF_vars(Deliver) /\ WF_vars(ResetStep)

-----------------------------------------------------------------------------
(* Properties *)

SentPkts == {sent[i] : i \in 1..Len(sent)}

\* Types.  An aborted simulation has no next step.
TypeOK ==
    /\ q_ \in PacketQueueType
    /\ IsFiniteSet(q_.pkts)
    /\ qlim_ \in Limits
    /\ sq_queue_ \in Seq(Flows)
    /\ sq_counts_ \in [Flows -> Int]
    /\ blocked_ \in BOOLEAN
    /\ intr_ \in BOOLEAN
    /\ sent \in Seq(Packet)
    /\ arrived \in 0..Len(sent)
    /\ dropped \in SUBSET Packet
    /\ nextid \in Nat \ {0}
    /\ mode \in {"run", "reset", "aborted"}

\* The byte counter of the list is the total size of the packets on it,
\* after any mix of enque, deque, remove from the middle, and shrinking.
BytesAgree == q_.bytes = Bytes(q_.pkts)

\* A packet that has arrived is in exactly one place: on the list, handed to
\* the link once, or given to the drop target.  No path of recv, resume,
\* overflow handling, stale-copy dropping, shrinking or reset loses or
\* duplicates one.
Conservation == Conserved(q_.pkts, dropped, sent, nextid)

\* blocked_ is set exactly while the end of a transmission is scheduled (the
\* link's single intr_ event is never scheduled twice, and never missing),
\* and no packet waits while the link is idle.
WorkConserving ==
    /\ blocked_ = intr_
    /\ mode = "run" /\ ~blocked_ => q_.pkts = {}

\* The packets of a flow are in order in s and all precede those in P.
FlowOrdered(P, s) ==
    /\ \A i, j \in 1..Len(s) :
          i < j /\ s[i].flow = s[j].flow => s[i].id < s[j].id
    /\ \A i \in 1..Len(s), p \in P : s[i].flow = p.flow => s[i].id < p.id

\* The packets of a flow leave in the order of their arrival, and nothing
\* that still waits has been overtaken by a packet of its own flow: what
\* keep_order_ is for, in spite of priority dequeueing.
FlowOrder == keep_order_ \/ ~deque_prio_ => FlowOrdered(q_.pkts, sent)

\* The queue never grows to its limit: an arrival that makes it longer leaves
\* it strictly below limit_ (packets, or limit_ times the mean size in bytes).
GrowsWithinLimit ==
    [][/\ qib_ /\ q_'.bytes > q_.bytes => q_'.bytes < qlim_in_bytes
       /\ ~qib_ /\ Cardinality(q_'.pkts) > Cardinality(q_.pkts)
             => Cardinality(q_'.pkts) < qlim_]_vars

\* Priority dropping makes room at the expense of the least urgent packet: a
\* packet lost to an arrival is at least as late in the order of service as
\* every packet kept that is not smaller.  In particular no data of a flow
\* whose end is known is lost while a full segment of unknown rank is kept.
VictimIsWorst ==
    [][nextid' # nextid /\ q_.bytes < qlim_in_bytes =>
          \A v \in dropped' \ dropped : \A r \in q_'.pkts :
             r.size >= v.size => r.prio <= v.prio]_vars

\* A step that transmits drops only stale copies: packets sent before the end
\* of the flow was known, when a packet of the same flow that was sent after
\* it takes their place on the wire.
OnlyStaleCopiesDropped ==
    [][sent' # sent =>
          \A v \in dropped' \ dropped :
             LET c == sent'[Len(sent')] IN
             /\ is_bad_prio(v) /\ ~is_bad_prio(c)
             /\ v.flow = c.flow /\ v.id < c.id]_vars

\* Congestion is signalled to the least urgent traffic: a packet gets its CE
\* mark only if it can carry one, only from an arrival that finds thresh_
\* packets or brings the queue to thresh_, and only if nothing less urgent
\* is left in the queue.
MarksWorst ==
    [][\A p \in q_'.pkts \cup (SentPkts' \ SentPkts) :
          p.ce /\ (\A r \in q_.pkts : r.id = p.id => ~r.ce) =>
             /\ p.ect /\ nextid' # nextid
             /\ Cardinality(q_.pkts) + 1 >= thresh_
             /\ \A r \in q_'.pkts : r.prio <= p.prio]_vars

\* sq_counts_ counts the flows in sq_queue_, which never outgrows sq_limit_.
SqCountsAgree ==
    /\ Len(sq_queue_) <= sq_limit_
    /\ \A f \in Flows :
          sq_counts_[f] = Cardinality({i \in 1..Len(sq_queue_) : sq_queue_[i] = f})

\* Every packet that arrives is eventually dropped or reaches the other end
\* of the link: the recv/resume handshake never stalls with packets waiting.
\* Only the exception of drop_prio, which ends the simulation, strands some.
EveryPacketLeaves ==
    \A n \in 1..MaxPackets :
        nextid > n ~> \/ \E p \in dropped : p.id = n
                      \/ \E i \in 1..arrived : sent[i].id = n
                      \/ mode = "aborted"

-----------------------------------------------------------------------------
(* Refinement *)

Label(p) == <<p.id, p.flow>>

\* The port with flow order implements the abstract lossy port.
Port == INSTANCE LossyPort WITH
            Flows   <- Flows,
            offered <- nextid - 1,
            waiting <- {Label(p) : p \in q_.pkts},
            out     <- [i \in 1..Len(sent) |-> Label(sent[i])]

\* Seen from outside, the port loses packets but never invents, duplicates
\* or, within a flow, reorders one.
PortSpec == Port!Spec
=============================================================================
