---------------------------- MODULE PriorityQueue ----------------------------
(***************************************************************************)
(* The PIAS port: the strict-priority discipline Priority (priority.cc)    *)
(* behind the same Queue::recv/resume (queue.cc) and link as DropTail.     *)
(*                                                                         *)
(* A CoS queue is a plain PacketQueue, the set of its packets in the order *)
(* of arrival; its byteLength() is their total size (the module            *)
(* DropTailProofs proves the byte counter of a PacketQueue exact).         *)
(* blocked_ also stands for the scheduled end of a transmission, with      *)
(* which it agrees (DropTail's WorkConserving).                            *)
(***************************************************************************)
EXTENDS PacketQueue

CONSTANTS
    Shapes,         \* the headers of the packets that arrive
    MaxPackets,     \* bound: the number of arrivals
    QueueNums,      \* the values the scripts give to queue_num_
    MAX_QUEUE_NUM,
    qlim_,          \* limit_
    mean_pktsize_, thresh_,
    marking_scheme_

ECNMode == {"DISABLE", "PER_QUEUE", "PER_PORT"}

ASSUME PriorityAssumption ==
    /\ \A s \in Shapes : /\ s.flow \in Flows
                         /\ s.prio \in Int
                         /\ s.size \in Sizes
                         /\ s.ect \in BOOLEAN
    /\ MaxPackets \in Nat
    /\ MAX_QUEUE_NUM \in Nat \ {0}
    /\ QueueNums \in SUBSET Int
    /\ qlim_ \in Nat
    /\ mean_pktsize_ \in Nat
    /\ thresh_ \in Nat
    /\ marking_scheme_ \in ECNMode

VARIABLES
    q_,         \* the CoS queues
    queue_num_, \* how many of them are served
    blocked_,   \* the link is busy
    sent,       \* the packets handed to the link, in order
    dropped,    \* the packets given to the drop target
    nextid,     \* the number of the next arrival
    mode        \* "run", or "aborted" by a throw

vars == <<q_, queue_num_, blocked_, sent, dropped, nextid, mode>>

Queues == 0..(MAX_QUEUE_NUM - 1)

\* The packets on any of the queues.
Waiting(q) == UNION {q[i] : i \in Queues}

TotalByteLength(q) == Bytes(Waiting(q))

\* Mutant: packets beyond the last queue go to the first.
MutClampPriority(prio) == IF prio \in 0..(queue_num_ - 1) THEN prio ELSE 0

clamp_priority(prio) ==
    IF prio >= queue_num_ THEN queue_num_ - 1
    ELSE IF prio < 0 THEN 0 ELSE prio

\* ensure_queue_bound does not throw.
ensure_queue_bound == queue_num_ \in 1..MAX_QUEUE_NUM

\* Mutant: the size of the arriving packet is forgotten.
MutOverflows(p) == TotalByteLength(q_) > qlim_ * mean_pktsize_

Overflows(p) == TotalByteLength(q_) + p.size > qlim_ * mean_pktsize_

\* Mutant: looks at the queue before the packet is on it.
MutIsMarked(i, p) ==
    /\ p.ect
    /\ \/ /\ marking_scheme_ = "PER_QUEUE"
          /\ Bytes(q_[i]) > thresh_ * mean_pktsize_
       \/ /\ marking_scheme_ = "PER_PORT"
          /\ TotalByteLength(q_) > thresh_ * mean_pktsize_

\* The packet p, just stored in queue i, is marked.
IsMarked(i, p) ==
    /\ p.ect
    /\ \/ /\ marking_scheme_ = "PER_QUEUE"
          /\ Bytes(q_[i] \cup {p}) > thresh_ * mean_pktsize_
       \/ /\ marking_scheme_ = "PER_PORT"
          /\ Bytes(Waiting(q_) \cup {p}) > thresh_ * mean_pktsize_

\* Priority::enque: the queues and the packets dropped.
enque(p) ==
    IF Overflows(p) THEN [q |-> q_, lost |-> {p}]
    ELSE LET i == clamp_priority(p.prio)
             stored == [p EXCEPT !.ce = @ \/ IsMarked(i, p)]
         IN [q |-> [q_ EXCEPT ![i] = @ \cup {stored}], lost |-> {}]

\* c is the head of the first queue that has packets, i.  The loop of deque
\* never runs past the last queue, whatever queue_num_ is: it is entered only
\* if some queue has packets.
IsServed(q, i, c) ==
    /\ i \in Queues /\ i < queue_num_
    /\ \A j \in Queues : j < i => q[j] = {}
    /\ IsFirst(q[i], c)

\* deque returns null: no queue that is served has packets.
NothingServed(q) == \A j \in Queues : j < queue_num_ => q[j] = {}

\* Priority::deque returns a packet and the link takes it.
Transmit(q) ==
    \E i \in Queues : \E c \in q[i] :
        /\ IsServed(q, i, c)
        /\ q_' = [q EXCEPT ![i] = @ \ {c}]
        /\ sent' = Append(sent, c)

-----------------------------------------------------------------------------
NewPacket(s) == [id |-> nextid, flow |-> s.flow, prio |-> s.prio,
                 size |-> s.size, ect |-> s.ect, ce |-> FALSE]

\* Queue::recv while the link is busy.
RecvBlocked(s) ==
    /\ mode = "run" /\ nextid <= MaxPackets /\ ensure_queue_bound
    /\ blocked_
    /\ LET e == enque(NewPacket(s)) IN
       /\ q_' = e.q
       /\ dropped' = dropped \cup e.lost
    /\ nextid' = nextid + 1
    /\ UNCHANGED <<queue_num_, blocked_, sent, mode>>

\* Mutant: blocked_ is not set, as if the link had no queue in front of it.
MutRecvIdle(s) ==
    /\ mode = "run" /\ nextid <= MaxPackets /\ ensure_queue_bound
    /\ ~blocked_
    /\ q_' = enque(NewPacket(s)).q
    /\ dropped' = dropped \cup enque(NewPacket(s)).lost
    /\ nextid' = nextid + 1
    /\ UNCHANGED <<queue_num_, blocked_, sent, mode>>

\* Queue::recv while the link is idle: enque, then deque at once.
RecvIdle(s) ==
    /\ mode = "run" /\ nextid <= MaxPackets /\ ensure_queue_bound
    /\ ~blocked_
    /\ LET e == enque(NewPacket(s)) IN
       /\ dropped' = dropped \cup e.lost
       /\ \/ Transmit(e.q) /\ blocked_' = TRUE
          \/ NothingServed(e.q) /\ q_' = e.q /\ UNCHANGED <<blocked_, sent>>
    /\ nextid' = nextid + 1
    /\ UNCHANGED <<queue_num_, mode>>

\* Queue::recv with a queue_num_ out of bounds: the exception ends the
\* simulation before the packet is stored.
RecvThrows(s) ==
    /\ mode = "run" /\ nextid <= MaxPackets /\ ~ensure_queue_bound
    /\ mode' = "aborted"
    /\ UNCHANGED <<q_, queue_num_, blocked_, sent, dropped, nextid>>

\* Queue::resume: the link has finished a transmission.
Resume ==
    /\ mode = "run" /\ blocked_
    /\ \/ Transmit(q_) /\ UNCHANGED blocked_
       \/ NothingServed(q_) /\ blocked_' = FALSE /\ UNCHANGED <<q_, sent>>
    /\ UNCHANGED <<queue_num_, dropped, nextid, mode>>

\* A script assigns queue_num_.
SetQueueNum ==
    /\ mode = "run"
    /\ \E n \in QueueNums \ {queue_num_} : queue_num_' = n
    /\ UNCHANGED <<q_, blocked_, sent, dropped, nextid, mode>>

\* Queue::reset: deque and drop until deque returns null.
Reset ==
    /\ mode = "run"
    /\ ~NothingServed(q_)
    /\ q_' = [i \in Queues |-> IF i < queue_num_ THEN {} ELSE q_[i]]
    /\ dropped' = dropped \cup UNION {q_[i] : i \in {j \in Queues : j < queue_num_}}
    /\ UNCHANGED <<queue_num_, blocked_, sent, nextid, mode>>

Init ==
    /\ q_ = [i \in Queues |-> {}]
    /\ queue_num_ \in QueueNums
    /\ blocked_ = FALSE
    /\ sent = <<>>
    /\ dropped = {}
    /\ nextid = 1
    /\ mode = "run"

Next ==
    \/ \E s \in Shapes : RecvBlocked(s)
    \/ \E s \in Shapes : RecvIdle(s)
    \/ \E s \in Shapes : RecvThrows(s)
    \/ Resume
    \/ SetQueueNum
    \/ Reset

Spec == Init /\ [][Next]_vars

\* The scheduler runs the link's event.
FairSpec == Spec /\ WF_vars(Resume)

-----------------------------------------------------------------------------
(* Properties *)

\* Types.
TypeOK ==
    /\ q_ \in [Queues -> SUBSET Packet]
    /\ IsFiniteSet(Waiting(q_))
    /\ queue_num_ \in QueueNums
    /\ blocked_ \in BOOLEAN
    /\ sent \in Seq(Packet)
    /\ dropped \in SUBSET Packet
    /\ nextid \in Nat \ {0}
    /\ mode \in {"run", "aborted"}

SentPkts == {sent[i] : i \in 1..Len(sent)}

\* However arrivals, service, resets and changes of queue_num_ interleave,
\* every packet that has arrived is on exactly one CoS queue, or was sent
\* once, or was dropped.
Conservation ==
    /\ \A i, j \in Queues : i # j => q_[i] \cap q_[j] = {}
    /\ Conserved(Waiting(q_), dropped, sent, nextid)

\* All eight queues together stay within the port's limit (priority.cc
\* drops an arrival that would exceed it; the limit itself may be reached).
BoundedInBytes == TotalByteLength(q_) <= qlim_ * mean_pktsize_

\* The unmarked ECN-capable packets of S.
Unmarked(S) == {p \in S : p.ect /\ ~p.ce}

\* Marking on arrival bounds the unmarked backlog: at any moment the packets
\* that wait unmarked (in the port, or in each queue) are together no larger
\* than the threshold, so a backlog above it is always signalled by every
\* packet that made it grow.
UnmarkedWithinThresh ==
    /\ marking_scheme_ = "PER_PORT" =>
          Bytes(Unmarked(Waiting(q_))) <= thresh_ * mean_pktsize_
    /\ marking_scheme_ = "PER_QUEUE" =>
          \A i \in Queues : Bytes(Unmarked(q_[i])) <= thresh_ * mean_pktsize_

\* A packet is never overtaken by a later one that is not more urgent.  PIAS
\* demotes a flow as it sends (its prio never falls), so the packets of a
\* flow stay in order although they cross several queues.
NoOvertaking ==
    /\ \A p \in Waiting(q_), i \in 1..Len(sent) :
          p.id < sent[i].id => sent[i].prio < p.prio
    /\ \A i, j \in 1..Len(sent) :
          i < j /\ sent[j].id < sent[i].id => sent[i].prio < sent[j].prio

\* No packet waits while the link is idle.
NoIdleLink == mode = "run" /\ ~blocked_ => Waiting(q_) = {}

\* With a fixed number of queues every packet is eventually dropped or sent:
\* deque, which only looks at the first queue_num_ queues, strands nothing.
\* (Starvation is possible only while more urgent packets keep arriving.)
\* Only the exception of enque, which ends the simulation, strands some.
EveryPacketLeaves ==
    \A n \in 1..MaxPackets :
        nextid > n ~> \/ \E p \in dropped \cup SentPkts : p.id = n
                      \/ mode = "aborted"
=============================================================================
