# TLA+ models of the aFabric / aSCC simulator

This directory models the parts of the repository that carry its own logic:
congestion control by shortest remaining processing time for flows whose size
is not known in advance (aSCC), built as a fork of the ns-2 simulator, together
with the schemes it is compared with (pFabric, PIAS, LAS, MinTCP).

The switch ports, the TCP agent (data transfer, life of a connection, ECN
echo), its reassembly queue, the applications and the traffic generator of the
experiments are modelled and model-checked. The safety properties of all of
them are also proved, for every size of the instance; liveness is checked by
TLC. Section 1 is the inventory of the whole system, section 2 the plan,
sections 3 to 7 describe what exists.

## 1. Inventory

The simulator is single-threaded: the scheduler takes the earliest event and
runs its handler to the end. Interleaving is the order of events: arrivals,
ends of transmission, timers, Tcl commands. Handlers call each other directly
(`target_->recv(p, h)`), so one event may run through several components.

| Component | State | Operations | What is hard | What makes it correct |
|---|---|---|---|---|
| **DropTail port** `ns2/queue/drop-tail.*`, `queue.*` | packet list with length, byte and bad-packet counters; `limit_`; history of served flows (`sq_queue_`, `sq_counts_`); `blocked_` | `recv`, `resume`, `enque` (4 ways to handle overflow, ECN marking), `deque` (FIFO, or most urgent packet with `keep_order_` and `drop_low_prio_`), `shrink-queue`, `reset` | packets leave the middle of the list while three counters are kept by hand; limit changes under load; reset during a transmission | counters exact, no packet lost or duplicated, flows in order, the right victim, the link never idles |
| **PIAS port** `ns2/queue/priority.*` | 8 CoS queues, `queue_num_` | `enque` (drop, clamp, mark), `deque` | clamping of priorities, `queue_num_` bound to Tcl and changed at any time | strict priority, bounded, marking bounds the unmarked backlog |
| **Link** `ns2/link/delay.cc` | packet in transmission, packets on the wire | `recv`, two scheduled events | one `Event` object per link: must not be scheduled twice | handshake with the queue |
| **FullTcp agent** `ns2/tcp/tcp-full.*` | connection state, `t_seqno_`, `highest_ack_`, `curseq_`, reassembly queue, SACK scoreboard, timers, `signal_on_empty_`, probe mode | `sendmsg` (DAT_NEW / DAT_EOF), `foutput`, `send_much`, `newack`, `recv`, `timeout` | rewind on the end of the flow (`rtx_on_eof_`) while old copies are in flight; lost, reordered and duplicated segments and ACKs; timeouts against late ACKs | every flow completes, reports its end once, delivers exactly its bytes |
| **ECN processing** `ns2/tcp/ecn/*`, `EcnProcessor` | last CE state, transition flag, low-priority flag; `alpha` of the sender | `update_state_new_packet`, `send_immediate_ack_with_previous_ce`, sender updates | delayed ACKs against CE transitions; the state is updated on two paths of `recv` | the sender learns which bytes were marked |
| **Reassembly queue** `ns2/tcp/rq.*` | list of blocks, stack in order of recency | `add`, `clearto`, `gensack`, `nexthole` | merging on both sides | equals a set of byte numbers |
| **Applications** `ns2/apps/app-chunks.*`, `app-pias.cc` | chunks of a flow, send timer | `send`, timer expiry, `resume` | a second `send` while the timer is pending | all bytes sent, DAT_EOF exactly once and last |
| **Timers and scheduler** `ns2/common/timer-handler.*`, `scheduler.*` | IDLE / PENDING / HANDLING; event list | `sched`, `resched`, `cancel`, `handle` | calls from inside the callback | no abort |
| **Experiment harness** `scripts/tcp-common-opt.tcl`, `spine_empirical.tcl` | pool of persistent connections of a host pair, next arrival time | `schedule`, `check_if_behind`, `fin_notify` | completion against next arrival | no flow is started on a busy connection, no run is aborted for lack of one |
| Batch runner and plots `scripts/congestion_runner`, `scripts/plot_generation` | none | start processes, read logs | - | not modelled: input and output |
| ns-2 upstream | - | routing, wireless, other queues and transports | - | not modelled: vendored and unused by the experiments |

Interaction: an application calls `sendmsg` of its agent; the agent sends
segments through a classifier to the port of its host; a port hands packets to
its link and the link calls the port back (`resume`) when it is free; the far
end of the link is the next port or the receiving agent; the receiver's ACKs
travel the same way; when a flow is complete the agent calls `done_data`, and
the harness returns the connection to its pool.

The hazards of the code, each with its line and with the properties that watch
it, are listed in `PROJECT.json`.

## 2. Plan

1. **DropTail** (done): `PacketQueue`, `DropTail`, abstract specification
   `LossyPort`, proofs. First because aSCC, pFabric and LAS all rest on it and
   because the transport is only right if a port keeps flows in order.
2. **PriorityQueue** (done): the PIAS port, with proofs.
3. **ReassemblyQueue** (done): `add` / `clearto` / `gensack` / `nexthole`
   against a set of byte numbers.
4. **FlowTransfer** (done): the life of a flow between two agents over a
   network that loses and reorders; abstract specification `Transfer`.
5. **ChunksApp**, **TimerHandler** (done): the applications and their timer.
6. **ConnectionPool** (done): the traffic generator.
7. **CeEcho** (done): receiver and sender ECN trackers.
8. **TcpConnection** (done): set-up and close of a connection, with proofs.

Proved (section 6): every invariant and action property that a run checks, and
the refinements of `LossyPort` and `Transfer`. What would be worth adding next
is SACK and fast retransmit in `TcpConnection`, for connections that close
while they recover.

How the modules fit together: `FlowTransfer` and `TcpConnection` use
`ReassemblyQueue` for the receiver's queue, `FlowTransfer` also for the SACK
scoreboard; `ChunksApp` uses `TimerHandler`. `ChunksApp` and `ConnectionPool` assume of an agent what `FlowTransfer` shows
(`FlowsComplete`: each flow is reported done, once), `FlowTransfer` assumes of
the network less than `LossyPort` promises, since packets are sprayed over
several paths. `FlowTransfer`'s `StartFlow` only starts a flow when the last
one was reported done, which `ConnectionPool` shows (`OneFlowEach`), and gets
its chunks as `ChunksApp` hands them over (`EofWithLastByte`).

## 3. Modules

### PacketQueue
`PacketQueue` of `queue.h` and `BadTrackingPacketQueue` of `drop-tail.cc`. The
linked list is a set of packets whose order is the number of their arrival:
packets are only ever appended at the tail, so the order of the list is the
order of arrival. The counters `bytes` and `bad` are separate fields that each
operation updates as the code does, so that they may drift from the set they
describe; the length is the cardinality of the set. `remove` of the head goes
through the virtual `deque`, which is where the counter of bad packets is
updated twice. A packet keeps a flow, a priority (smaller is more urgent,
`LowestPrio` is the "bad" priority aSCC uses while the size of a flow is
unknown), one of two sizes (a header or a full segment), `ect` and `ce`.

### DropTail
One port: `Queue`, `DropTail` and `LinkDelay`.

| Action | Code |
|---|---|
| `RecvBlocked`, `RecvIdle` | `Queue::recv`, with the whole of `DropTail::enque` and, on an idle link, `deque` and the hand-over to the link |
| `RecvThrows` | the same when `drop_prio` throws: the arriving packet is on the list already and the simulation ends (`mode = "aborted"`) |
| `Resume` | `QueueHandler::handle`, `Queue::resume` |
| `Deliver` | the second event of `LinkDelay::recv` |
| `SetLimit`, `shrink_queue` | assignment of the bound variable `limit_`; the Tcl command |
| `Reset`, `ResetStep` | `Queue::reset`; its loop runs in steps of their own during which nothing else happens (`mode = "reset"`), because each iteration is a full `deque` |

Operators such as `enque(p)` and `deque(pq)` give the set of outcomes of the
code's functions, a singleton since the code is deterministic: victims and
chosen packets are described by a relation (`IsPrioVictim`, `IsChosen`)
rather than by the loop that finds them.

All configuration flags are constants, so one module is aSCC
(`drop_prio_`, `deque_prio_`, `keep_order_`, `drop_low_prio_`, bytes), pFabric
(without `drop_low_prio_`), LAS and plain drop-tail.

### LossyPort
What the transport may expect of any port: what is offered is transmitted at
most once, and within a flow in order. `DropTail!PortSpec` is its instance
with the refinement mapping (arrivals offered, packets waiting, packets sent).

### PriorityQueue
The PIAS port: `enque`, `deque` and `reset` of `Priority` behind the same
`recv` and `resume`, and the scripts' assignments to `queue_num_`, including
values for which `enque` throws. Its `reset` is one step, the loop having a
closed form: it empties the queues that are served. The byte lengths of the queues are the sums of
their packets, which `DropTailProofs` shows for a `PacketQueue`. `blocked_`
also stands for the scheduled end of a transmission: `WorkConserving` shows
that the two agree.

### ReassemblyQueue, Reassembly
`rq.cc`. A block is a half-open interval with a FIN flag, the FIFO the set of
the blocks in the order of their starts, a pointer a set with at most one
element. `link`, `stretch`, `place` and `add` are the four parts of
`ReassemblyQueue::add`: linking a block between its neighbours and coalescing,
stretching neighbours that overlap, the tests for the ends of the list, and
the pass that removes covered blocks. `total` and `nxt` (the reference
`rcv_nxt_`, for the scoreboard `sack_min_`) are updated where the code does,
so they may drift. The LIFO only decides which blocks `gensack` reports when
there are too many; it reports any of them. `Trim`, `reass` and `Accept` are
the receiver's side of `FullTcpAgent::recv`. `Reassembly` drives them with
every segment of a short stream, in any order and any number of times, and
keeps the set of bytes that arrived as the reference.

### Transfer, FlowTransfer, MCFlowTransfer
`FlowTransfer` is the established connection between a sending and a receiving
`MinTcpAgent`. `Transfer` is what the application sees of it: bytes go in,
come out in order, and the end of a flow is reported once, after its last byte
came out (`ImplementsTransfer` is the refinement; delivered bytes are
`rq_.nxt`).

| Action | Code |
|---|---|
| `StartFlow`, `NextChunk` | `sendmsg` with DAT_NEW, without a flag, with DAT_EOF: `soft_reset`, `advance_bytes`, the rewind of `rtx_on_eof_`, `reset_window_on_eof_` |
| `RecvData` | `recv` at the receiver: data, `reass`, the ACK with SACK blocks |
| `RecvAck`, `SenderStep` | `recv` at the sender: `process_sack`, `newack`, duplicate ACKs, `pack_action`, `send_much` with `nxt_tseq` and `foutput`, `bufferempty` |
| `Timeout` | `timeout`, `timeout_action`, probe mode |

A handler runs to its end before the next event. The loops of a handler (the
blocks of a SACK, the packets of a `send_much`) are steps of their own; `job`
holds what is left to do and nothing else happens meanwhile.

### TcpConnection, MCTcpConnection
Two `FullTcpAgent`s, one that connects and one that listens, through the ten
states of `TcpState`. `agent[e]` is the control block; each handler is an
operator from a control block (and a packet) to the control block afterwards,
in which `out` collects what it has sent, composed as the code composes its
functions. The branches of `recv` are operators (`Received` by state, `Segment`
for trimming and the ACK, `AfterAck` for `process_ACK`, `Step6`, `AfterFin`)
that end in a `Goto` to one of its labels; `Finish` is what follows the label:
`send_much` and the passive close. The fast path of `recv` (header prediction) does the same as
the slow path to the state that is modelled and is not told apart.

| Action | Code |
|---|---|
| `sendmsg` | `sendmsg` with or without MSG_EOF, `advance_bytes`, `connect` |
| `Close` | `usrclosed` by an application all of whose data have gone out once, also while some of them are being sent again (`t_seqno_` rewound) |
| `Recv` | `recv` in every state, with the passive close at its end |
| `timeout` | `timeout`, `timeout_action` |

### CeEcho, MCCeEcho
Marks set by the ports, echoed by the receiver (`EcnhatReceiverCETracker`,
`AFabricReceiverCETracker`), counted by the sender (`alpha`) and reacted to. `Output`,
`Retransmit`, `Announce` (DAT_EOF) and `Timeout` are the sender's events,
`RecvData` and `RecvAck` the handlers, with `send_immediate_ack_with_previous_ce`
inside `RecvData`. `RecvAck` either counts the ACK and reacts to its mark or not
(`Counts`), or is the duplicate ACK that meets the threshold (`DupAck`):
`dupack_action` with its `fast_retransmit`, which sends the segment again and
sets `recover_` and `last_cwnd_action_` whatever the last action was. Data are
counted in segments. One variable of the initial
state chooses the trackers, another whether the network keeps the order.

### TimerHandler, ChunksApp
`TimerHandler` is `TimerHandler` and the part of `Scheduler` that refuses an
event twice; an `abort()` is the status `ABORT`. `ChunksApp` is
`ChunksApplication`, with every choice of random times: `send` draws and sorts
the chunks, `Expire` is the timer with `send_next_chunk`, `SendWhole` the flow
handed over at once (also `PIASApplication`), `Done` the report of the agent.
A flow without chunks throws, which `thrown` records.

### ConnectionPool
`Agent_Aggr_pair` and `TCP_pair` of `tcp-common-opt.tcl`: `init_schedule`,
`start`, `check_if_behind` and `fin_notify` with `schedule` inside them, over a
clock. `exited` is "finish" at the regular end after `sim_end` flows, else the
reason why the simulation stops: "not enough flows" if `schedule` aborts it,
"command in past" if the scheduler refuses the `check_if_behind` of an arrival
that is less than the margin away. Intervals are any positive numbers, as the
exponential draws of the code are. `FailsAtStart` is the one case in which a
check does lie in the past: the first two arrivals of a group both come within
the margin after `init_schedule`.

### MCDropTail, MCPriorityQueue
The packets that arrive in the checked instances.

### DropTailProofs, PriorityQueueProofs, ReassemblyQueueProofs, FlowTransferProofs, TcpConnectionProofs, CeEchoProofs, ChunksAppProofs, ConnectionPoolProofs
Theorems and proofs, one module for each module proved about; those about
`Reassembly`, the receiving half of a connection by itself, are at the end of
`TcpConnectionProofs` (hence the names `StreamInit`, `StreamNext` and
`StreamSpec` in that module). The lemmas on packet lists are with the port that
needs them. Section 6.

## 4. Runs

| Run | Configuration | Shows |
|---|---|---|
| `droptail_ascc` | the configuration of the aSCC experiments | counters exact, conservation, work conservation, choice of the victim, dropping of stale copies, choice of the packet to mark, refinement of `LossyPort` |
| `droptail_live` | priority dropping in packets with `good_limit_`; limit 2 or 4, shrinking, reset, the exception | every packet is dropped or delivered |
| `droptail_smart` | `drop_smart_` with a history of 2, FIFO, limit 2 or 4 | the counters agree with the history; flows in order; the queue never grows to its limit |
| `priority_port` | 3 queues, per-port marking, an invalid `queue_num_` | limit, marking threshold, strict priority; every packet leaves |
| `reassembly` | a stream of 7 bytes and a FIN | delivery is the longest prefix that arrived, the queue holds exactly the rest with its byte count, FIN last, holes found |
| `flow` | two flows, chunks of 2, 2 and 3 bytes, with and without `rtx_on_eof_`, fast retransmit, pipe control, probe mode, windows of up to three segments, one loss, timeouts with a packet in flight | order of the sequence numbers; the scoreboard never claims a byte the receiver lacks; unacknowledged data always have a timer or a packet in flight; after DAT_EOF everything outstanding has a copy with the final priority; refinement of `Transfer`; each flow completes |
| `chunks` | flows of 1, 2 and 5 packets, up to 3 chunks | DAT_EOF with the last byte, the timer runs exactly while chunks are left and never aborts or is late, each flow is announced to its end |
| `pool` | one group with two connections at the start, 4 flows, intervals below and above the margin | one flow per connection, distinct flow ids; the experiment ends regularly unless its first two arrivals come within the margin (`FailsAtStart`) |
| `ce_echo` | two flows, both kinds of trackers, a network that loses and reorders or one that keeps the order | data are acknowledged at once when a mark changes, each ACK for new data echoes the mark of its packet, an announced flow reacts to urgent packets only, in order the counted bytes are the marked ones, one reaction per window |
| `connection` | segments of two bytes; either A sends 2+2 bytes with MSG_EOF and B sends 2, or A sends two segments and closes, perhaps while it sends the first one again; one loss, reordering, timeouts with a packet in flight | the ends agree on sequence numbers, no FIN overtakes data, the ACK of data is taken for the ACK of a FIN only if the FIN never went out; there are exactly three ends: both closed and silent, or one of the two others described below |
| `flow_eof` (violation) | chunks of 6 and 2 bytes, `rtx_on_eof_` | finding 1 |
| `close_rewound` (violation) | the second case of `connection` | finding 2 |

Deadlock is not checked: ports, connections and experiments rest when nothing
more is asked of them, and an aborted simulation has no next step.

### Findings

1. `flow_eof`. `sendmsg` with DAT_EOF rewinds `t_seqno_` to `highest_ack_` and
   forces an output, so that the outstanding data are sent again with their
   final priority (`tcp-full.cc:484`). In recovery from a timeout the MinTCP
   agent does not take `t_seqno_` but the next hole of the scoreboard
   (`nxt_tseq`, line 3333). With a window of one segment that hole is outside
   it, `foutput` sends nothing and prints "Forced retransmission failed!" (line
   1268). The data are not forgotten: the timer is still set (`NeverStuck`, which
   is proved for all chunks of two bytes and more), so they are sent later.
2. `close_rewound`. FIN_WAIT_2 is "have closed, fin is acked" (`tcp-full.h:47`).
   An application that closes while `t_seqno_` is rewound for a retransmission
   puts its agent in FIN_WAIT_1, but `foutput` removes the FIN because the
   segment does not empty the buffer (`tcp-full.cc:1225`). A late ACK of the
   data then equals `maxseq_` and is taken for the ACK of the FIN (line 2470):
   the timers are cancelled and the FIN is never sent. `FinIsSeen` says that
   this happens in no other way, and `ClosesQuietly` that the peer then waits in
   silence.

The experiments keep their connections open, so they can only meet the first.

### Disagreements met while modelling that no run shows

The models follow the code in each of these.

- `drop_front_` with `queue_in_bytes_` drops one packet per overflow, so a
  large arrival leaves the queue above its limit ("A bounded, drop-tail queue",
  `drop-tail.h:57`).
- `BadTrackingPacketQueue::remove` of the head counts the packet twice
  (`drop-tail.cc:85`): `num_bad_packets_` falls below the truth and good
  packets are refused early. `scripts/config.toml` meets neither of these two.
- `drop_prio` throws "byte queue length and good_prio_qlim_ are not supported"
  for a queue in packets and accepts the combination it names
  (`drop-tail.cc:277`). The experiments leave `good_limit_` at -1.
- `coalesce` of three blocks drops the flags of the right one (`rq.cc:571`),
  while `reass` is documented to return the "or" of the flags of all adjacent
  blocks (`tcp-full.cc:804`). A FIN that is lost so is only seen when it is sent
  again.
- `sack_min_` of the scoreboard moves back when an old ACK adds a block below
  it (`rq.cc:529`).
- `send_allowed` takes `curseq_` as "1 seq number past the last byte we can
  send" (`tcp-full.cc:1455`), although it is "the sequence number of the last
  byte provided by the application" (line 375). The last byte handed over is
  therefore never allowed to start a segment: a chunk of one byte that finds
  everything acknowledged is not sent and no timer is set for it, until
  something forces an output. The proof of `NeverStuck` stops at exactly this
  case, hence its hypothesis `TwoBytes` (TLC finds the same violation with
  `Flows = <<<<2, 1>>>>`). The applications hand over whole packets
  (`app-chunks.cc:108`, `tcp-common-opt.tcl:620`) and do not meet it.
- `need_send` ignores `segs_per_ack_`, which its comment describes
  (`tcp-full.cc:1618`, 1633).
- MSG_EOF on a connection that is not open is forgotten: `advance_bytes` calls
  `reset`, which clears `close_on_empty_`, while the comment on `sendmsg`
  promises a FIN (`tcp-full.cc:460`). The experiments use persistent
  connections and DAT_EOF. In `TcpConnection` the end that loses its MSG_EOF
  so is closed by `Close` or by its peer.
- `usrclosed` with data not yet sent drops them (`curseq_ = maxseq_ - 1`,
  `tcp-full.cc:553`). `Close` is therefore only taken in ESTABLISHED when all
  data have gone out once (`maxseq_ = curseq_ + 1`), wherever `t_seqno_` is; an
  application that gave MSG_EOF leaves the close to `foutput`, and one whose
  peer has closed (CLOSE_WAIT) to the end of `recv`.
- Two ends that close at the same time answer each other's early FIN+ACK with
  a FIN+ACK for as long as data before the FINs are missing; the exchange ends
  when the data arrive.
- A FIN is acknowledged even in CLOSED, or its sender would "retransmit the FIN
  forever" (`tcp-full.cc:1717`). All else is dropped there, and in the closing
  states `send_much` sends one segment per timeout (line 1438). An agent whose
  last ACKs were lost and that has to send data again before its FIN therefore
  does so for ever. This is the third end in `ClosesQuietly` (`Unheard`).
- "The test for $tnext can only pass if $tnext has not changed"
  (`tcp-common-opt.tcl:637`). If a connection has taken the arrival and the
  interval drawn next is below the margin, the test passes for the next arrival
  and `check_if_behind` opens a connection that nobody waits for. `pool` goes
  through this case: the experiment still ends.
- `[lindex 0 $group_id]` has its arguments swapped (`tcp-common-opt.tcl:361`,
  645), so the seed of an application does not depend on its group as the
  formula intends. The models allow every random choice.

### Mutants

Every property of a passing run has a mutant: an alternative form of one
definition with a plausible slip (`Mut...`, defined just before the original),
under which the property fails.

## 5. Bounds and fairness

Ports:
- **Arrivals** (`MaxPackets`, 4 or 5). The longest interplay in the code needs
  four packets: one on the wire, a stale copy, a newer packet of the same flow
  behind it, and a packet of another flow competing for room. Five leave one
  more arrival to overflow.
- **Flows**: two, one to be reordered and one to compete with. They are not
  declared symmetric because the shapes differ by flow.
- **Sizes**: 1 and 3 (header and segment) make "one packet out is not room
  enough" happen. The limit of 8 holds two segments and a header; with the
  exclusive comparison of `will_overflow` the third segment overflows.
- **Priorities**: the lowest, two urgent ones and 0 for ACKs.
- **CoS queues**: three, the priorities 0 to 2 and one beyond the last queue.
- **Limits** 2/4, so that the limit falls below the occupancy.

Transport:
- `Last` = 7 bytes give three separate blocks and segments that cover or
  bridge two of them.
- Segments of two bytes, so that a probe of one byte or an odd chunk shifts
  every later cut.
- `Messages` of `TcpConnection` is a set of scripts for the two applications;
  the initial state chooses one.
- `MaxWin`: each `send_much` finds any window from one to `MaxWin` segments,
  whatever congestion control made of it; two or three segments suffice for a
  hole with data behind it.
- `MaxLoss`: loss is decided when a packet is sent. One loss is enough for a
  retransmission to race late packets; the theorems have no bound on it.
- `MaxSpurious`: how many packets may be in flight when the timer expires, one
  (two in `flow_eof`):
  a timeout then races a late packet or ACK. Without the bound timeouts
  would fill the network without end.
- `MaxRtx` in `CeEcho`: one retransmission of a segment that may still arrive.

Applications and harness: `Spread` and `Intervals` of a few instants make equal
and unequal times happen; `MaxFlows`, `MaxTime` and `sim_end` let a flow begin
while events of the last are pending. `Margin` is three units and the intervals
are 1 and 4: two small draws together stay below the margin, three reach it, and
a large one lies above, so that all ways in which an arrival, the check before
it and a completion can follow each other happen. One group is enough for the
timing, since groups share only the counters; with four flows a connection that
was opened late gets a second flow. That flow ids are distinct across groups too
is proved (`FlowIdsAreUnique`).

**Fairness.** The scheduler runs each event it holds, as all have a finite time
and time advances. So: weak fairness of `Resume`, `Deliver` and `ResetStep`
(ports), of arriving data, arriving ACKs, the steps of a running handler and
the timer (`FlowTransfer`), of timers, clock and events (`ChunksApp`,
`ConnectionPool`). Arrivals, scripts and resets at a port have no fairness. In
`FlowTransfer` and in `TcpConnection` the application goes on with what it has
begun. In `ChunksApp` and `ConnectionPool` a flow that was started is completed
at some time: that is what `FlowsComplete` shows. In `TcpConnection` fairness is
written without ENABLED; packets of each length arrive (a packet does not wait
for others, so an endless exchange of ACKs cannot hold up data), the
application at A hands over its messages and then closes, and the timer has
strong fairness because `MaxSpurious` suspends it while packets are in flight.

## 6. Proofs

TLAPS proves the following for every value of the constants that satisfies the
assumptions: any number of packets, flows, connections and losses, any sizes,
limits and windows, every combination of flags.

| Theorem | States | Hypothesis |
|---|---|---|
| `DropTailProofs!TypeCorrect`, `ByteCounterExact`, `PacketsConserved`, `LinkNeverIdles`, `FlowsInOrder` | `TypeOK`, `BytesAgree`, `Conservation`, `WorkConserving`, `FlowOrder` | - |
| `CountsExact`, `OnlyStaleDropped`, `MarksLeastUrgent` | `SqCountsAgree`, `OnlyStaleCopiesDropped`, `MarksWorst` | - |
| `LimitHolds` | `GrowsWithinLimit` | `RoomIsMade` |
| `LeastUrgentDropped` | `VictimIsWorst` | `PriorityDropping` |
| `ImplementsLossyPort` | `PortSpec`, the refinement of `LossyPort` | `keep_order_` or no `deque_prio_` |
| `PriorityQueueProofs!PiasTypeCorrect`, `PiasConserves`, `PiasBounded`, `PiasMarks` | `TypeOK`, `Conservation`, `BoundedInBytes`, `UnmarkedWithinThresh` | - |
| `PiasOrder`, `PiasNeverIdles` | `NoOvertaking`, `NoIdleLink` | `FixedQueues` |
| `ReassemblyQueueProofs!AddAdds`, `CleartoClears`, `NextholeFinds`, `AcceptAccepts` | what `add`, `clearto`, `nexthole` and the receiver's path through `reass` return | arguments are a queue with separated blocks |
| `TcpConnectionProofs!PrefixDelivered`, `RestIsQueued`, `FinComesLast`, `HolesFound` | `DeliversPrefix`, `QueueHoldsRest`, `FinIsLast`, `HolesAreFound` | - |
| `FlowTransferProofs!NumbersInOrder`, `ScoreboardIsTrue`, `UrgentCopies` | `SeqOrder`, `ScoreboardTrue`, `UrgentCopyExists` | - |
| `TimerCovers` | `NeverStuck` | `TwoBytes` |
| `FlowRefines` | `ImplementsTransfer`, the refinement of `Transfer` | - |
| `TcpConnectionProofs!ConnectionCorrect` | the inductive invariant `ConnectionInv` | - |
| `EndsSynchronized`, `NothingIsLost`, `FinWasSeen` | `Synchronized`, `NothingLost`, `FinIsSeen` | - |
| `CeEchoProofs!NothingPending`, `EchoIsTrue`, `ReactionsJustified`, `MarksCounted`, `ReactsOncePerWindow` | `AckedAtOnce`, `EchoesMark`, `ReactsToUrgent`, `CountsExactly`, `OncePerWindow` | - |
| `ConnectionPoolProofs!FlowIdsAreUnique`, `OneFlowPerConnection`, `PoolNeverAborts` | `FidsDistinct`, `OneFlowEach`, `NeverAborts` | - |
| `ChunksAppProofs!EofIsLast`, `TimerKept` | `EofWithLastByte`, `TimerRunsForRest` | - |

**Assumptions**, which TLC evaluates in each run: `SizeAssumption` (header and
segment sizes are positive integers, the header the smaller one);
`ConfigAssumption`, `PriorityAssumption`, `LastAssumption`, `EchoAssumption`
(types of the parameters; each flow of `CeEcho` ends behind the one before);
`FlowAssumption` (types; a flow has at least one chunk and no chunk is empty,
for which `ChunksApplication` throws); `ConnectionAssumption` (types; an
application hands over at least one byte at a time); `ChunksAssumption` (types; flows are
whole packets, as `schedule` makes them); `PoolAssumption` (finitely many groups,
a positive margin, and positive intervals, however small).

**Hypotheses.** Each excludes configurations in which the code does not have
the property, and the configurations of the experiments satisfy all of them.
`RoomIsMade` excludes `drop_front_` and `drop_smart_` with a limit in bytes,
which drop one packet however large the arrival is, and `good_prio_qlim_` with
a limit in packets. `PriorityDropping` asks for `drop_prio_` without
`drop_front_`, which wins over it, and for priorities of at least 0, because
`drop_prio` never picks a victim below 0. `FixedQueues` says that `queue_num_` never changes.
`TwoBytes` says that no chunk has a single byte (section 4 says why).

**DropTail.** The inductive invariant `PortInv` is the conjunction of the type
invariant, `BytesAgree`, `Conservation`, `WorkConserving` and `FlowOrder`. The
order of flows needs conservation (ids on the list, sent and dropped are
disjoint and below `nextid`), so that a new arrival follows everything;
conservation needs the type invariant. Each outcome of `enque` and `deque` is
characterised by a lemma (what was taken off the list, what was lost, what is
handed over), and the actions only combine those: the lemmas on the chosen
packet are where `keep_order_` matters (`IsChosen` returns a packet with no
blocker of its flow ahead of it, and everything of its flow that was ahead is
in the dropped set). The action properties and the refinement follow from
`PortInv` with further lemmas on the same outcomes. In the refinement an arrival
at an idle link is an arrival that may also be transmitted, and a packet that
overtook another one of its flow could not be mapped, which is why it needs the
same hypothesis as `FlowOrder`. `VictimIsWorst` also needs that the priorities
on the list are the ones of arrival. `SqCountsAgree` is inductive by itself: a
packet served appends one entry to the history and removes at most the first.

**Priority.** `PiasInv` adds `Placed`: every waiting packet is on the queue to
which `clamp_priority` maps it. Without it strict priority says nothing about
priorities, only about queue numbers. A packet that is served has no packet on
an earlier queue and is the oldest on its own, so whatever waits and is older
has a larger queue number and hence, clamping being monotone, a larger priority
value. `Placed` is invariant only while `queue_num_` does not change; the same
holds for `NoIdleLink`.

**Reassembly queue.** A queue is `Good` if its blocks are separated by gaps.
`Adds`, `Clears`, `Hole` and `Accepts` say what an operation should return in
terms of the set of bytes, and each theorem shows it for every good queue. The
proof of `add` follows its parts backwards: `link` under the condition
`Linkable`, then `stretch`, which reaches it with what is left of the segment,
then `place`, then the pass over covered blocks. Coalescing joins a block with
at most two neighbours because every other block is behind a gap. A flag is
tracked through all of it (`FinAt`: a FIN sits on a block that ends behind the
last byte), so that `FinIsLast` does not depend on the order of arrival. Where
a fact would be proved by induction over the list (its first block, the block
before a number), the proof takes a smallest or largest element instead.
`StreamInv` adds `StreamOpen` to the properties of `Reassembly`: before the FIN
is seen the blocks lie behind the gap at `rcv_nxt_`.

**FlowTransfer.** The inductive invariant `FInv` has a part for each piece of
state, and none can be left out:
- `SacksTrue`: every SACK block in flight or being processed reports bytes the
  receiver has. The truth of the scoreboard (`ScoreOK`) needs it, and it is
  stable because what the receiver has only grows, so old ACKs cannot lie.
- `ReceiverOK`: the blocks of the receiver's queue are behind `rcv_nxt_`, below
  what was sent and not empty.
- `NumbersOK`: `SeqOrder`, and `recover_ <= maxseq_` and
  `h_seqno_ >= highest_ack_`: a hole left over from before the last ACK would
  otherwise be sent again.
- `TimerOK`: no timer means that all that was sent is acknowledged and recovery
  is over.
- `AppOK`, `JobOK`: how far the application is, and what the running handler
  has left to do; `signal_on_empty_` is set exactly while the end of a flow is
  announced and not yet reported.

A handler is several steps, so each lemma states what one step does to the parts
it changes (`foutput`, `newack`, `process_sack`, a timeout). For `NeverStuck`
`SendsSoon` covers the steps between handing over data and sending it: without
a timer the running handler is a `send_much` that will send. It is there that
a last byte refused by `send_allowed` breaks the argument. The refinement maps a
flow's report to `Transfer`'s: `bufferempty` means that `highest_ack_` is behind
`curseq_`, and since `highest_ack_ <= rcv_nxt_ <= maxseq_ <= curseq_ + 1`
everything handed over has come out.

**TcpConnection.** None of the three properties is inductive, nor is their
conjunction: an ACK in flight could name bytes that were never received, or a
FIN a place before the end of the data. `ConnectionInv` is about both agents and
the packets between them:
- `Shape`: the sequence numbers an agent has in each of the ten states. The end
  of its data is fixed once it has closed (`Top`), and an agent that has
  not connected, or has been reset, has none (`Idle`). The FIN may still be held
  back then, or never be sent, if the close came during a retransmission
  (`Closing` and `Over` allow `maxseq_` to end with the data or with the FIN);
  only in LAST_ACK it has always gone out.
- `PacketOK`, `Heard`: a packet in flight is true of its sender as the sender is
  now, not only as it was: its data end below `Top`, a FIN sits exactly there,
  its ACK names no more than the sender has received. This is stable because
  the sender only moves forward (`Grows`), with one exception: after
  `LAST_ACK` an agent is reset to the numbers of a new one. From then on its
  packets are bound by nothing, so the proof must show that they do no harm.
- `Numbers`, `Stream`: what one end has received against what the other has
  sent: `rcv_nxt_` between the peer's `highest_ack_` and `maxseq_`, the blocks
  in the queue below `Top`, a FIN in the queue only at `Top` and only if it was
  sent; everything delivered once the FIN has been seen.
- `Endings`: if an agent closed second (it is in `LAST_ACK`, or was reset after
  it), its peer has closed and waits for no ACK of its FIN when the other FIN
  arrives; once an agent was reset its peer is `CLOSED`, so that stray packets
  of the reset agent can only be dropped or answered by one more ACK.
- `Quiet`: between two events everything has been sent, and in `CLOSE_WAIT`
  something is unacknowledged: `recv` closes passively in the event in which
  the last ACK arrives, after a `send_much` that is forced and so leaves nothing
  for `usrclosed` to cut off (`Drained`).

The proof follows the composition of the handlers. `SendMuch` is the loop of
`send_much`: it is a recursive function, each turn sends one segment or
ends it (`TurnIs`) and keeps the shape of each group of states (`TurnOpen`,
`TurnClosing`, `TurnOver`, `TurnIdle`, `TurnOpening`). Then one lemma for each
part of `recv` (an ACK, data and FIN by way of `AcceptAccepts`, a SYN in each of
the early states, the end of the handler with its output and passive close),
for `usrclosed`, `connect`, `sendmsg` and the timeout, each from two agents that
fit (`World`) to two agents that fit. The last lemmas put the packets sent on the
network and lose some of them (`DoneKeeps`). `FinIsSeen` follows from `Numbers`:
in FIN_WAIT_2 everything up to `maxseq_` is acknowledged, which includes the FIN
if it went out. TLC checked `ConnectionInv` as an invariant on five small
instances before it was proved.

**CeEcho.** `EchoInv` says that the receiver never owes an ACK (`Answered`),
that every echo in the tracker and in flight has a mark behind it (`Marks`),
that a reaction protects its window (`Window`: until a timeout, `recover_` stays
at or behind the end of what had been sent at the reaction, since a fast
retransmit overwrites it only with a later one, and `last_cwnd_action_` is never
TIMEOUT), and, on a network that keeps
the order, that data and ACKs in flight are exactly the missing numbers, once
each, with the mark of their segment (`DataInOrder`, `AcksInOrder`). The count
of marked bytes then follows ACK by ACK.

**ConnectionPool.** `PoolInv` says that each connection waits for at most one
start and not while it has a flow (`OneStart`, `Free`), that no connection is
forgotten while flows are generated (`Busy`), and that the next arrival of a
group lies ahead with a `check_if_behind` scheduled before it (`Ahead`), so
that `schedule` never finds the arrival in the past, and puts the check of the
next arrival behind the one that is waiting, however small the draw. Only the
first call of `schedule` for a group has no check to lean on: that is where the
second arrival may lie within the margin (`FailsAtStart`), and `NeverAborts`
says that nothing else ends the simulation. Flow ids are distinct
because each group numbers its connections in a block of its own at the start
and draws from one counter later.

**ChunksApp.** `AppInv` says that the timer is pending exactly while the
application waits, and that then `cur_chunks_` is a permutation of the chunks
that were generated, sorted by time, of which those before `next_chunk_idx_`
have the size that the agent got, and that the next one is not in the past. The
proof avoids the sum of a sequence: a chunk has `chunk_size_pkts` packets or one
more, so a prefix of a permutation has a size that depends on its length and
on how many of its chunks are bigger, and all of them together are as many as
`num_bigger_chunks` because a permutation is a bijection. That the sum which
`generate_chunks` compares with the size of the flow is right, so that it does
not throw, is a fold and left to TLC (`EveryFlowDone`).

Sums of sizes at the ports are written as a combination of the cardinalities
of the two size classes (`Bytes`), so the lemmas on adding and removing packets
follow from the library's theorems on finite sets; a fold would require
induction that the provers do not offer.

No run checks the type invariants of the ports, `Conservation` and `NoIdleLink`
of the PIAS port, `drop_front_`, or a `queue_num_` that falls under load: the
theorems cover them for every configuration.

**Only model-checked**: liveness, which is beyond the prover
(`EveryPacketLeaves`, `FlowsComplete`, `EveryFlowDone`, `SimulationEnds`,
`ClosesQuietly`), and the sum of the chunks of a flow, a fold that would need an
induction (`EveryFlowDone`).

## 7. Abstractions and omissions

Ports:
- Time is left out: any order of the scheduled events is possible. This
  includes orders that the bandwidths of a concrete network would exclude.
- `unblock_on_resume_` has its default, 1.
- The hash of a flow key is taken to be free of collisions.
- Statistics (utilisation, average length), tracing, `packetqueue-attach`
  and the `dynamic_` and `avoidReordering_` modes of the link are left out; no
  experiment uses them and none changes what is queued.
- Arrivals carry arbitrary priorities per packet. The transport sends a
  restricted pattern (bad until the end of the flow is known, then falling
  with the remaining size), so the port is checked under more than it meets.
- `num_bad_packets_` starts at 0: the object is value-initialised.

Transport:
- Nagle's algorithm is off (`nodelay_`, as the scripts set it), the test for
  segments of half the window, `infinite_send_`, `data_on_syn_`, `overhead_`,
  `maxburst_` and the delayed-ACK timer are left out: every data packet is
  acknowledged at once, as `need_send` makes the code do.
- The congestion window, RTT estimation and backoff are not numbers; only when
  the window is reduced (`CeEcho`) and that the timer expires matter.
- In `TcpConnection` duplicate ACKs never reach their threshold and there is
  no SACK; `FlowTransfer` has both, on an established connection.
- Packets are not duplicated by the network; copies come from retransmission.
- `CeEcho`: a complete duplicate that is not marked leaves the tracker as it
  was, so `EchoesMark` speaks of new data; `is_low_prio_` is never reset
  between flows. Marks on ACKs, negotiation of ECN, the classic (`Normal`)
  trackers and D2TCP's deadlines are left out.
- Deadlines and the computation of priorities are left out; a data packet only
  has the lowest priority or its final one.

### Not modelled

- Everything marked `not_modelled` in `PROJECT.json`.
- The rest of ns-2 (routing, wireless, satellite, sensor networks, SCTP, DSR,
  the other queues and transports) is vendored, unchanged by this repository and
  not reached by its experiments. It is most of the lines of the repository,
  and modelling it would say nothing about aSCC.
- The batch runner and the plots read and write files.
