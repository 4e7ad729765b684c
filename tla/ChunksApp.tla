------------------------------ MODULE ChunksApp ------------------------------
(***************************************************************************)
(* The applications of the experiments (apps/app-chunks.cc, app-pias.cc):   *)
(* the harness asks for flows one after the other; ChunksApplication splits *)
(* a flow into chunks with random times and hands them to the TCP agent     *)
(* with a timer, or hands the flow over at once, as PIASApplication always  *)
(* does.  The agent is what FlowTransfer models: it reports a flow done at  *)
(* some time after DAT_EOF, and only then does the harness ask for the next *)
(* (ConnectionPool).                                                       *)
(***************************************************************************)
EXTENDS Naturals, Sequences, SequencesExt, TimerHandler

CONSTANTS
    packet_size_bytes_, max_num_chunks_,
    use_alpha,       \* what check_if_using_alpha() may answer
    Sizes,           \* the flow sizes of the harness, in bytes
    Spread,          \* alpha_ * packet_time * num_packets, in time units
    MaxFlows,        \* bound: the number of flows
    MaxTime          \* bound: the last instant

ASSUME ChunksAssumption ==
    /\ {packet_size_bytes_, max_num_chunks_} \subseteq Nat \ {0}
    /\ use_alpha \subseteq BOOLEAN
    /\ Sizes \subseteq Nat \ {0} /\ \A n \in Sizes : n % packet_size_bytes_ = 0
    /\ {Spread, MaxFlows, MaxTime} \subseteq Nat

VARIABLES
    clock,
    cur_chunks_, next_chunk_idx_, timer,
    thrown,            \* generate_chunks threw or divided by zero
    flow, size,        \* the flow in progress and its size
    bytes, eof,        \* what the agent got since DAT_NEW: bytes and DAT_EOF
    done               \* the flows the agent has reported done

appVars == <<cur_chunks_, next_chunk_idx_, timer, thrown>>
vars == <<clock, appVars, flow, size, bytes, eof, done>>

Init ==
    /\ clock = 0 /\ cur_chunks_ = <<>> /\ next_chunk_idx_ = 0
    /\ timer = IdleTimer /\ thrown = FALSE
    /\ flow = 0 /\ size = 0 /\ bytes = 0 /\ eof = FALSE /\ done = 0

num_packets(n) == n \div packet_size_bytes_

num_chunks(n) == IF num_packets(n) < max_num_chunks_ THEN num_packets(n)
                 ELSE max_num_chunks_

\* The size of the i-th chunk generated, counted from 1.
ChunkSize(n, i) ==
    packet_size_bytes_ * (num_packets(n) \div num_chunks(n)
                          + IF i <= num_packets(n) % num_chunks(n) THEN 1 ELSE 0)

Before(c, d) == c.time < d.time \/ (c.time = d.time /\ c.size < d.size)

\* std::sort: the results are the chunks in an order that agrees with Before.
Sorted(chunks) ==
    LET Perms == Bijection(DOMAIN chunks, DOMAIN chunks)
    IN {s \in {[i \in DOMAIN chunks |-> chunks[p[i]]] : p \in Perms} :
           \A i, j \in DOMAIN chunks : i < j => ~Before(s[j], s[i])}

TotalSize(chunks) == FoldSeq(LAMBDA c, sum : c.size + sum, 0, chunks)

\* std::vector<Chunk>, for the times drawn.
generate_chunks(n, times) ==
    Sorted([i \in 1 .. num_chunks(n) |->
               [time |-> clock + times[i], size |-> ChunkSize(n, i)]])

\* The two exceptions and the division by zero of generate_chunks.
Throws(n) ==
    \/ num_chunks(n) = 0
    \/ LET chunks == [i \in 1 .. num_chunks(n) |-> [size |-> ChunkSize(n, i)]]
       IN TotalSize(chunks) # n \/ \E i \in DOMAIN chunks : chunks[i].size = 0

\* Mutant: the last chunk is announced one too early.
MutIsLast(chunks, idx) == idx + 1 >= Len(chunks)

\* next_chunk_idx_ + 1 == cur_chunks_.size(), idx counted from 1.
IsLast(chunks, idx) == idx = Len(chunks)

\* send_next_chunk() for the chunk idx: the call of sendmsg.
send_next_chunk(chunks, idx, got) ==
    /\ bytes' = got + chunks[idx].size
    /\ eof' = IsLast(chunks, idx)
    /\ cur_chunks_' = chunks
    /\ next_chunk_idx_' = idx + 1

\* Mutant: the timer is not set for the last chunk.
MutTimerAfter(chunks, idx, t) == IF idx + 1 < Len(chunks) THEN resched(t) ELSE t

\* The end of send_next_chunk(): the timer is set for the next chunk.
TimerAfter(chunks, idx, t) == IF idx < Len(chunks) THEN resched(t) ELSE t

\* The harness asks for the next flow.
NextFlow(n) ==
    /\ flow = done /\ flow < MaxFlows /\ ~thrown /\ clock + Spread <= MaxTime
    /\ flow' = flow + 1 /\ size' = n
    /\ UNCHANGED <<clock, done>>

\* ChunksApplication::send: the agent gets DAT_NEW and the first chunk.
send(n) ==
    /\ NextFlow(n) /\ TRUE \in use_alpha
    /\ thrown' = Throws(n)
    /\ IF thrown' THEN UNCHANGED <<cur_chunks_, next_chunk_idx_, timer, bytes, eof>>
       ELSE \E times \in [1 .. num_chunks(n) -> 0 .. Spread] :
               \E chunks \in generate_chunks(n, times) :
                  /\ send_next_chunk(chunks, 1, 0)
                  /\ timer' = TimerAfter(chunks, 1, timer)

\* PIASApplication::send, and ChunksApplication::send for a flow without
\* chunks: the agent gets DAT_NEW and the whole flow with DAT_EOF.
SendWhole(n) ==
    /\ NextFlow(n) /\ FALSE \in use_alpha
    /\ bytes' = n /\ eof' = TRUE
    /\ UNCHANGED appVars

\* When the pending chunk is due.
Due == cur_chunks_[next_chunk_idx_].time

\* The scheduler runs the timer's event: handle(), expire(), send_next_chunk().
Expire ==
    /\ timer.queued /\ clock >= Due
    /\ send_next_chunk(cur_chunks_, next_chunk_idx_, bytes)
    /\ timer' = handled(TimerAfter(cur_chunks_, next_chunk_idx_, dispatch(timer)))
    /\ UNCHANGED <<clock, thrown, flow, size, done>>

\* The agent reports the flow done (done_data).
Done ==
    /\ eof /\ done < flow
    /\ done' = flow /\ eof' = FALSE
    /\ UNCHANGED <<clock, appVars, flow, size, bytes>>

\* The clock advances to the time of the scheduler's next event.
Tick ==
    /\ clock < MaxTime
    /\ timer.queued => clock < Due
    /\ clock' = clock + 1
    /\ UNCHANGED <<appVars, flow, size, bytes, eof, done>>

Next == (\E n \in Sizes : send(n) \/ SendWhole(n)) \/ Expire \/ Done \/ Tick

Spec == Init /\ [][Next]_vars

\* The scheduler runs every event, and the agent completes every flow
\* (FlowTransfer's FlowsComplete).
FairSpec == Spec /\ WF_vars(Expire) /\ WF_vars(Tick) /\ WF_vars(Done)

-----------------------------------------------------------------------------
(* Properties *)

\* Type invariant.
TypeOK ==
    /\ clock \in 0 .. MaxTime
    /\ \A i \in DOMAIN cur_chunks_ :
          cur_chunks_[i] \in [time : 0 .. MaxTime, size : Nat]
    /\ next_chunk_idx_ \in 0 .. Len(cur_chunks_) + 1
    /\ timer \in TimerType /\ {thrown, eof} \subseteq BOOLEAN
    /\ flow \in 0 .. MaxFlows /\ done \in 0 .. flow
    /\ {size, bytes} \subseteq Nat

\* DAT_EOF goes with the last byte of the flow: the agent has then got exactly
\* the flow's bytes since DAT_NEW, over all the timer's calls; before it, fewer.
EofWithLastByte ==
    /\ eof => bytes = size
    /\ done < flow /\ ~eof /\ ~thrown => bytes < size

\* The timer runs exactly while chunks are left, its event is in the scheduler's
\* queue exactly while it is PENDING, and no abort() is reached: a next flow
\* never finds the timer of the one before.  It is never set for an instant in
\* the past, which the scheduler would report as a negative delay.
TimerRunsForRest ==
    /\ TypeOK
    /\ timer.status \in {"IDLE", "PENDING"}
    /\ timer.queued <=> timer.status = "PENDING"
    /\ timer.queued <=> done < flow /\ ~eof /\ ~thrown
    /\ timer.queued => Due >= clock

\* Every flow the harness starts is announced to its end and reported done: the
\* timer's chain of events does not break, and for the flow sizes of the harness
\* (whole packets) generate_chunks neither divides by zero nor throws.
EveryFlowDone == \A f \in 1 .. MaxFlows : flow = f ~> done >= f
=============================================================================
