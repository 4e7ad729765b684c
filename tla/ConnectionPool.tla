---------------------------- MODULE ConnectionPool ----------------------------
(***************************************************************************)
(* The traffic generator of the experiments (Agent_Aggr_pair and TCP_pair   *)
(* in scripts/tcp-common-opt.tcl).  Each group (source, destination) draws  *)
(* arrival times tnext; a finished connection takes the next arrival, and   *)
(* check_if_behind, run shortly before the arrival, opens a connection when *)
(* none has taken it.  The network finishes a flow at any time.             *)
(*                                                                         *)
(* Events of the simulator's scheduler are [at, pid] and instants, counted   *)
(* from the time of init_schedule.  The intervals are exponential draws, so  *)
(* any positive one may come, far below the margin 0.0000001 too.           *)
(***************************************************************************)
EXTENDS Integers, FiniteSets

CONSTANTS
    Groups,
    connections_per_pair,    \* the connections a group starts with
    sim_end,                 \* how many flows the experiment runs
    Margin,                  \* 0.0000001 s, in units of the clock
    Intervals                \* the values rv_flow_intval may take

ASSUME PoolAssumption ==
    /\ IsFiniteSet(Groups) /\ Intervals \subseteq Nat \ {0}
    /\ {connections_per_pair, sim_end, Margin} \subseteq Nat \ {0}

VARIABLES
    now,
    tnext,            \* [Groups -> Nat] the next arrival
    starts,           \* the events "$apair($pid) start", sets of [at, pid]
    checks,           \* the events "$self check_if_behind", sets of instants
    pairs,            \* the flow id of each connection of a group, from 0
    uninit,           \* the connections init_schedule has still to schedule
    init_fid,
    active,           \* the connections with a flow in progress
    flow_gen, flow_fin,
    exited            \* "no", "finish", or why the simulation stops

evVars == <<tnext, starts, checks>>
vars == <<now, evVars, pairs, uninit, init_fid, active, flow_gen, flow_fin, exited>>

nr_pairs(g) == Cardinality(DOMAIN pairs[g])

\* The setup of the groups, one after the other, in the order of `nth', and
\* init_schedule's first draw.  Each group's flow ids follow those before.
Init ==
    /\ now = 0
    /\ tnext \in [Groups -> Intervals]
    /\ starts = [g \in Groups |-> {}] /\ checks = [g \in Groups |-> {}]
    /\ \E nth \in [Groups -> 0 .. Cardinality(Groups) - 1] :
          /\ \A g, h \in Groups : nth[g] = nth[h] => g = h
          /\ pairs = [g \in Groups |-> [pid \in 0 .. connections_per_pair - 1 |->
                                           nth[g] * connections_per_pair + pid]]
    /\ uninit = [g \in Groups |-> 0 .. connections_per_pair - 1]
    /\ init_fid = Cardinality(Groups) * connections_per_pair
    /\ active = {} /\ flow_gen = 0 /\ flow_fin = 0 /\ exited = "no"

\* Mutant: check_if_behind runs after the arrival.
MutCheckTime(t) == t + Margin

CheckTime(t) == t - Margin

\* schedule: the connection takes the arrival tnext and the next one is drawn.
\* `left' are the check events that stay in the scheduler's queue.  The scheduler
\* refuses a command in the past, which ends the simulation as the abort does.
schedule(g, pid, left) ==
    IF flow_gen >= sim_end \/ now > tnext[g]
    THEN /\ exited' = IF flow_gen >= sim_end THEN exited ELSE "not enough flows"
         /\ checks' = [checks EXCEPT ![g] = left]
         /\ UNCHANGED <<starts, tnext>>
    ELSE \E dt \in Intervals :
            LET t == tnext[g] + dt
                late == CheckTime(t) < now
            IN /\ starts' = [starts EXCEPT ![g] = @ \cup {[at |-> tnext[g], pid |-> pid]}]
               /\ tnext' = [tnext EXCEPT ![g] = t]
               /\ exited' = IF late THEN "command in past" ELSE exited
               /\ checks' = [checks EXCEPT ![g] =
                                IF late THEN left ELSE left \cup {CheckTime(t)}]

\* One turn of the loop of init_schedule.
init_schedule(g) ==
    /\ exited = "no" /\ uninit[g] # {}
    /\ \E pid \in uninit[g] :
          /\ \A other \in uninit[g] : pid <= other
          /\ schedule(g, pid, checks[g])
          /\ uninit' = [uninit EXCEPT ![g] = @ \ {pid}]
    /\ UNCHANGED <<now, pairs, init_fid, active, flow_gen, flow_fin>>

Running == exited = "no" /\ \A g \in Groups : uninit[g] = {}

\* TCP_pair start: nothing is sent once enough flows have been generated.  Every
\* flow counts: init_schedule runs at time 1, so that none starts before 0.2.
start(g, ev) ==
    /\ Running /\ ev \in starts[g] /\ ev.at = now
    /\ starts' = [starts EXCEPT ![g] = @ \ {ev}]
    /\ IF flow_gen >= sim_end THEN UNCHANGED <<flow_gen, active>>
       ELSE /\ flow_gen' = flow_gen + 1
            /\ active' = active \cup {<<g, ev.pid>>}
    /\ UNCHANGED <<now, tnext, checks, pairs, uninit, init_fid, flow_fin, exited>>

\* The flow is done: fin_notify of the TCP_pair and of its group.
fin_notify(g, pid) ==
    /\ Running /\ <<g, pid>> \in active
    /\ active' = active \ {<<g, pid>>}
    /\ flow_fin' = flow_fin + 1
    /\ IF flow_fin' >= sim_end
       THEN exited' = "finish" /\ UNCHANGED evVars
       ELSE schedule(g, pid, checks[g])
    /\ UNCHANGED <<now, pairs, uninit, init_fid, flow_gen>>

\* The arrival that is due has not been taken.
Behind(g) == flow_gen < sim_end /\ tnext[g] < now + 2 * Margin

\* Mutant: the new connection takes the number of the last one.
MutNewPair(g) == nr_pairs(g) - 1

NewPair(g) == nr_pairs(g)

\* Mutant: the flow id is not counted on.
MutNextFid == init_fid

NextFid == init_fid + 1

\* The connections f with one more, number pid, that has the flow id fid.
WithPair(f, pid, fid) ==
    [p \in DOMAIN f \cup {pid} |-> IF p = pid THEN fid ELSE f[p]]

\* A connection is opened if the arrival is due and nobody has taken it.
check_if_behind(g) ==
    /\ Running /\ now \in checks[g]
    /\ IF Behind(g)
       THEN /\ pairs' = [pairs EXCEPT ![g] = WithPair(@, nr_pairs(g), init_fid)]
            /\ init_fid' = NextFid
            /\ schedule(g, NewPair(g), checks[g] \ {now})
       ELSE /\ checks' = [checks EXCEPT ![g] = @ \ {now}]
            /\ UNCHANGED <<pairs, init_fid, starts, tnext, exited>>
    /\ UNCHANGED <<now, uninit, active, flow_gen, flow_fin>>

\* The scheduler's clock moves on when no event is left at this instant.
Tick ==
    /\ Running
    /\ \E g \in Groups : starts[g] # {} \/ checks[g] # {}
    /\ \A g \in Groups : now \notin checks[g] /\ \A ev \in starts[g] : ev.at # now
    /\ now' = now + 1
    /\ UNCHANGED <<evVars, pairs, uninit, init_fid, active, flow_gen, flow_fin, exited>>

Step(g) == \/ init_schedule(g)
           \/ \E ev \in starts[g] : start(g, ev)
           \/ \E pid \in DOMAIN pairs[g] : fin_notify(g, pid)
           \/ check_if_behind(g)

Next == Tick \/ \E g \in Groups : Step(g)

Spec == Init /\ [][Next]_vars

\* The scheduler runs every event, and every flow completes (FlowTransfer's
\* FlowsComplete).
FairSpec ==
    /\ Spec /\ WF_vars(Tick)
    /\ \A g \in Groups :
          /\ WF_vars(init_schedule(g)) /\ WF_vars(check_if_behind(g))
          /\ WF_vars(\E ev \in starts[g] : start(g, ev))
          /\ WF_vars(\E pid \in DOMAIN pairs[g] : fin_notify(g, pid))

-----------------------------------------------------------------------------
(* Properties *)

\* Type invariant.  Flow ids are counted up, and no more flows start than the
\* experiment runs.
TypeOK ==
    /\ now \in Nat /\ tnext \in [Groups -> Nat] /\ init_fid \in Nat
    /\ \A g \in Groups :
          /\ DOMAIN pairs[g] = 0 .. nr_pairs(g) - 1
          /\ \A pid \in DOMAIN pairs[g] : pairs[g][pid] \in 0 .. init_fid - 1
          /\ \A ev \in starts[g] : ev.pid \in DOMAIN pairs[g] /\ ev.at >= now
          /\ \A t \in checks[g] : t \in Nat /\ t >= now
          /\ uninit[g] \subseteq DOMAIN pairs[g]
    /\ active \subseteq Groups \X (0 .. init_fid)
    /\ flow_fin + Cardinality(active) = flow_gen /\ flow_gen <= sim_end
    /\ exited \in {"no", "finish", "not enough flows", "command in past"}

\* While flows are generated, a connection that has been scheduled waits for
\* exactly one start or has a flow in progress: no connection is lost, and
\* none is asked for a flow while the last one runs, on which the chunk timer
\* of its application relies.
OneFlowEach ==
    /\ TypeOK
    /\ Running /\ flow_gen < sim_end =>
        \A g \in Groups : \A pid \in DOMAIN pairs[g] :
            Cardinality({ev \in starts[g] : ev.pid = pid})
              + (IF <<g, pid>> \in active THEN 1 ELSE 0) = 1

\* No two connections share a flow id, although setup counts a copy of init_fid
\* and check_if_behind the global one: the ports tell flows apart by it.
FidsDistinct ==
    \A g, h \in Groups : \A p \in DOMAIN pairs[g], q \in DOMAIN pairs[h] :
        pairs[g][p] = pairs[h][q] => g = h /\ p = q

\* The first two arrivals of the group come less than the margin after
\* init_schedule: the check before the second lies in the past.
TooClose(g) ==
    /\ now = 0 /\ flow_gen = 0 /\ tnext[g] < Margin
    /\ uninit[g] = 1 .. connections_per_pair - 1

FailsAtStart == exited = "command in past" /\ \E g \in Groups : TooClose(g)

\* The experiment ends: sim_end flows finish and no event is left waiting, unless
\* it fails before its first event.  So the abort "Not enough flows !" of schedule
\* is never reached, and no draw, however small, puts a command in the past once
\* init_schedule is through: check_if_behind has always moved tnext on before a
\* connection that finishes could find it behind the clock.
SimulationEnds == <>(exited = "finish" \/ FailsAtStart)
=============================================================================
