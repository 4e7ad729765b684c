------------------------ MODULE ConnectionPoolProofs ------------------------
(***************************************************************************)
(* Proofs about the traffic generator of module ConnectionPool, for any     *)
(* finite set of groups, any number of connections and flows, any margin    *)
(* and any positive intervals between the arrivals.                         *)
(***************************************************************************)
EXTENDS ConnectionPool, FiniteSetTheorems, TLAPS

\* schedule never gives up: "Not enough flows !" never ends the simulation, and a
\* command scheduled in the past does only in the first turn of init_schedule, for
\* a group whose first two draws together are smaller than the margin.
NeverAborts == exited \in {"no", "finish"} \/ FailsAtStart

-----------------------------------------------------------------------------
(* The inductive invariant *)

\* The shapes of the variables; the connections of a group are numbered from
\* 0 and their flow ids are below the counter.
Shape ==
    /\ now \in Nat /\ init_fid \in Nat
    /\ tnext \in [Groups -> Nat]
    /\ starts \in [Groups -> SUBSET [at : Nat, pid : Nat]]
    /\ checks \in [Groups -> SUBSET Nat]
    /\ uninit \in [Groups -> SUBSET Nat]
    /\ DOMAIN pairs = Groups
    /\ \A g \in Groups :
          /\ nr_pairs(g) \in Nat /\ nr_pairs(g) <= init_fid
          /\ pairs[g] \in [0 .. nr_pairs(g) - 1 -> 0 .. init_fid - 1]

\* Everything that names a connection names one that has been set up.
Named ==
    /\ \A g \in Groups :
          /\ uninit[g] \subseteq DOMAIN pairs[g]
          /\ \A ev \in starts[g] : ev.pid \in DOMAIN pairs[g]
    /\ \A c \in active : \E g \in Groups : \E pid \in DOMAIN pairs[g] : c = <<g, pid>>

\* Flows are counted when they start and when they finish.
Counted ==
    /\ IsFiniteSet(active)
    /\ flow_gen \in Nat /\ flow_fin \in Nat
    /\ flow_fin + Cardinality(active) = flow_gen
    /\ flow_gen <= sim_end

\* A connection waits for at most one start.
OneStart ==
    \A g \in Groups : \A e1, e2 \in starts[g] : e1.pid = e2.pid => e1 = e2

\* A connection that waits for a start has no flow and is scheduled, and one
\* that has to be scheduled has no flow.
Free ==
    \A g \in Groups :
        /\ \A ev \in starts[g] : <<g, ev.pid>> \notin active
        /\ \A ev \in starts[g] : ev.pid \notin uninit[g]
        /\ \A pid \in uninit[g] : <<g, pid>> \notin active

\* As long as flows are generated every connection that was scheduled waits for
\* a start or has a flow.
Busy ==
    flow_gen < sim_end =>
        \A g \in Groups : \A pid \in DOMAIN pairs[g] \ uninit[g] :
            <<g, pid>> \in active \/ \E ev \in starts[g] : ev.pid = pid

\* Events lie ahead.  As long as flows are generated, a group that has drawn
\* its second arrival has a check_if_behind scheduled for the arrival it drew
\* last.
Ahead ==
    /\ \A g \in Groups : /\ \A ev \in starts[g] : ev.at >= now
                         /\ \A t \in checks[g] : t >= now
                         /\ uninit[g] # {} => now = 0 /\ flow_gen = 0
                         /\ IF 0 \in uninit[g] THEN uninit[g] = 0 .. connections_per_pair - 1
                            ELSE exited = "no" /\ flow_gen < sim_end
                                   => tnext[g] - Margin \in checks[g]

PoolInv == /\ Shape /\ Named /\ FidsDistinct /\ Counted /\ OneStart /\ Free /\ Busy /\ Ahead
           /\ NeverAborts

-----------------------------------------------------------------------------
(* Lemmas *)

\* Blocks of m numbers do not overlap: number p < m of block a lies before
\* block b if a < b.
LEMMA BlocksApart ==
    ASSUME NEW a \in Nat, NEW b \in Nat, NEW m \in Nat, NEW p \in Nat, a < b, p < m
    PROVE  a * m + p < b * m
<1>1. PICK k \in Nat : b = a + 1 + k
  <2> WITNESS b - a - 1 \in Nat
  <2> QED OBVIOUS
<1>2. b * m = a * m + m + k * m
  BY <1>1
<1>3. k * m \in Nat /\ a * m \in Nat
  OBVIOUS
<1> QED BY <1>2, <1>3

\* The number of connections of a group whose connections are 0 .. n - 1.
LEMMA NumberOfPairs ==
    ASSUME NEW n \in Nat
    PROVE  Cardinality(0 .. n - 1) = n
BY FS_Interval

\* schedule takes the arrival and draws the next one, t.
Scheduled(g, pid, left, t) ==
    /\ flow_gen < sim_end /\ exited' = "no"
    /\ tnext[g] >= now /\ t - Margin >= now
    /\ starts' = [starts EXCEPT ![g] = @ \cup {[at |-> tnext[g], pid |-> pid]}]
    /\ tnext' = [tnext EXCEPT ![g] = t]
    /\ checks' = [checks EXCEPT ![g] = left \cup {t - Margin}]

\* Enough flows have been generated.
Ignored(g, left) ==
    /\ flow_gen >= sim_end
    /\ checks' = [checks EXCEPT ![g] = left]
    /\ UNCHANGED <<starts, tnext, exited>>

\* The check of the second arrival of the group lies in the past.
Refused(g, pid, left, t) ==
    /\ 0 \in uninit[g] /\ t < Margin /\ exited' = "command in past"
    /\ starts' = [starts EXCEPT ![g] = @ \cup {[at |-> tnext[g], pid |-> pid]}]
    /\ tnext' = [tnext EXCEPT ![g] = t]
    /\ checks' = [checks EXCEPT ![g] = left]

\* The arrival that schedule takes lies ahead and so does the check of the next
\* one, once the group has drawn two arrivals: a check is still to come for the
\* arrival, so that it lies the margin ahead, and the next one lies after it.
LEMMA ScheduleInTime ==
    ASSUME PoolInv, exited = "no", NEW g \in Groups, NEW pid, NEW left, schedule(g, pid, left)
    PROVE  \/ Ignored(g, left)
           \/ \E t \in Nat : Scheduled(g, pid, left, t)
           \/ \E t \in Nat : Refused(g, pid, left, t)
<1>1. /\ now \in Nat /\ tnext[g] \in Nat /\ Intervals \subseteq Nat
      /\ Margin \in Nat /\ sim_end \in Nat /\ flow_gen \in Nat
  BY PoolAssumption DEF PoolInv, Shape, Counted
<1>2. CASE flow_gen >= sim_end
  BY <1>1, <1>2 DEF schedule, Ignored
<1>3. CASE flow_gen < sim_end
  <2>1. tnext[g] >= now /\ (0 \in uninit[g] \/ tnext[g] - Margin >= now)
    <3>1. CASE 0 \in uninit[g]
      BY <1>1, <3>1 DEF PoolInv, Ahead
    <3>2. CASE 0 \notin uninit[g]
      <4>1. tnext[g] - Margin >= now
        BY <1>3, <3>2 DEF PoolInv, Ahead
      <4> QED BY <4>1, <1>1
    <3> QED BY <3>1, <3>2
  <2>2. ~(flow_gen >= sim_end \/ now > tnext[g])
    BY <1>1, <1>3, <2>1
  <2>3. PICK dt \in Intervals :
           LET t == tnext[g] + dt
               late == CheckTime(t) < now
           IN /\ starts' = [starts EXCEPT ![g] = @ \cup {[at |-> tnext[g], pid |-> pid]}]
              /\ tnext' = [tnext EXCEPT ![g] = t]
              /\ exited' = IF late THEN "command in past" ELSE exited
              /\ checks' = [checks EXCEPT ![g] =
                               IF late THEN left ELSE left \cup {CheckTime(t)}]
    BY <2>2 DEF schedule
  <2> DEFINE t == tnext[g] + dt
  <2>4. dt \in Nat /\ t \in Nat /\ t >= tnext[g] /\ CheckTime(t) = t - Margin
    BY <1>1 DEF CheckTime
  <2>5. CASE t - Margin < now
    <3>1. 0 \in uninit[g] /\ now = 0
      <4>1. 0 \in uninit[g]
        BY <1>1, <2>1, <2>4, <2>5
      <4> QED BY <4>1 DEF PoolInv, Ahead
    <3>2. t < Margin
      BY <1>1, <2>4, <2>5, <3>1
    <3>3. Refused(g, pid, left, t)
      BY <2>3, <2>4, <2>5, <3>1, <3>2 DEF Refused
    <3> QED BY <2>4, <3>3
  <2>6. CASE t - Margin >= now
    <3>1. ~(CheckTime(t) < now)
      BY <1>1, <2>4, <2>6
    <3>2. /\ exited' = "no"
          /\ starts' = [starts EXCEPT ![g] = @ \cup {[at |-> tnext[g], pid |-> pid]}]
          /\ tnext' = [tnext EXCEPT ![g] = t]
          /\ checks' = [checks EXCEPT ![g] = left \cup {t - Margin}]
      BY <2>3, <2>4, <3>1
    <3> HIDE DEF t
    <3>3. Scheduled(g, pid, left, t)
      BY <1>3, <2>1, <2>6, <3>2 DEF Scheduled
    <3> QED BY <2>4, <3>3
  <2> HIDE DEF t
  <2> QED BY <1>1, <2>4, <2>5, <2>6
<1> QED BY <1>1, <1>2, <1>3

-----------------------------------------------------------------------------
(* The initial states and the steps *)

\* The setup of the groups establishes the invariant.
LEMMA PoolInit == Init => PoolInv
<1> SUFFICES ASSUME Init PROVE PoolInv
  OBVIOUS
<1> DEFINE N == Cardinality(Groups)
           c == connections_per_pair
<1>1. N \in Nat /\ c \in Nat \ {0} /\ sim_end \in Nat \ {0} /\ Margin \in Nat \ {0}
  BY PoolAssumption, FS_CardinalityType
<1>2. PICK nth \in [Groups -> 0 .. N - 1] :
         /\ \A g, h \in Groups : nth[g] = nth[h] => g = h
         /\ pairs = [g \in Groups |-> [pid \in 0 .. c - 1 |-> nth[g] * c + pid]]
  BY DEF Init
<1> HIDE DEF N, c
<1>3. init_fid = N * c
  BY DEF Init, N, c
<1>4. ASSUME NEW g \in Groups
      PROVE  nr_pairs(g) = c /\ DOMAIN pairs[g] = 0 .. c - 1
  BY <1>1, <1>2, NumberOfPairs DEF nr_pairs
<1>5. ASSUME NEW g \in Groups, NEW pid \in 0 .. c - 1
      PROVE  pairs[g][pid] = nth[g] * c + pid /\ pairs[g][pid] \in 0 .. init_fid - 1
  <2>1. pairs[g][pid] = nth[g] * c + pid
    BY <1>2
  <2>2. nth[g] \in Nat /\ nth[g] < N /\ pid \in Nat /\ pid < c
    BY <1>1, <1>2
  <2>3. nth[g] * c + pid < N * c
    BY <1>1, <2>2, BlocksApart
  <2>4. nth[g] * c \in Nat /\ N * c \in Nat
    BY <1>1, <2>2
  <2> QED BY <2>1, <2>2, <2>3, <2>4, <1>3
<1>6. Shape
  <2>1. init_fid \in Nat
    BY <1>1, <1>3
  <2>2. ASSUME NEW g \in Groups PROVE c <= init_fid
    <3>1. 0 < N
      BY <1>2, <1>1
    <3>2. 0 * c + (c - 1) < N * c
      BY <3>1, <1>1, BlocksApart
    <3> QED BY <3>2, <1>3, <1>1, <2>1
  <2>3. ASSUME NEW g \in Groups PROVE pairs[g] \in [0 .. c - 1 -> 0 .. init_fid - 1]
    BY <1>2, <1>5
  <2>4. DOMAIN pairs = Groups
    BY <1>2
  <2>5. uninit \in [Groups -> SUBSET Nat]
    BY <1>1 DEF Init, c
  <2>6. tnext \in [Groups -> Nat]
    BY PoolAssumption DEF Init
  <2> QED BY <2>1, <2>2, <2>3, <2>4, <2>5, <2>6, <1>1, <1>4 DEF Init, Shape
<1>7. Named
  BY <1>4 DEF Init, Named, c
<1>8. FidsDistinct
  <2> SUFFICES ASSUME NEW g \in Groups, NEW h \in Groups,
                      NEW p \in DOMAIN pairs[g], NEW q \in DOMAIN pairs[h],
                      pairs[g][p] = pairs[h][q]
               PROVE  g = h /\ p = q
    BY DEF FidsDistinct
  <2>1. nth[g] * c + p = nth[h] * c + q
    BY <1>4, <1>5
  <2>2. nth[g] \in Nat /\ nth[h] \in Nat /\ p \in Nat /\ q \in Nat /\ p < c /\ q < c
    BY <1>1, <1>2, <1>4
  <2>3. nth[g] * c \in Nat /\ nth[h] * c \in Nat
    BY <1>1, <2>2
  <2>4. ~(nth[g] < nth[h]) /\ ~(nth[h] < nth[g])
    <3>1. ASSUME nth[g] < nth[h] PROVE FALSE
      <4>1. nth[g] * c + p < nth[h] * c
        BY <3>1, <1>1, <2>2, BlocksApart
      <4> QED BY <4>1, <2>1, <2>2, <2>3
    <3>2. ASSUME nth[h] < nth[g] PROVE FALSE
      <4>1. nth[h] * c + q < nth[g] * c
        BY <3>2, <1>1, <2>2, BlocksApart
      <4> QED BY <4>1, <2>1, <2>2, <2>3
    <3> QED BY <3>1, <3>2
  <2>5. nth[g] = nth[h]
    BY <2>2, <2>4
  <2> QED BY <1>2, <2>1, <2>2, <2>3, <2>5
<1>9. Counted
  BY <1>1, FS_EmptySet DEF Init, Counted
<1>10. OneStart /\ Free /\ Busy
  BY <1>4 DEF Init, OneStart, Free, Busy, c
<1>11. Ahead
  BY <1>1, PoolAssumption DEF Init, Ahead, c
<1>12. NeverAborts
  BY DEF Init, NeverAborts
<1> QED BY <1>6, <1>7, <1>8, <1>9, <1>10, <1>11, <1>12 DEF PoolInv

\* One turn of init_schedule: the group has its first or a further arrival
\* drawn, all at time 0.
LEMMA InitScheduleStep ==
    ASSUME PoolInv, NEW g \in Groups, init_schedule(g) PROVE PoolInv'
<1>1. PICK pid \in uninit[g] :
         /\ \A other \in uninit[g] : pid <= other
         /\ schedule(g, pid, checks[g])
         /\ uninit' = [uninit EXCEPT ![g] = @ \ {pid}]
  BY DEF init_schedule
<1>2. UNCHANGED <<now, pairs, init_fid, active, flow_gen, flow_fin>>
  BY DEF init_schedule
<1>3. now = 0 /\ flow_gen = 0 /\ pid \in Nat /\ pid \in DOMAIN pairs[g] /\ flow_gen < sim_end
  BY PoolAssumption DEF PoolInv, Shape, Named, Ahead
<1>4. PICK t \in Nat : Scheduled(g, pid, checks[g], t) \/ Refused(g, pid, checks[g], t)
  <2>1. exited = "no" /\ sim_end \in Nat
    BY PoolAssumption DEF init_schedule
  <2>2. ~Ignored(g, checks[g])
    BY <1>3, <2>1 DEF Ignored
  <2> QED BY <1>1, <2>1, <2>2, ScheduleInTime
<1>5. /\ 0 \notin uninit[g] \ {pid}
      /\ 0 \in uninit[g] => uninit[g] \ {pid} = 1 .. connections_per_pair - 1
  <2>1. uninit[g] \subseteq Nat
    BY DEF PoolInv, Shape
  <2>2. 0 \in uninit[g] => pid = 0
    BY <1>1, <1>3, <2>1
  <2>3. 0 \in uninit[g] => uninit[g] = 0 .. connections_per_pair - 1
    BY DEF PoolInv, Ahead
  <2>4. connections_per_pair \in Nat
    BY PoolAssumption
  <2>5. (0 .. connections_per_pair - 1) \ {0} = 1 .. connections_per_pair - 1
    BY <2>4
  <2> QED BY <2>2, <2>3, <2>5
<1>6. Shape'
  <2>1. /\ starts' = [starts EXCEPT ![g] = @ \cup {[at |-> tnext[g], pid |-> pid]}]
        /\ tnext' = [tnext EXCEPT ![g] = t]
        /\ \/ checks' = [checks EXCEPT ![g] = checks[g]]
           \/ t - Margin >= now /\ checks' = [checks EXCEPT ![g] = checks[g] \cup {t - Margin}]
    BY <1>4 DEF Scheduled, Refused
  <2>2. /\ starts \in [Groups -> SUBSET [at : Nat, pid : Nat]] /\ tnext \in [Groups -> Nat]
        /\ checks \in [Groups -> SUBSET Nat] /\ uninit \in [Groups -> SUBSET Nat]
    BY DEF PoolInv, Shape
  <2>3. starts' \in [Groups -> SUBSET [at : Nat, pid : Nat]] /\ tnext' \in [Groups -> Nat]
    <3>1. [at |-> tnext[g], pid |-> pid] \in [at : Nat, pid : Nat]
      BY <1>3, <2>2
    <3>2. starts[g] \cup {[at |-> tnext[g], pid |-> pid]} \in SUBSET [at : Nat, pid : Nat]
      BY <2>2, <3>1
    <3> QED BY <2>1, <2>2, <3>2
  <2>4. checks' \in [Groups -> SUBSET Nat]
    <3>1. t - Margin >= now => t - Margin \in Nat
      BY <1>3, PoolAssumption
    <3> QED BY <2>1, <2>2, <3>1
  <2>5. uninit' \in [Groups -> SUBSET Nat]
    BY <1>1, <2>2
  <2> QED BY <1>2, <2>3, <2>4, <2>5 DEF PoolInv, Shape, nr_pairs
<1>7. Named'
  <2>1. starts' = [starts EXCEPT ![g] = @ \cup {[at |-> tnext[g], pid |-> pid]}]
    BY <1>4 DEF Scheduled, Refused
  <2> QED BY <1>1, <1>2, <1>3, <2>1 DEF PoolInv, Shape, Named
<1>8. FidsDistinct'
  BY <1>2 DEF PoolInv, FidsDistinct
<1>9. Counted'
  BY <1>2 DEF PoolInv, Counted
<1>10. OneStart' /\ Free' /\ Busy'
  <2> DEFINE new == [at |-> tnext[g], pid |-> pid]
  <2>1. ASSUME NEW h \in Groups
        PROVE  /\ starts'[h] = IF h = g THEN starts[h] \cup {new} ELSE starts[h]
               /\ uninit'[h] = IF h = g THEN uninit[h] \ {pid} ELSE uninit[h]
    BY <1>1, <1>4 DEF PoolInv, Shape, Scheduled, Refused
  <2>2. new.pid = pid
    OBVIOUS
  <2> HIDE DEF new
  <2>3. \A ev \in starts[g] : ev.pid # pid
    BY <1>1 DEF PoolInv, Free
  <2>4. OneStart'
    <3> SUFFICES ASSUME NEW h \in Groups, NEW e1 \in starts'[h], NEW e2 \in starts'[h],
                        e1.pid = e2.pid
                 PROVE  e1 = e2
      BY DEF OneStart
    <3>1. OneStart
      BY DEF PoolInv
    <3>2. CASE h # g
      BY <2>1, <3>1, <3>2 DEF OneStart
    <3>3. CASE h = g
      <4>1. (e1 \in starts[g] \/ e1 = new) /\ (e2 \in starts[g] \/ e2 = new)
        BY <2>1, <3>3
      <4> QED BY <4>1, <2>2, <2>3, <3>1 DEF OneStart
    <3> QED BY <3>2, <3>3
  <2>5. Free'
    <3> SUFFICES ASSUME NEW h \in Groups
                 PROVE  /\ \A ev \in starts'[h] : <<h, ev.pid>> \notin active
                        /\ \A ev \in starts'[h] : ev.pid \notin uninit'[h]
                        /\ \A p \in uninit'[h] : <<h, p>> \notin active
      BY <1>2 DEF Free
    <3>1. <<g, pid>> \notin active
      BY <1>1 DEF PoolInv, Free
    <3> QED BY <2>1, <2>2, <2>3, <3>1 DEF PoolInv, Free
  <2>6. Busy'
    <3> SUFFICES ASSUME flow_gen < sim_end,
                        NEW h \in Groups, NEW p \in DOMAIN pairs[h] \ uninit'[h]
                 PROVE  <<h, p>> \in active \/ \E ev \in starts'[h] : ev.pid = p
      BY <1>2 DEF Busy
    <3>1. CASE h = g /\ p = pid
      BY <2>1, <2>2, <3>1
    <3>2. CASE ~(h = g /\ p = pid)
      BY <2>1, <3>2 DEF PoolInv, Busy
    <3> QED BY <3>1, <3>2
  <2> QED BY <2>4, <2>5, <2>6
<1>11. Ahead'
  <2>1. CASE Scheduled(g, pid, checks[g], t)
    <3>1. exited = "no"
      BY DEF init_schedule
    <3> QED BY <1>1, <1>2, <1>3, <1>5, <2>1, <3>1 DEF PoolInv, Shape, Ahead, Scheduled
  <2>2. CASE Refused(g, pid, checks[g], t)
    <3> DEFINE new == [at |-> tnext[g], pid |-> pid]
    <3>1. new.at >= now
      BY <1>3 DEF PoolInv, Shape
    <3>2. ASSUME NEW h \in Groups
          PROVE  /\ starts'[h] = IF h = g THEN starts[h] \cup {new} ELSE starts[h]
                 /\ uninit'[h] = IF h = g THEN uninit[h] \ {pid} ELSE uninit[h]
                 /\ checks'[h] = checks[h]
      BY <1>1, <2>2 DEF PoolInv, Shape, Refused
    <3>3. exited' # "no"
      BY <2>2 DEF Refused
    <3> HIDE DEF new
    <3> QED BY <1>2, <1>3, <1>5, <3>1, <3>2, <3>3 DEF PoolInv, Ahead
  <2> QED BY <1>4, <2>1, <2>2
<1>12. NeverAborts'
  <2>1. CASE Scheduled(g, pid, checks[g], t)
    BY <2>1 DEF Scheduled, NeverAborts
  <2>2. CASE Refused(g, pid, checks[g], t)
    <3>1. /\ exited' = "command in past" /\ now' = 0 /\ flow_gen' = 0
          /\ tnext'[g] = t /\ t < Margin /\ uninit'[g] = 1 .. connections_per_pair - 1
      BY <1>1, <1>2, <1>3, <1>5, <2>2 DEF Refused, PoolInv, Shape
    <3> QED BY <3>1 DEF NeverAborts, FailsAtStart, TooClose
  <2> QED BY <1>4, <2>1, <2>2
<1> QED BY <1>6, <1>7, <1>8, <1>9, <1>10, <1>11, <1>12 DEF PoolInv

\* A start takes its event away; the connection has a flow from now on.
LEMMA StartStep ==
    ASSUME PoolInv, NEW g \in Groups, NEW ev \in starts[g], start(g, ev) PROVE PoolInv'
<1>1. /\ Running
      /\ starts' = [starts EXCEPT ![g] = @ \ {ev}]
      /\ IF flow_gen >= sim_end THEN UNCHANGED <<flow_gen, active>>
         ELSE flow_gen' = flow_gen + 1 /\ active' = active \cup {<<g, ev.pid>>}
      /\ UNCHANGED <<now, tnext, checks, pairs, uninit, init_fid, flow_fin, exited>>
  BY DEF start
<1>2. /\ \A h \in Groups : uninit[h] = {}
      /\ sim_end \in Nat /\ flow_gen \in Nat
      /\ <<g, ev.pid>> \notin active /\ ev.pid \in DOMAIN pairs[g]
  BY <1>1, PoolAssumption DEF PoolInv, Running, Counted, Free, Named
<1>3. Shape'
  BY <1>1 DEF PoolInv, Shape, nr_pairs
<1>4. Named'
  BY <1>1, <1>2 DEF PoolInv, Shape, Named
<1>5. FidsDistinct'
  BY <1>1 DEF PoolInv, FidsDistinct
<1>6. Counted'
  <2>1. /\ IsFiniteSet(active \cup {<<g, ev.pid>>})
        /\ Cardinality(active \cup {<<g, ev.pid>>}) = Cardinality(active) + 1
        /\ Cardinality(active) \in Nat
    BY <1>2, FS_AddElement, FS_CardinalityType DEF PoolInv, Counted
  <2>2. CASE flow_gen >= sim_end
    BY <1>1, <2>2 DEF PoolInv, Counted
  <2>3. CASE flow_gen < sim_end
    <3>1. flow_gen' = flow_gen + 1 /\ active' = active \cup {<<g, ev.pid>>}
      BY <1>1, <1>2, <2>3
    <3> QED BY <1>1, <1>2, <2>1, <2>3, <3>1 DEF PoolInv, Counted
  <2> QED BY <1>2, <2>2, <2>3
<1>7. OneStart' /\ Free' /\ Busy'
  <2>1. ASSUME NEW h \in Groups
        PROVE  starts'[h] = IF h = g THEN starts[h] \ {ev} ELSE starts[h]
    BY <1>1 DEF PoolInv, Shape
  <2>2. OneStart'
    BY <2>1 DEF PoolInv, OneStart
  <2>3. \A e \in starts[g] \ {ev} : e.pid # ev.pid
    BY DEF PoolInv, OneStart
  <2>4. Free'
    BY <1>1, <1>2, <2>1, <2>3 DEF PoolInv, Free
  <2>5. CASE flow_gen >= sim_end
    BY <1>1, <1>2, <2>2, <2>4, <2>5 DEF Busy
  <2>6. CASE flow_gen < sim_end
    <3>1. active' = active \cup {<<g, ev.pid>>}
      BY <2>6, <1>1, <1>2
    <3>2. Busy'
      <4> SUFFICES ASSUME NEW h \in Groups, NEW p \in DOMAIN pairs[h]
                   PROVE  <<h, p>> \in active' \/ \E e \in starts'[h] : e.pid = p
        BY <1>1 DEF Busy
      <4>1. CASE h = g /\ p = ev.pid
        BY <3>1, <4>1
      <4>2. CASE ~(h = g /\ p = ev.pid)
        <5>1. <<h, p>> \in active \/ \E e \in starts[h] : e.pid = p
          BY <2>6, <1>2 DEF PoolInv, Busy
        <5>2. ASSUME NEW e \in starts[h], e.pid = p PROVE e \in starts'[h]
          BY <2>1, <4>2, <5>2
        <5> QED BY <3>1, <5>1, <5>2
      <4> QED BY <4>1, <4>2
    <3> QED BY <2>2, <2>4, <3>2
  <2> QED BY <2>5, <2>6, <1>2
<1>8. Ahead'
  BY <1>1, <1>2 DEF PoolInv, Shape, Ahead
<1>9. NeverAborts'
  BY <1>1 DEF Running, NeverAborts
<1> QED BY <1>3, <1>4, <1>5, <1>6, <1>7, <1>8, <1>9 DEF PoolInv

\* The clock only moves to an instant no event lies before.
LEMMA TickStep ==
    ASSUME PoolInv, Tick PROVE PoolInv'
<1>1. /\ Running
      /\ \A g \in Groups : now \notin checks[g] /\ \A ev \in starts[g] : ev.at # now
      /\ now' = now + 1
      /\ UNCHANGED <<tnext, starts, checks, pairs, uninit, init_fid, active, flow_gen,
                     flow_fin, exited>>
  BY DEF Tick, evVars
<1>2. Shape' /\ Named' /\ FidsDistinct' /\ Counted' /\ OneStart' /\ Free' /\ Busy' /\ NeverAborts'
  BY <1>1 DEF PoolInv, Running, Shape, nr_pairs, Named, FidsDistinct, Counted, OneStart, Free, Busy,
              NeverAborts
<1>3. Ahead'
  <2>1. \A g \in Groups : uninit[g] = {}
    BY <1>1 DEF Running
  <2> QED BY <1>1, <2>1 DEF PoolInv, Shape, Ahead
<1> QED BY <1>2, <1>3 DEF PoolInv

\* A connection that nobody waits for and that has no flow takes the arrival:
\* what schedule does to the events, whoever calls it once the groups are set
\* up.  B are the connections with a flow afterwards.
LEMMA ScheduleEvents ==
    ASSUME PoolInv, Running, NEW g \in Groups, NEW pid \in Nat,
           NEW left \in SUBSET checks[g], schedule(g, pid, left),
           \A ev \in starts[g] : ev.pid # pid,
           NEW B, <<g, pid>> \notin B, B \subseteq active
    PROVE  /\ tnext' \in [Groups -> Nat]
           /\ starts' \in [Groups -> SUBSET [at : Nat, pid : Nat]]
           /\ checks' \in [Groups -> SUBSET Nat]
           /\ exited' = "no"
           /\ OneStart'
           /\ \A h \in Groups : \A ev \in starts'[h] :
                 /\ ev \in starts[h] \/ (h = g /\ ev.pid = pid)
                 /\ <<h, ev.pid>> \notin B /\ ev.at >= now
           /\ \A h \in Groups : \A ev \in starts[h] : ev \in starts'[h]
           /\ flow_gen < sim_end => \E ev \in starts'[g] : ev.pid = pid
           /\ \A h \in Groups : \A t \in checks'[h] : t >= now
           /\ flow_gen < sim_end => \A h \in Groups : tnext'[h] - Margin \in checks'[h]
<1>1. /\ exited = "no" /\ \A h \in Groups : uninit[h] = {}
      /\ sim_end \in Nat /\ flow_gen \in Nat /\ Margin \in Nat /\ now \in Nat
      /\ tnext \in [Groups -> Nat] /\ checks \in [Groups -> SUBSET Nat]
      /\ starts \in [Groups -> SUBSET [at : Nat, pid : Nat]]
      /\ OneStart
  BY PoolAssumption DEF Running, PoolInv, Counted, Shape
<1>2. /\ \A h \in Groups : \A ev \in starts[h] : <<h, ev.pid>> \notin active /\ ev.at >= now
      /\ \A h \in Groups : \A t \in checks[h] : t >= now
      /\ flow_gen < sim_end => \A h \in Groups : tnext[h] - Margin \in checks[h]
  BY <1>1 DEF PoolInv, Free, Ahead
<1>3. CASE Ignored(g, left)
  <2>1. /\ starts' = starts /\ tnext' = tnext /\ exited' = exited
        /\ checks' = [checks EXCEPT ![g] = left] /\ ~(flow_gen < sim_end)
    BY <1>1, <1>3 DEF Ignored
  <2>2. OneStart'
    BY <1>1, <2>1 DEF OneStart
  <2> QED BY <1>1, <1>2, <2>1, <2>2
<1>4. ASSUME NEW t \in Nat, Scheduled(g, pid, left, t)
      PROVE  /\ tnext' \in [Groups -> Nat]
             /\ starts' \in [Groups -> SUBSET [at : Nat, pid : Nat]]
             /\ checks' \in [Groups -> SUBSET Nat]
             /\ exited' = "no"
             /\ OneStart'
             /\ \A h \in Groups : \A ev \in starts'[h] :
                   /\ ev \in starts[h] \/ (h = g /\ ev.pid = pid)
                   /\ <<h, ev.pid>> \notin B /\ ev.at >= now
             /\ \A h \in Groups : \A ev \in starts[h] : ev \in starts'[h]
             /\ \E ev \in starts'[g] : ev.pid = pid
             /\ \A h \in Groups : \A u \in checks'[h] : u >= now
             /\ \A h \in Groups : tnext'[h] - Margin \in checks'[h]
  <2> DEFINE new == [at |-> tnext[g], pid |-> pid]
  <2>1. /\ flow_gen < sim_end /\ exited' = "no"
        /\ tnext[g] >= now /\ t - Margin >= now
        /\ starts' = [starts EXCEPT ![g] = @ \cup {new}]
        /\ tnext' = [tnext EXCEPT ![g] = t]
        /\ checks' = [checks EXCEPT ![g] = left \cup {t - Margin}]
    BY <1>4 DEF Scheduled
  <2>2. new \in [at : Nat, pid : Nat] /\ new.pid = pid /\ new.at = tnext[g]
    BY <1>1
  <2> HIDE DEF new
  <2>3. ASSUME NEW h \in Groups
        PROVE  /\ starts'[h] = IF h = g THEN starts[h] \cup {new} ELSE starts[h]
               /\ tnext'[h] = IF h = g THEN t ELSE tnext[h]
               /\ checks'[h] = IF h = g THEN left \cup {t - Margin} ELSE checks[h]
    BY <1>1, <2>1
  <2>4. /\ tnext' \in [Groups -> Nat]
        /\ starts' \in [Groups -> SUBSET [at : Nat, pid : Nat]]
        /\ checks' \in [Groups -> SUBSET Nat]
    <3>1. tnext' \in [Groups -> Nat]
      BY <1>1, <2>1
    <3>2. starts' \in [Groups -> SUBSET [at : Nat, pid : Nat]]
      <4>1. starts[g] \cup {new} \in SUBSET [at : Nat, pid : Nat]
        BY <1>1, <2>2
      <4> QED BY <1>1, <2>1, <4>1
    <3>3. checks' \in [Groups -> SUBSET Nat]
      <4>1. t - Margin \in Nat
        BY <1>1, <2>1
      <4>2. left \cup {t - Margin} \in SUBSET Nat
        BY <1>1, <4>1
      <4> QED BY <1>1, <2>1, <4>2
    <3> QED BY <3>1, <3>2, <3>3
  <2>5. OneStart'
    <3> SUFFICES ASSUME NEW h \in Groups, NEW e1 \in starts'[h], NEW e2 \in starts'[h],
                        e1.pid = e2.pid
                 PROVE  e1 = e2
      BY DEF OneStart
    <3>1. CASE h # g
      BY <1>1, <2>3, <3>1 DEF OneStart
    <3>2. CASE h = g
      <4>1. (e1 \in starts[g] \/ e1 = new) /\ (e2 \in starts[g] \/ e2 = new)
        BY <2>3, <3>2
      <4> QED BY <1>1, <4>1, <2>2 DEF OneStart
    <3> QED BY <3>1, <3>2
  <2>6. ASSUME NEW h \in Groups, NEW ev \in starts'[h]
        PROVE  /\ ev \in starts[h] \/ (h = g /\ ev.pid = pid)
               /\ <<h, ev.pid>> \notin B /\ ev.at >= now
    <3>1. CASE ev \in starts[h]
      BY <1>2, <3>1
    <3>2. CASE ev \notin starts[h]
      <4>1. h = g /\ ev = new
        BY <2>3, <3>2
      <4> QED BY <4>1, <2>1, <2>2
    <3> QED BY <3>1, <3>2
  <2>7. \A h \in Groups : \A ev \in starts[h] : ev \in starts'[h]
    BY <2>3
  <2>8. \E ev \in starts'[g] : ev.pid = pid
    BY <2>2, <2>3
  <2>9. \A h \in Groups : \A u \in checks'[h] : u >= now
    BY <1>2, <2>1, <2>3
  <2>10. \A h \in Groups : tnext'[h] - Margin \in checks'[h]
    BY <1>2, <2>1, <2>3
  <2> QED BY <2>1, <2>4, <2>5, <2>6, <2>7, <2>8, <2>9, <2>10
<1>5. \A t \in Nat : ~Refused(g, pid, left, t)
  BY <1>1 DEF Refused
<1> QED BY <1>1, <1>3, <1>4, <1>5, ScheduleInTime

\* A flow is done and its connection takes the next arrival, unless the
\* experiment is over.
LEMMA FinNotifyStep ==
    ASSUME PoolInv, NEW g \in Groups, NEW pid \in DOMAIN pairs[g], fin_notify(g, pid)
    PROVE  PoolInv'
<1>1. /\ Running /\ <<g, pid>> \in active
      /\ active' = active \ {<<g, pid>>}
      /\ flow_fin' = flow_fin + 1
      /\ IF flow_fin' >= sim_end
         THEN exited' = "finish" /\ UNCHANGED <<tnext, starts, checks>>
         ELSE schedule(g, pid, checks[g])
      /\ UNCHANGED <<now, pairs, uninit, init_fid, flow_gen>>
  BY DEF fin_notify, evVars
<1>2. /\ \A h \in Groups : uninit[h] = {}
      /\ sim_end \in Nat /\ flow_gen \in Nat /\ flow_fin \in Nat /\ pid \in Nat
      /\ \A ev \in starts[g] : ev.pid # pid
  BY <1>1, PoolAssumption DEF PoolInv, Running, Counted, Free, Shape
<1>3. Counted'
  <2>1. /\ IsFiniteSet(active') /\ Cardinality(active') = Cardinality(active) - 1
        /\ Cardinality(active) \in Nat
    BY <1>1, FS_RemoveElement, FS_CardinalityType DEF PoolInv, Counted
  <2> QED BY <1>1, <1>2, <2>1 DEF PoolInv, Counted
<1>4. FidsDistinct'
  BY <1>1 DEF PoolInv, FidsDistinct
<1>5. CASE flow_fin' >= sim_end
  <2>1. exited' = "finish" /\ UNCHANGED <<tnext, starts, checks>>
    BY <1>1, <1>5
  <2>2. ~(flow_gen' < sim_end)
    <3>1. Cardinality(active') \in Nat
      BY <1>3, FS_CardinalityType DEF Counted
    <3> QED BY <1>2, <1>3, <1>5, <3>1 DEF Counted
  <2>3. Shape' /\ Named' /\ OneStart' /\ Free' /\ Busy' /\ NeverAborts'
    BY <1>1, <2>1, <2>2 DEF PoolInv, Shape, nr_pairs, Named, OneStart, Free, Busy, NeverAborts
  <2>4. Ahead'
    BY <1>1, <1>2, <2>1, <2>2 DEF PoolInv, Ahead
  <2> QED BY <1>3, <1>4, <2>3, <2>4 DEF PoolInv
<1>6. CASE ~(flow_fin' >= sim_end)
  <2>1. schedule(g, pid, checks[g])
    BY <1>1, <1>6
  <2>3. active' \subseteq active /\ <<g, pid>> \notin active'
    BY <1>1
  <2>4. /\ tnext' \in [Groups -> Nat]
        /\ starts' \in [Groups -> SUBSET [at : Nat, pid : Nat]]
        /\ checks' \in [Groups -> SUBSET Nat]
        /\ exited' = "no"
        /\ OneStart'
        /\ \A h \in Groups : \A ev \in starts'[h] :
              /\ ev \in starts[h] \/ (h = g /\ ev.pid = pid)
              /\ <<h, ev.pid>> \notin active' /\ ev.at >= now
        /\ \A h \in Groups : \A ev \in starts[h] : ev \in starts'[h]
        /\ flow_gen < sim_end => \E ev \in starts'[g] : ev.pid = pid
        /\ \A h \in Groups : \A t \in checks'[h] : t >= now
        /\ flow_gen < sim_end => \A h \in Groups : tnext'[h] - Margin \in checks'[h]
    BY <1>1, <1>2, <2>1, <2>3, ScheduleEvents
  <2>5. Shape'
    BY <1>1, <2>4 DEF PoolInv, Shape, nr_pairs
  <2>6. Named'
    <3>1. \A h \in Groups : uninit'[h] \subseteq DOMAIN pairs'[h]
      BY <1>1 DEF PoolInv, Named
    <3>2. ASSUME NEW h \in Groups, NEW ev \in starts'[h] PROVE ev.pid \in DOMAIN pairs'[h]
      BY <1>1, <2>4 DEF PoolInv, Named
    <3>3. \A c \in active' : \E h \in Groups : \E p \in DOMAIN pairs'[h] : c = <<h, p>>
      BY <1>1 DEF PoolInv, Named
    <3> QED BY <3>1, <3>2, <3>3 DEF Named
  <2>7. Free'
    BY <1>1, <1>2, <2>4 DEF Free
  <2>8. Busy'
    <3> SUFFICES ASSUME flow_gen < sim_end, NEW h \in Groups, NEW p \in DOMAIN pairs[h]
                 PROVE  <<h, p>> \in active' \/ \E ev \in starts'[h] : ev.pid = p
      BY <1>1 DEF Busy
    <3>1. <<h, p>> \in active \/ \E ev \in starts[h] : ev.pid = p
      BY <1>2 DEF PoolInv, Busy
    <3>2. CASE <<h, p>> = <<g, pid>>
      BY <2>4, <3>2
    <3>3. CASE <<h, p>> # <<g, pid>>
      BY <1>1, <2>4, <3>1, <3>3
    <3> QED BY <3>2, <3>3
  <2>9. Ahead'
    BY <1>1, <1>2, <2>4 DEF Ahead
  <2>10. NeverAborts'
    BY <2>4 DEF NeverAborts
  <2> QED BY <1>3, <1>4, <2>4, <2>5, <2>6, <2>7, <2>8, <2>9, <2>10 DEF PoolInv
<1> QED BY <1>5, <1>6

\* A check that finds the arrival taken leaves the check of the arrival drawn
\* last; one that finds it due opens a connection for it.
LEMMA CheckStep ==
    ASSUME PoolInv, NEW g \in Groups, check_if_behind(g) PROVE PoolInv'
<1> DEFINE n == nr_pairs(g)
<1>1. /\ Running /\ now \in checks[g]
      /\ IF Behind(g)
         THEN /\ pairs' = [pairs EXCEPT ![g] = WithPair(@, n, init_fid)]
              /\ init_fid' = init_fid + 1
              /\ schedule(g, n, checks[g] \ {now})
         ELSE /\ checks' = [checks EXCEPT ![g] = @ \ {now}]
              /\ UNCHANGED <<pairs, init_fid, starts, tnext, exited>>
      /\ UNCHANGED <<now, uninit, active, flow_gen, flow_fin>>
  BY DEF check_if_behind, NextFid, NewPair
<1>2. /\ \A h \in Groups : uninit[h] = {}
      /\ sim_end \in Nat /\ flow_gen \in Nat /\ Margin \in Nat \ {0}
      /\ now \in Nat /\ init_fid \in Nat /\ n \in Nat /\ n <= init_fid
      /\ tnext[g] \in Nat
      /\ pairs[g] \in [0 .. n - 1 -> 0 .. init_fid - 1]
  BY <1>1, PoolAssumption DEF PoolInv, Running, Counted, Shape
<1>3. Counted'
  BY <1>1 DEF PoolInv, Counted
<1>4. CASE ~Behind(g)
  <2>1. /\ checks' = [checks EXCEPT ![g] = @ \ {now}]
        /\ UNCHANGED <<pairs, init_fid, starts, tnext, exited>>
    BY <1>1, <1>4
  <2>2. flow_gen < sim_end => tnext[g] - Margin # now
    BY <1>2, <1>4 DEF Behind
  <2>3. Shape'
    BY <1>1, <2>1 DEF PoolInv, Shape, nr_pairs
  <2>4. Named' /\ FidsDistinct' /\ OneStart' /\ Free' /\ Busy' /\ NeverAborts'
    BY <1>1, <2>1 DEF PoolInv, Running, Named, FidsDistinct, OneStart, Free, Busy, NeverAborts
  <2>5. Ahead'
    <3>1. \A h \in Groups : checks'[h] = IF h = g THEN checks[h] \ {now} ELSE checks[h]
      BY <2>1 DEF PoolInv, Shape
    <3> QED BY <1>1, <1>2, <2>1, <2>2, <3>1 DEF PoolInv, Ahead
  <2> QED BY <1>3, <2>3, <2>4, <2>5 DEF PoolInv
<1>5. CASE Behind(g)
  <2>1. /\ pairs' = [pairs EXCEPT ![g] = WithPair(@, n, init_fid)]
        /\ init_fid' = init_fid + 1
        /\ schedule(g, n, checks[g] \ {now})
    BY <1>1, <1>5
  <2> HIDE DEF n
  <2>2. n \notin DOMAIN pairs[g] /\ DOMAIN pairs = Groups
    BY <1>2 DEF PoolInv, Shape
  <2>3. <<g, n>> \notin active /\ \A ev \in starts[g] : ev.pid # n
    BY <2>2 DEF PoolInv, Named
  <2>4. /\ tnext' \in [Groups -> Nat]
        /\ starts' \in [Groups -> SUBSET [at : Nat, pid : Nat]]
        /\ checks' \in [Groups -> SUBSET Nat]
        /\ exited' = "no"
        /\ OneStart'
        /\ \A h \in Groups : \A ev \in starts'[h] :
              /\ ev \in starts[h] \/ (h = g /\ ev.pid = n)
              /\ <<h, ev.pid>> \notin active /\ ev.at >= now
        /\ \A h \in Groups : \A ev \in starts[h] : ev \in starts'[h]
        /\ flow_gen < sim_end => \E ev \in starts'[g] : ev.pid = n
        /\ \A h \in Groups : \A t \in checks'[h] : t >= now
        /\ flow_gen < sim_end => \A h \in Groups : tnext'[h] - Margin \in checks'[h]
    <3>1. checks[g] \ {now} \in SUBSET checks[g] /\ active \subseteq active
      OBVIOUS
    <3> QED BY <1>1, <1>2, <2>1, <2>3, <3>1, ScheduleEvents
  <2>5. ASSUME NEW h \in Groups, h # g
        PROVE  pairs'[h] = pairs[h] /\ nr_pairs(h)' = nr_pairs(h)
    BY <2>1, <2>2, <2>5 DEF nr_pairs
  <2>6. /\ DOMAIN pairs' = Groups
        /\ DOMAIN pairs'[g] = DOMAIN pairs[g] \cup {n}
        /\ pairs'[g][n] = init_fid
        /\ \A p \in DOMAIN pairs[g] : pairs'[g][p] = pairs[g][p]
    <3>1. pairs'[g] = [p \in DOMAIN pairs[g] \cup {n} |->
                          IF p = n THEN init_fid ELSE pairs[g][p]]
      BY <2>1, <2>2 DEF WithPair
    <3> QED BY <2>1, <2>2, <3>1
  <2>7. DOMAIN pairs'[g] = 0 .. n /\ nr_pairs(g)' = n + 1
    <3>1. DOMAIN pairs'[g] = 0 .. n
      BY <1>2, <2>6
    <3>2. Cardinality(0 .. n) = n + 1
      BY <1>2, FS_Interval
    <3> QED BY <3>1, <3>2 DEF nr_pairs
  <2>8. Shape'
    <3>1. ASSUME NEW h \in Groups
          PROVE  /\ nr_pairs(h)' \in Nat /\ nr_pairs(h)' <= init_fid'
                 /\ pairs'[h] \in [0 .. nr_pairs(h)' - 1 -> 0 .. init_fid' - 1]
      <4>1. CASE h # g
        <5>1. /\ nr_pairs(h) \in Nat /\ nr_pairs(h) <= init_fid
              /\ pairs[h] \in [0 .. nr_pairs(h) - 1 -> 0 .. init_fid - 1]
          BY DEF PoolInv, Shape
        <5> QED BY <1>2, <2>1, <2>5, <4>1, <5>1
      <4>2. CASE h = g
        <5>1. ASSUME NEW p \in 0 .. n PROVE pairs'[g][p] \in 0 .. init_fid
          <6>1. CASE p = n
            BY <6>1, <1>2, <2>6
          <6>2. CASE p # n
            <7>1. p \in DOMAIN pairs[g] /\ pairs[g][p] \in 0 .. init_fid - 1
              BY <6>2, <1>2
            <7> QED BY <7>1, <1>2, <2>6
          <6> QED BY <6>1, <6>2
        <5>2. pairs'[g] = [p \in DOMAIN pairs'[g] |-> pairs'[g][p]]
          BY <2>1, <2>2 DEF WithPair
        <5>3. pairs'[g] \in [0 .. n -> 0 .. init_fid]
          BY <2>7, <5>1, <5>2
        <5>4. (n + 1) - 1 = n /\ (init_fid + 1) - 1 = init_fid
          BY <1>2
        <5> QED BY <1>2, <2>1, <2>7, <4>2, <5>3, <5>4
      <4> QED BY <4>1, <4>2
    <3>2. init_fid' \in Nat /\ now' \in Nat /\ uninit' \in [Groups -> SUBSET Nat]
      BY <1>1, <1>2, <2>1 DEF PoolInv, Shape
    <3> QED BY <2>4, <2>6, <3>1, <3>2 DEF Shape
  <2>9. Named'
    <3>1. \A h \in Groups : DOMAIN pairs[h] \subseteq DOMAIN pairs'[h]
      BY <2>5, <2>6
    <3>2. \A h \in Groups : uninit'[h] \subseteq DOMAIN pairs'[h]
      BY <1>1, <1>2
    <3>3. ASSUME NEW h \in Groups, NEW ev \in starts'[h] PROVE ev.pid \in DOMAIN pairs'[h]
      BY <2>4, <2>6, <3>1 DEF PoolInv, Named
    <3>4. \A c \in active' : \E h \in Groups : \E p \in DOMAIN pairs'[h] : c = <<h, p>>
      BY <1>1, <3>1 DEF PoolInv, Named
    <3> QED BY <3>2, <3>3, <3>4 DEF Named
  <2>10. FidsDistinct'
    <3>1. ASSUME NEW h \in Groups, NEW p \in DOMAIN pairs[h]
          PROVE  pairs[h][p] # init_fid /\ pairs'[h][p] = pairs[h][p]
      <4>1. pairs[h][p] \in 0 .. init_fid - 1
        BY DEF PoolInv, Shape
      <4> QED BY <1>2, <2>5, <2>6, <4>1
    <3>2. ASSUME NEW h \in Groups, NEW p \in DOMAIN pairs'[h]
          PROVE  p \in DOMAIN pairs[h] \/ (h = g /\ p = n)
      BY <2>5, <2>6
    <3> SUFFICES ASSUME NEW h \in Groups, NEW k \in Groups,
                        NEW p \in DOMAIN pairs'[h], NEW q \in DOMAIN pairs'[k],
                        pairs'[h][p] = pairs'[k][q]
                 PROVE  h = k /\ p = q
      BY DEF FidsDistinct
    <3>3. CASE p \in DOMAIN pairs[h] /\ q \in DOMAIN pairs[k]
      BY <3>1, <3>3 DEF PoolInv, FidsDistinct
    <3>4. CASE ~(p \in DOMAIN pairs[h] /\ q \in DOMAIN pairs[k])
      BY <2>6, <3>1, <3>2, <3>4
    <3> QED BY <3>3, <3>4
  <2>11. Free'
    BY <1>1, <1>2, <2>4 DEF Free
  <2>12. Busy'
    <3> SUFFICES ASSUME flow_gen < sim_end, NEW h \in Groups, NEW p \in DOMAIN pairs'[h]
                 PROVE  <<h, p>> \in active \/ \E ev \in starts'[h] : ev.pid = p
      BY <1>1 DEF Busy
    <3>1. CASE h = g /\ p = n
      BY <2>4, <3>1
    <3>2. CASE ~(h = g /\ p = n)
      <4>1. p \in DOMAIN pairs[h]
        BY <2>5, <2>6, <3>2
      <4>2. <<h, p>> \in active \/ \E ev \in starts[h] : ev.pid = p
        BY <1>2, <4>1 DEF PoolInv, Busy
      <4> QED BY <2>4, <4>2
    <3> QED BY <3>1, <3>2
  <2>13. Ahead'
    BY <1>1, <1>2, <2>4 DEF Ahead
  <2>14. NeverAborts'
    BY <2>4 DEF NeverAborts
  <2> QED BY <1>3, <2>4, <2>8, <2>9, <2>10, <2>11, <2>12, <2>13, <2>14 DEF PoolInv
<1> QED BY <1>4, <1>5

-----------------------------------------------------------------------------
(* Theorems *)

\* A stuttering step keeps the invariant.
LEMMA PoolStuttering ==
    ASSUME PoolInv, UNCHANGED vars PROVE PoolInv'
<1>1. UNCHANGED <<now, tnext, starts, checks, pairs, uninit, init_fid, active, flow_gen,
                  flow_fin, exited>>
  BY DEF vars, evVars
<1>2. /\ Shape' /\ Named' /\ FidsDistinct' /\ Counted' /\ OneStart' /\ Free' /\ Busy'
      /\ Ahead'
  BY <1>1 DEF PoolInv, Shape, nr_pairs, Named, FidsDistinct, Counted, OneStart, Free, Busy, Ahead
<1>3. NeverAborts'
  BY <1>1 DEF PoolInv, NeverAborts, FailsAtStart, TooClose
<1> QED BY <1>2, <1>3 DEF PoolInv

\* The invariant of the traffic generator is inductive.
THEOREM PoolInvariant == Spec => []PoolInv
<1>1. Init => PoolInv
  BY PoolInit
<1>2. ASSUME PoolInv, [Next]_vars PROVE PoolInv'
  <2>1. CASE Tick
    BY <1>2, <2>1, TickStep
  <2>2. ASSUME NEW g \in Groups, Step(g) PROVE PoolInv'
    BY <1>2, <2>2, InitScheduleStep, StartStep, FinNotifyStep, CheckStep DEF Step
  <2>3. CASE UNCHANGED vars
    BY <1>2, <2>3, PoolStuttering
  <2> QED BY <1>2, <2>1, <2>2, <2>3 DEF Next
<1> QED BY <1>1, <1>2, PTL DEF Spec

\* No two connections ever share a flow id, however many connections
\* check_if_behind opens in whatever groups: the ports, which tell flows apart
\* by it, never mix two of them.
THEOREM FlowIdsAreUnique == Spec => []FidsDistinct
<1>1. PoolInv => FidsDistinct
  BY DEF PoolInv
<1> QED BY <1>1, PoolInvariant, PTL

\* schedule never reaches its "Not enough flows !", for any margin and any draws,
\* however small, and schedules a command in the past only before the first event,
\* for a group whose first two draws together are smaller than the margin.
THEOREM PoolNeverAborts == Spec => []NeverAborts
<1>1. PoolInv => NeverAborts
  BY DEF PoolInv
<1> QED BY <1>1, PoolInvariant, PTL

\* While flows are generated every connection waits for exactly one start or
\* has exactly one flow in progress.
THEOREM OneFlowPerConnection == Spec => []OneFlowEach
<1>1. ASSUME PoolInv PROVE TypeOK
  <2>1. \A g \in Groups :
          /\ DOMAIN pairs[g] = 0 .. nr_pairs(g) - 1
          /\ \A pid \in DOMAIN pairs[g] : pairs[g][pid] \in 0 .. init_fid - 1
          /\ \A ev \in starts[g] : ev.pid \in DOMAIN pairs[g] /\ ev.at >= now
          /\ \A t \in checks[g] : t \in Nat /\ t >= now
          /\ uninit[g] \subseteq DOMAIN pairs[g]
    BY <1>1 DEF PoolInv, Shape, Named, Ahead
  <2>2. active \subseteq Groups \X (0 .. init_fid)
    <3> SUFFICES ASSUME NEW c \in active
                 PROVE  \E g \in Groups : \E pid \in 0 .. init_fid : c = <<g, pid>>
      OBVIOUS
    <3>0. PICK g \in Groups : \E pid \in DOMAIN pairs[g] : c = <<g, pid>>
      BY <1>1 DEF PoolInv, Named
    <3>1. PICK pid \in DOMAIN pairs[g] : c = <<g, pid>>
      BY <3>0
    <3>2. /\ init_fid \in Nat /\ nr_pairs(g) \in Nat /\ nr_pairs(g) <= init_fid
          /\ DOMAIN pairs[g] = 0 .. nr_pairs(g) - 1
      BY <1>1 DEF PoolInv, Shape
    <3>3. pid \in 0 .. init_fid
      BY <3>1, <3>2
    <3> QED BY <3>1, <3>3
  <2>3. /\ now \in Nat /\ tnext \in [Groups -> Nat] /\ init_fid \in Nat
        /\ flow_fin + Cardinality(active) = flow_gen /\ flow_gen <= sim_end
        /\ exited \in {"no", "finish", "not enough flows", "command in past"}
    BY <1>1 DEF PoolInv, Shape, Counted, NeverAborts, FailsAtStart
  <2> QED BY <2>1, <2>2, <2>3 DEF TypeOK
<1>2. ASSUME PoolInv, Running, flow_gen < sim_end,
             NEW g \in Groups, NEW pid \in DOMAIN pairs[g]
      PROVE  Cardinality({ev \in starts[g] : ev.pid = pid})
               + (IF <<g, pid>> \in active THEN 1 ELSE 0) = 1
  <2> DEFINE S == {ev \in starts[g] : ev.pid = pid}
  <2>1. CASE <<g, pid>> \in active
    <3>1. S = {}
      BY <1>2, <2>1 DEF PoolInv, Free
    <3> QED BY <2>1, <3>1, FS_EmptySet
  <2>2. CASE <<g, pid>> \notin active
    <3>1. PICK ev \in starts[g] : ev.pid = pid
      BY <1>2, <2>2 DEF PoolInv, Busy, Running
    <3>2. S = {ev}
      BY <1>2, <3>1 DEF PoolInv, OneStart
    <3>3. Cardinality(S) = 1
      BY <3>2, FS_Singleton
    <3> QED BY <2>2, <3>3
  <2> QED BY <2>1, <2>2
<1>3. PoolInv => OneFlowEach
  BY <1>1, <1>2 DEF OneFlowEach
<1> QED BY <1>3, PoolInvariant, PTL
=============================================================================
