---------------------------- MODULE TcpConnection ----------------------------
(***************************************************************************)
(* Two FullTcpAgents (tcp-full.cc) from the first SYN to the last ACK: the *)
(* states of a connection, the handshake, data in both directions and the  *)
(* ways to close, over a network that loses and reorders packets.          *)
(*                                                                         *)
(* An action is one event of the simulator: a call of the application, a   *)
(* packet that arrives, a timeout.  The window is any number of segments;  *)
(* duplicate ACKs never reach their threshold, as in the experiments, and  *)
(* there is no SACK (module FlowTransfer has both).                        *)
(***************************************************************************)
EXTENDS ReassemblyQueue, Sequences, Bags

CONSTANTS
    Messages,      \* what the applications may send, each end in order
    maxseg_,       \* bytes of a full segment
    MaxWin,        \* bound: the window in segments
    MaxLoss,       \* bound: how many packets are lost
    MaxSpurious    \* bound: a timeout happens with so many packets in flight

Ends == {"A", "B"}         \* A connects, B listens
Peer(e) == IF e = "A" THEN "B" ELSE "A"
iss_ == 0

ASSUME ConnectionAssumption ==
    /\ {MaxWin, MaxLoss, MaxSpurious} \subseteq Nat
    /\ maxseg_ \in Nat \ {0}
    /\ Messages \subseteq [Ends -> Seq([len : Nat \ {0}, eof : BOOLEAN])]

VARIABLES
    agent,    \* the control block of each agent
    left,     \* the messages each application still has to send
    handed,   \* history: the bytes an application has handed over
    net,      \* the packets in flight, a bag
    losses    \* how many packets were lost

vars == <<agent, left, handed, net, losses>>

States == {"CLOSED", "LISTEN", "SYN_SENT", "SYN_RECEIVED", "ESTABLISHED",
           "CLOSE_WAIT", "FIN_WAIT_1", "CLOSING", "LAST_ACK", "FIN_WAIT_2"}

\* A control block after reset(); out collects what a handler sends, and
\* delivered what the application has received.
Fresh(state, delivered) ==
    [state |-> state, curseq |-> 0, highest_ack |-> -1, t_seqno |-> iss_,
     maxseq |-> -1, rq |-> [blocks |-> {}, total |-> 0, nxt |-> -1],
     last_ack_sent |-> -1, acknow |-> FALSE, close_on_empty |-> FALSE,
     rtx |-> FALSE, out |-> <<>>, delivered |-> delivered]

Init ==
    /\ agent = [e \in Ends |-> Fresh(IF e = "A" THEN "CLOSED" ELSE "LISTEN", 0)]
    /\ left \in Messages
    /\ handed = [e \in Ends |-> 0]
    /\ net = EmptyBag /\ losses = 0

-----------------------------------------------------------------------------
(* Sending: foutput, send_much *)

outflags(state) ==
    CASE state = "LISTEN" -> {}
      [] state = "SYN_SENT" -> {"SYN"}
      [] state = "SYN_RECEIVED" -> {"SYN", "ACK"}
      [] state \in {"FIN_WAIT_1", "CLOSING", "LAST_ACK"} -> {"FIN", "ACK"}
      [] OTHER -> {"ACK"}

need_send(c) == c.acknow \/ c.rq.nxt > c.last_ack_sent

sendpacket(c, seq, ack, flags, len) ==
    [c EXCEPT !.out = Append(@, [seq |-> seq, ack |-> ack, flags |-> flags, len |-> len]),
              !.last_ack_sent = ack]

Unacked(c) == IF c.highest_ack < 0 THEN iss_ ELSE c.highest_ack

\* How much data goes with seq, in a window of win bytes.
datalen(c, seq, win) ==
    LET buffered == IF c.highest_ack < 0 THEN c.curseq - iss_
                    ELSE c.curseq - c.highest_ack + 1
        avail    == (IF buffered < win THEN buffered ELSE win) - (seq - Unacked(c))
    IN IF seq = iss_ \/ avail < 0 THEN 0
       ELSE IF avail > maxseg_ THEN maxseg_ ELSE avail

\* The segment takes the rest of the buffer.
Emptying(c, seq, len) == seq + len > c.curseq \/ (seq = iss_ /\ len = 0)

\* TF_NEEDCLOSE: everything is acknowledged and nothing is left to send.
NeedClose(c, seq, len) ==
    /\ Emptying(c, seq, len) /\ seq # iss_
    /\ c.close_on_empty /\ c.highest_ack = c.maxseq

\* The states in which close_on_empty_ makes foutput add a FIN.
CanClose == {"LISTEN", "SYN_SENT", "SYN_RECEIVED", "ESTABLISHED"}

\* The flags of the segment: a FIN only if it empties the buffer.
pflags(c, seq, len) ==
    (IF Emptying(c, seq, len) THEN outflags(c.state) ELSE outflags(c.state) \ {"FIN"})
      \cup (IF NeedClose(c, seq, len) /\ c.state \in CanClose THEN {"FIN"} ELSE {})

\* Whether foutput sends at all (Nagle's algorithm is disabled).
MaySend(c, seq, len) ==
    \/ len > 0 /\ (len = maxseg_ \/ Emptying(c, seq, len) \/ seq < c.maxseq)
    \/ need_send(c)
    \/ NeedClose(c, seq, len)
    \/ pflags(c, seq, len) \cap {"SYN", "FIN"} # {}

\* Mutant: a FIN takes no sequence number.
MutReliable(flags, len) == len + Cardinality(flags \cap {"SYN"})

\* The sequence numbers that SYN, FIN and data take.
Reliable(flags, len) == len + Cardinality(flags \cap {"SYN", "FIN"})

\* foutput(seq); the segment was found worth sending.
foutput(c, seq, len) ==
    LET flags   == pflags(c, seq, len)
        highest == seq + Reliable(flags, len)
    IN [sendpacket(c, seq, c.rq.nxt, flags, len) EXCEPT
          !.state  = IF NeedClose(c, seq, len) /\ @ \in CanClose
                     THEN "FIN_WAIT_1" ELSE @,
          !.acknow = FALSE,
          !.maxseq = IF highest > @ THEN highest ELSE @,
          !.rtx    = @ \/ highest > seq]

\* sent(), with the FIN not counted: t_seqno_ stays at the FIN.
Sent(c, seq, amt) ==
    [c EXCEPT !.t_seqno = IF seq # @ THEN @
                          ELSE IF "FIN" \in outflags(c.state) THEN @ + amt - 1
                          ELSE @ + amt]

send_allowed(c, win) == c.t_seqno < c.curseq /\ c.t_seqno < c.highest_ack + win

\* One turn of the loop of send_much; s.go: the loop goes on.
SendOne(s, win) ==
    LET c   == s.c
        seq == c.t_seqno
        len == datalen(c, seq, win)
        amt == Reliable(pflags(c, seq, len), len)
        d   == foutput(c, seq, len)
    IN IF ~s.go \/ ~(s.force \/ send_allowed(c, win)) \/ ~MaySend(c, seq, len)
       THEN [s EXCEPT !.go = FALSE]
       ELSE IF amt = 0 THEN [c |-> d, go |-> FALSE, force |-> FALSE]
       ELSE [c     |-> Sent(d, seq, amt),
             go    |-> outflags(d.state) \cap {"SYN", "FIN"} = {},
             force |-> FALSE]

\* send_much(force); a window of MaxWin segments lets it send as many.
send_much(c, force, win) ==
    LET loop[i \in 0 .. (MaxWin + 1)] ==
          IF i = 0 THEN [c |-> c, go |-> TRUE, force |-> force]
          ELSE SendOne(loop[i - 1], win)
    IN loop[MaxWin + 1].c

connect(c) == Sent(foutput([c EXCEPT !.state = "SYN_SENT"], iss_, 0), iss_, 1)

\* usrclosed() in the states in which the application or recv calls it.
usrclosed(c, win) ==
    send_much([c EXCEPT !.curseq = c.maxseq - 1,
                        !.state  = IF @ = "CLOSE_WAIT" THEN "LAST_ACK" ELSE "FIN_WAIT_1"],
              TRUE, win)

-----------------------------------------------------------------------------
(* Receiving *)

\* have_received_FIN; LAST_ACK has dropped its FINs before.
have_received_FIN(state) == state \in {"CLOSING", "CLOSED", "CLOSE_WAIT"}

\* A branch of recv gives the control block and where it jumps to: "drop",
\* "dropafterack", or the end of recv with or without needoutput.
Goto(c, label) == [c |-> c, label |-> label]
End(c, needoutput) == Goto(c, IF needoutput THEN "output" ELSE "end")

dropwithreset(c, p) ==
    Goto(IF "ACK" \in p.flags THEN sendpacket(c, p.ack, 0, {}, 0)
         ELSE sendpacket(c, 0, p.seq + p.len - Cardinality(p.flags \cap {"SYN"}),
                         {"ACK"}, 0),
         "drop")

\* What follows the jump: output, and at the end of recv the passive close.
Finish(r, win) ==
    LET c     == [r.c EXCEPT !.acknow = @ \/ r.label = "dropafterack"]
        force == c.acknow \/ r.label = "output"
        sends == r.label # "drop" /\ (force \/ c.curseq >= c.highest_ack)
        d     == IF sends THEN send_much(c, force, win) ELSE c
        close == /\ r.label \in {"end", "output"}
                 /\ d.state = "CLOSE_WAIT" /\ d.highest_ack = d.maxseq
    IN IF close THEN usrclosed(d, win) ELSE d

\* The FIN of the peer is next in order.
AfterFin(c) ==
    [c EXCEPT !.acknow = TRUE, !.rq.nxt = @ + 1,
              !.state = CASE @ \in {"SYN_RECEIVED", "ESTABLISHED"} -> "CLOSE_WAIT"
                          [] @ = "FIN_WAIT_1" -> "CLOSING"
                          [] @ = "FIN_WAIT_2" -> "CLOSED"
                          [] OTHER -> "THROWN",
              !.rtx = @ /\ c.state # "FIN_WAIT_2"]

\* step6: the data and the FIN of a segment that starts at seq.
Step6(c, seq, p, needoutput) ==
    LET fin     == "FIN" \in p.flags
        seg     == Trim(c.rq, seq, seq + p.len, fin)
        inOrder == seg.s = c.rq.nxt /\ c.rq.blocks = {}
        res     == Accept(c.rq, seq, seq + p.len, fin)
        d       == [c EXCEPT !.rq = res.rq, !.acknow = @ \/ ~inOrder,
                             !.delivered = @ + (res.rq.nxt - c.rq.nxt)]
    IN IF (seg.s = seg.e /\ ~seg.fin) \/ have_received_FIN(c.state)
       THEN End(c, needoutput)
       ELSE End(IF res.flags THEN AfterFin(d) ELSE d, need_send(d))

\* Mutant: the ACK of the last data byte is taken for the ACK of the FIN.
MutOurFinIsAcked(c, ackno) == ackno >= c.maxseq - 1

ourfinisacked(c, ackno) == ackno = c.maxseq

\* newack() and the closing states, for an ACK within what was sent.
AfterAck(c, ackno) ==
    LET acked == ourfinisacked(c, ackno)
        d == [c EXCEPT !.highest_ack = ackno,
                       !.rtx = ackno # c.maxseq,
                       !.t_seqno = IF @ < ackno THEN ackno ELSE @]
    IN CASE acked /\ c.state = "FIN_WAIT_1" ->
                [d EXCEPT !.state = "FIN_WAIT_2", !.rtx = FALSE]
         [] acked /\ c.state = "CLOSING" ->
                [d EXCEPT !.state = "CLOSED", !.rtx = FALSE]
         [] acked /\ c.state = "LAST_ACK" -> Fresh("CLOSED", c.delivered)
         [] OTHER -> d

\* A segment in the states from SYN_RECEIVED on: trimming, ACK, data, FIN.
Segment(c, p) ==
    LET syn    == "SYN" \in p.flags
        seq    == IF syn THEN p.seq + 1 ELSE p.seq
        trims  == c.rq.nxt > p.seq /\ (syn \/ p.len > 0)
        todrop == c.rq.nxt - seq
        dup    == trims /\ (todrop > p.len \/ (todrop = p.len /\ "FIN" \notin p.flags))
        a      == [c EXCEPT !.acknow = @ \/ dup]
        d      == [a EXCEPT !.state = IF @ = "SYN_RECEIVED" THEN "ESTABLISHED" ELSE @]
        new    == p.ack > c.highest_ack
        b      == IF new THEN AfterAck(d, p.ack) ELSE d
    IN IF syn /\ ~trims THEN dropwithreset(c, p)
       ELSE IF "ACK" \notin p.flags THEN Goto(a, "drop")
       ELSE IF c.state = "SYN_RECEIVED" /\ p.ack \notin c.highest_ack .. c.maxseq
       THEN dropwithreset(a, p)
       ELSE IF p.ack > c.maxseq THEN Goto(d, "dropafterack")
       ELSE IF new /\ c.state = "LAST_ACK" /\ b.state = "CLOSED" THEN Goto(b, "drop")
       ELSE Step6(b, seq, p, new /\ p.ack = c.maxseq /\ b.state # "FIN_WAIT_2")

\* A SYN in LISTEN.
Listening(c, p) ==
    End([c EXCEPT !.t_seqno = iss_, !.rq.nxt = p.seq + 1, !.acknow = TRUE,
                  !.state = "SYN_RECEIVED"], FALSE)

\* A SYN+ACK in SYN_SENT: an ACK without data and then what there is to send.
Connected(c, p) ==
    LET d == [c EXCEPT !.rq.nxt = p.seq + 1, !.highest_ack = p.ack, !.acknow = TRUE,
                       !.state = "ESTABLISHED"]
    IN End(AfterAck(sendpacket(d, d.t_seqno, d.rq.nxt, {"ACK"}, 0), p.ack),
           p.ack = c.maxseq)

\* A SYN in SYN_SENT (simultaneous open).
Crossed(c, p) ==
    End([c EXCEPT !.rq.nxt = p.seq + 1, !.acknow = TRUE, !.rtx = FALSE,
                  !.state = "SYN_RECEIVED", !.t_seqno = @ - 1], FALSE)

\* Mutant: a FIN is not answered in CLOSED.
MutRecvClosed(c, p) == Goto(c, "drop")

\* In CLOSED only a FIN is answered.
RecvClosed(c, p) == Goto(c, IF "FIN" \in p.flags THEN "dropafterack" ELSE "drop")

RecvListen(c, p) ==
    IF "ACK" \in p.flags THEN dropwithreset(c, p)
    ELSE IF "SYN" \in p.flags THEN Listening(c, p) ELSE Goto(c, "drop")

RecvSynSent(c, p) ==
    IF "ACK" \in p.flags /\ (p.ack <= iss_ \/ p.ack > c.maxseq) THEN dropwithreset(c, p)
    ELSE IF "SYN" \notin p.flags THEN Goto(c, "drop")
    ELSE IF "ACK" \in p.flags THEN Connected(c, p) ELSE Crossed(c, p)

\* recv(), by state; LAST_ACK drops FINs.
Received(c, p) ==
    CASE c.state = "CLOSED"   -> RecvClosed(c, p)
      [] c.state = "LISTEN"   -> RecvListen(c, p)
      [] c.state = "SYN_SENT" -> RecvSynSent(c, p)
      [] c.state = "LAST_ACK" /\ "FIN" \in p.flags -> Goto(c, "drop")
      [] OTHER -> Segment(c, p)

-----------------------------------------------------------------------------
(* The events *)

\* The end of a handler at e, in which d was computed and `taken' was
\* received: what it has sent arrives sooner or later or is lost.
Done(e, d, taken) ==
    \E lost \in SUBSET DOMAIN d.out :
        LET to(m) == [to |-> Peer(e), pkt |-> m]
            kept  == DOMAIN d.out \ lost
            sent  == [m \in {to(d.out[i]) : i \in kept} |->
                        Cardinality({i \in kept : to(d.out[i]) = m})]
        IN /\ losses + Cardinality(lost) <= MaxLoss
           /\ losses' = losses + Cardinality(lost)
           /\ net' = (net (-) SetToBag(taken)) (+) sent
           /\ agent' = [agent EXCEPT ![e] = [d EXCEPT !.out = <<>>]]

Windows == {w * maxseg_ : w \in 1 .. MaxWin}

\* The application opens the connection, or it is open.
CanSend(e) ==
    /\ left[e] # <<>>
    /\ \/ agent[e].state \in {"LISTEN", "SYN_SENT", "SYN_RECEIVED", "ESTABLISHED"}
       \/ agent[e].state = "CLOSED" /\ e = "A" /\ handed[e] = 0

\* advance_bytes() opens the connection, or queues the bytes and sends what it
\* may.
advance_bytes(c, nb, win) ==
    IF c.state \in {"CLOSED", "LISTEN"}
    THEN connect([Fresh(c.state, 0) EXCEPT !.curseq = iss_ + nb])
    ELSE LET d == [c EXCEPT !.curseq = @ + nb]
         IN IF c.state = "ESTABLISHED" THEN send_much(d, FALSE, win) ELSE d

\* sendmsg() of the next message, with or without MSG_EOF.
sendmsg(e) ==
    LET msg == Head(left[e])
        c   == [agent[e] EXCEPT !.close_on_empty = @ \/ msg.eof]
    IN /\ CanSend(e)
       /\ left' = [left EXCEPT ![e] = Tail(@)]
       /\ handed' = [handed EXCEPT ![e] = @ + msg.len]
       /\ \E win \in Windows : Done(e, advance_bytes(c, msg.len, win), {})

\* The application has sent its messages and has been told, by idle(), that all
\* data have gone out once; some may be being sent again.  An application that
\* used MSG_EOF leaves the close to foutput, one that got the FIN of its peer
\* leaves it to recv, and none closes with data that were never sent.
AllSent(e) ==
    LET c == agent[e]
    IN /\ left[e] = <<>> /\ ~c.close_on_empty
       /\ c.state = "ESTABLISHED"
       /\ c.maxseq = c.curseq + 1

\* The application closes (usrclosed).
Close(e) ==
    /\ AllSent(e)
    /\ \E win \in Windows : Done(e, usrclosed(agent[e], win), {})
    /\ UNCHANGED <<left, handed>>

Arriving(e) == {m \in BagToSet(net) : m.to = e}

recv(e, m) ==
    LET r == Received(agent[e], m.pkt)
    IN /\ \E win \in Windows : Done(e, Finish(r, win), {m})
       /\ UNCHANGED <<left, handed>>

TimerRuns(e) == agent[e].rtx /\ BagCardinality(net) <= MaxSpurious

\* The retransmission timer; it is set again.
timeout(e) ==
    LET c == agent[e]
    IN /\ TimerRuns(e)
       /\ \E win \in Windows :
            Done(e, send_much([c EXCEPT !.t_seqno = Unacked(c)], TRUE, win), {})
       /\ UNCHANGED <<left, handed>>

Recv(e) == \E m \in Arriving(e) : recv(e, m)

Next == \E e \in Ends : sendmsg(e) \/ Close(e) \/ timeout(e) \/ Recv(e)

Spec == Init /\ [][Next]_vars

\* The packets of len bytes on their way to e, and a step in which one of them
\* is received (only recv takes packets out of the network).
OfLength(e, len) == {m \in Arriving(e) : m.pkt.len = len}
Copies(m, bag) == IF BagIn(m, bag) THEN bag[m] ELSE 0
Taken(e, len) == \E m \in OfLength(e, len) : Copies(m, net') < Copies(m, net)

\* Fairness, with ENABLED written out: the simulator runs every event, so a
\* packet that is not lost arrives, whatever packets of other lengths do (weak
\* fairness), and a timer expires although packets come and go meanwhile (strong
\* fairness); the application at A sends its messages and closes.
FairSpec ==
    /\ Spec
    /\ []<>~(CanSend("A") \/ AllSent("A")) \/ []<><<sendmsg("A") \/ Close("A")>>_vars
    /\ \A e \in Ends :
         /\ <>[]~TimerRuns(e) \/ []<><<timeout(e)>>_vars
         /\ \A len \in 0 .. maxseg_ :
               []<>(OfLength(e, len) = {}) \/ []<><<Taken(e, len)>>_vars

-----------------------------------------------------------------------------
(* Properties *)

\* Type invariant.
TypeOK ==
    /\ \A e \in Ends : /\ agent[e].state \in States
                       /\ agent[e].rq \in QueueType
                       /\ agent[e].delivered \in 0 .. handed[Peer(e)]
    /\ losses \in 0 .. MaxLoss

\* Whatever was lost, reordered or sent again, an agent never believes more to
\* be acknowledged than its peer has received, and never has received more than
\* its peer has sent, SYN and FIN included (until one of them has been reset).
Synchronized ==
    /\ TypeOK
    /\ \A e \in Ends :
         LET c == agent[e]
             d == agent[Peer(e)]
         IN c.maxseq > 0 /\ d.rq.nxt > 0 =>
               c.highest_ack <= d.rq.nxt /\ d.rq.nxt <= c.maxseq

\* The FIN of the peer has been processed; A is also CLOSED before it connects.
SawFin(e) == \/ agent[e].state \in {"CLOSE_WAIT", "CLOSING", "LAST_ACK"}
             \/ agent[e].state = "CLOSED" /\ (e = "A" => handed[e] > 0)

\* The FIN comes last: an agent that has seen it has delivered everything that
\* the peer's application handed over, whichever way the peer closed.
NothingLost == \A e \in Ends : SawFin(e) => agent[e].delivered = handed[Peer(e)]

\* The FIN of e has gone out. Or the ACK of its data was taken for the ACK of the
\* FIN, which never will: the application had closed during a retransmission.
FinWentOut(e) == agent[e].maxseq = agent[e].curseq + 2
FinForgotten(e) == /\ agent[e].state \in {"FIN_WAIT_2", "CLOSED"}
                   /\ agent[e].maxseq = agent[e].curseq + 1

\* An agent whose FIN went out enters FIN_WAIT_2 only if the peer has seen it: an
\* ACK of data is then never taken for the ACK of the FIN.
FinIsSeen ==
    \A e \in Ends : agent[e].state = "FIN_WAIT_2" /\ FinWentOut(e) => SawFin(Peer(e))

Closed(e) == agent[e].state = "CLOSED"

\* No packet is in flight and no timer runs.
Silent == net = EmptyBag /\ \A e \in Ends : ~agent[e].rtx

\* What e has to send again first is a segment without FIN, which its closed peer
\* does not answer.
Unheard(e) == /\ Closed(Peer(e)) /\ agent[e].state \in {"FIN_WAIT_1", "CLOSING"}
              /\ agent[e].highest_ack + maxseg_ <= agent[e].curseq

\* In the end both agents are closed and silent: no FIN is sent for ever, and ACKs
\* are not answered by ACKs for ever. There are two other ends and no more: a FIN
\* was forgotten and the peer waits for it in silence, or an agent goes on sending
\* data to a closed peer.
ClosesQuietly ==
    <>[](\/ Silent /\ \A e \in Ends : Closed(e)
         \/ Silent /\ \E e \in Ends : /\ FinForgotten(e)
                                      /\ agent[Peer(e)].state \in {"ESTABLISHED", "FIN_WAIT_2"}
         \/ \E e \in Ends : Unheard(e))

\* What the comment at tcp-full.h:47 says of FIN_WAIT_2: have closed, fin is acked.
FinIsAcked == \A e \in Ends : agent[e].state = "FIN_WAIT_2" => SawFin(Peer(e))
=============================================================================
