------------------------ MODULE TcpConnectionProofs ------------------------
(***************************************************************************)
(* Proofs about module TcpConnection, for messages of any number and size,  *)
(* any segment size and window, and any losses, reordering and timeouts,    *)
(* and about the receiving half by itself (module Reassembly).              *)
(*                                                                         *)
(* The argument: in each state the sequence numbers of an agent have a      *)
(* certain shape; a packet in flight says nothing that is not true of its   *)
(* sender, until the sender has been reset; and what one end has received   *)
(* fits what the other has sent.  Every branch of recv, sendmsg, close and  *)
(* timeout_action, send_much included, keeps this.                          *)
(***************************************************************************)
EXTENDS TcpConnection, Reassembly, ReassemblyQueueProofs

\* The fields of a packet and of a control block; highest_ack, maxseq and rq.nxt
\* are -1 before they are set.
Flags == {"SYN", "ACK", "FIN"}
Packet == [seq : Nat, ack : Int, flags : SUBSET Flags, len : Nat]

ControlBlock ==
    [state : States, curseq : Nat, highest_ack : Int, t_seqno : Nat, maxseq : Int,
     rq : QueueType, last_ack_sent : Int, acknow : BOOLEAN, close_on_empty : BOOLEAN,
     rtx : BOOLEAN, out : Seq(Packet), delivered : Nat]

\* The states after the close (A is also CLOSED before it connects).
FinStates == {"FIN_WAIT_1", "CLOSING", "LAST_ACK", "FIN_WAIT_2", "CLOSED"}

\* The end of what the agent has sent as data; h is what the application has
\* handed over, and so where the FIN is.
Top(c, h) == IF c.state \in FinStates THEN h + 1 ELSE c.maxseq

\* The sequence numbers, by state.
Idle(c) ==
    /\ c.curseq = 0 /\ c.highest_ack = -1 /\ c.t_seqno = 0 /\ c.maxseq <= 0
    /\ c.rq.nxt = -1 /\ c.rq.blocks = {} /\ ~c.rtx

\* The SYN has been sent, or (t = 0) is about to be.
Opening(c, h, t) ==
    /\ c.curseq = h /\ c.highest_ack = -1 /\ c.t_seqno = t /\ c.rq.blocks = {}
    /\ c.rq.nxt = IF c.state = "SYN_SENT" THEN -1 ELSE 1

\* The connection is open, and no FIN has been sent.
Open(c, h) ==
    /\ c.curseq = h /\ 1 <= c.highest_ack /\ c.highest_ack <= c.t_seqno
    /\ c.t_seqno <= c.maxseq /\ c.maxseq <= h + 1 /\ c.rq.nxt >= 1

\* All data have been sent, and the FIN (maxseq = h + 2) unless the application
\* closed during a retransmission; a passive close always sends it.
Closing(c, h) ==
    /\ c.curseq = h /\ 1 <= c.highest_ack /\ c.highest_ack <= c.t_seqno
    /\ c.t_seqno <= h + 1 /\ c.maxseq \in {h + 1, h + 2} /\ c.rq.nxt >= 1
    /\ c.state = "LAST_ACK" => c.maxseq = h + 2

\* Everything that was sent is acknowledged: the FIN, or the data if the FIN was
\* never sent.
Over(c, h) ==
    /\ c.curseq = h /\ c.highest_ack = c.maxseq /\ c.t_seqno = c.maxseq
    /\ c.maxseq \in {h + 1, h + 2} /\ c.rq.nxt >= 1

\* The numbers an agent has in each state. CLOSED is the state before connect and
\* after reset, and that of an agent that has nothing more to expect.
Shape(c, h) ==
    \/ c.state \in {"CLOSED", "LISTEN"} /\ Idle(c)
    \/ c.state \in {"SYN_SENT", "SYN_RECEIVED"} /\ Opening(c, h, 1) /\ c.maxseq = 1
    \/ c.state \in {"ESTABLISHED", "CLOSE_WAIT"} /\ Open(c, h)
    \/ c.state \in {"FIN_WAIT_1", "CLOSING", "LAST_ACK"} /\ Closing(c, h)
    \/ c.state \in {"FIN_WAIT_2", "CLOSED"} /\ Over(c, h)

\* What is true of a packet for as long as it is in flight; c and h are those
\* of its sender.
PacketOK(p, c, h) ==
    /\ p \in Packet
    /\ "SYN" \in p.flags => /\ p.seq = 0 /\ p.len = 0 /\ "FIN" \notin p.flags
                            /\ c.maxseq >= 1
    /\ p.len > 0 => p.seq >= 1 /\ p.seq + p.len <= Top(c, h)
    /\ "FIN" \in p.flags => /\ p.seq >= 1 /\ p.seq + p.len = Top(c, h)
                            /\ c.state \in FinStates /\ c.maxseq = h + 2
                            /\ c.state = "LAST_ACK" => p.ack = c.rq.nxt
    /\ "ACK" \in p.flags => 1 <= p.ack /\ p.ack <= c.rq.nxt

\* What the running handler has sent.
OutOK(c, h) == c.maxseq >= 1 => \A i \in DOMAIN c.out : PacketOK(c.out[i], c, h)

-----------------------------------------------------------------------------
(* Sending *)

\* The flags of each state.
LEMMA OutFlags ==
    ASSUME NEW state \in States
    PROVE  /\ outflags(state) \subseteq Flags
           /\ "SYN" \in outflags(state) <=> state \in {"SYN_SENT", "SYN_RECEIVED"}
           /\ "FIN" \in outflags(state) <=> state \in {"FIN_WAIT_1", "CLOSING", "LAST_ACK"}
           /\ "ACK" \in outflags(state) <=> state \notin {"LISTEN", "SYN_SENT"}
<1>1. CASE state = "LISTEN"
  <2>1. outflags(state) = {}
    BY <1>1, Zenon DEF outflags
  <2> QED BY <1>1, <2>1
<1>2. CASE state = "SYN_SENT"
  <2>1. outflags(state) = {"SYN"}
    BY <1>2, Zenon DEF outflags
  <2> QED BY <1>2, <2>1 DEF Flags
<1>3. CASE state = "SYN_RECEIVED"
  <2>1. outflags(state) = {"SYN", "ACK"}
    BY <1>3, Zenon DEF outflags
  <2> QED BY <1>3, <2>1 DEF Flags
<1>4. CASE state \in {"FIN_WAIT_1", "CLOSING", "LAST_ACK"}
  <2>1. outflags(state) = {"FIN", "ACK"}
    BY <1>4, Zenon DEF outflags
  <2> QED BY <1>4, <2>1 DEF Flags
<1>5. CASE state \in {"CLOSED", "ESTABLISHED", "CLOSE_WAIT", "FIN_WAIT_2"}
  <2>1. outflags(state) = {"ACK"}
    BY <1>5, Zenon DEF outflags
  <2> QED BY <1>5, <2>1 DEF Flags
<1> QED BY <1>1, <1>2, <1>3, <1>4, <1>5 DEF States

\* The sequence numbers that a segment takes.
LEMMA ReliableIs ==
    ASSUME NEW flags \in SUBSET Flags, NEW len \in Nat
    PROVE  /\ Reliable(flags, len) \in Nat
           /\ Reliable(flags, len) =
                len + (IF "SYN" \in flags THEN 1 ELSE 0) + (IF "FIN" \in flags THEN 1 ELSE 0)
<1> DEFINE S == flags \cap {"SYN", "FIN"}
<1>0. Reliable(flags, len) = len + Cardinality(S)
  BY DEF Reliable
<1>1. CASE "SYN" \notin flags /\ "FIN" \notin flags
  <2>1. S = {}
    BY <1>1
  <2>2. Cardinality(S) = 0
    BY <2>1, FS_EmptySet
  <2> QED BY <1>0, <1>1, <2>2
<1>2. CASE "SYN" \in flags /\ "FIN" \notin flags
  <2>1. S = {"SYN"}
    BY <1>2
  <2>2. Cardinality(S) = 1
    BY <2>1, FS_Singleton
  <2> QED BY <1>0, <1>2, <2>2
<1>3. CASE "SYN" \notin flags /\ "FIN" \in flags
  <2>1. S = {"FIN"}
    BY <1>3
  <2>2. Cardinality(S) = 1
    BY <2>1, FS_Singleton
  <2> QED BY <1>0, <1>3, <2>2
<1>4. CASE "SYN" \in flags /\ "FIN" \in flags
  <2>1. S = {"SYN"} \cup {"FIN"}
    BY <1>4
  <2>2. Cardinality({"SYN"}) = 1 /\ IsFiniteSet({"SYN"}) /\ "FIN" \notin {"SYN"}
    BY FS_Singleton
  <2>3. Cardinality(S) = 2
    BY <2>1, <2>2, FS_AddElement
  <2> QED BY <1>0, <1>4, <2>3
<1> QED BY <1>1, <1>2, <1>3, <1>4

\* How much data goes with seq: no more than there is behind it.
LEMMA DataLen ==
    ASSUME NEW c \in ControlBlock, NEW seq \in Nat, NEW win \in Nat
    PROVE  /\ datalen(c, seq, win) \in Nat
           /\ seq = 0 => datalen(c, seq, win) = 0
           /\ 1 <= c.highest_ack /\ datalen(c, seq, win) > 0 =>
                 seq + datalen(c, seq, win) <= c.curseq + 1
<1> DEFINE ha == c.highest_ack
           buffered == IF ha < 0 THEN c.curseq - 0 ELSE c.curseq - ha + 1
           una == IF ha < 0 THEN 0 ELSE ha
           avail == (IF buffered < win THEN buffered ELSE win) - (seq - una)
<1>1. c.curseq \in Nat /\ ha \in Int /\ maxseg_ \in Nat
  BY ConnectionAssumption DEF ControlBlock
<1>2. datalen(c, seq, win) = IF seq = 0 \/ avail < 0 THEN 0
                             ELSE IF avail > maxseg_ THEN maxseg_ ELSE avail
  BY DEF datalen, Unacked, iss_
<1>3. avail \in Int /\ (1 <= ha => avail <= c.curseq + 1 - seq)
  BY <1>1
<1> HIDE DEF avail
<1> QED BY <1>1, <1>2, <1>3

\* foutput adds a FIN of its own.
Closes(c, seq, len) == NeedClose(c, seq, len) /\ c.state \in CanClose

\* The flags with which send_much sends a segment.
LEMMA PflagsIs ==
    ASSUME NEW c \in ControlBlock, NEW seq \in Nat, NEW len \in Nat
    PROVE  LET fl == pflags(c, seq, len)
           IN  /\ fl \in SUBSET Flags
               /\ "SYN" \in fl <=> c.state \in {"SYN_SENT", "SYN_RECEIVED"}
               /\ "ACK" \in fl <=> c.state \notin {"LISTEN", "SYN_SENT"}
               /\ "FIN" \in fl <=>
                     \/ c.state \in {"FIN_WAIT_1", "CLOSING", "LAST_ACK"} /\ Emptying(c, seq, len)
                     \/ Closes(c, seq, len)
<1>1. c.state \in States
  BY DEF ControlBlock
<1>2. pflags(c, seq, len) =
        (IF Emptying(c, seq, len) THEN outflags(c.state) ELSE outflags(c.state) \ {"FIN"})
          \cup (IF Closes(c, seq, len) THEN {"FIN"} ELSE {})
  BY DEF pflags, Closes
<1> QED BY <1>1, <1>2, OutFlags DEF Flags

\* What sending leaves alone.
Kept(c, d) ==
    /\ d.curseq = c.curseq /\ d.highest_ack = c.highest_ack /\ d.rq = c.rq
    /\ d.close_on_empty = c.close_on_empty /\ d.delivered = c.delivered

\* The segment that foutput sends.
SentPacket(c, seq, len) ==
    [seq |-> seq, ack |-> c.rq.nxt, flags |-> pflags(c, seq, len), len |-> len]

\* foutput sends one packet, and moves t_seqno, maxseq and, with a FIN of its own,
\* the state.
LEMMA FoutputIs ==
    ASSUME NEW c \in ControlBlock, NEW seq \in Nat, NEW len \in Nat
    PROVE  LET d == foutput(c, seq, len)
               top == seq + Reliable(pflags(c, seq, len), len)
           IN  /\ d \in ControlBlock /\ Kept(c, d)
               /\ d.out = Append(c.out, SentPacket(c, seq, len))
               /\ SentPacket(c, seq, len) \in Packet
               /\ d.state = IF Closes(c, seq, len) THEN "FIN_WAIT_1" ELSE c.state
               /\ d.maxseq = IF top > c.maxseq THEN top ELSE c.maxseq
               /\ d.t_seqno = c.t_seqno
               /\ d.rtx = (c.rtx \/ top > seq)
<1> DEFINE p == SentPacket(c, seq, len)
           fl == pflags(c, seq, len)
           top == seq + Reliable(fl, len)
           closes == Closes(c, seq, len)
<1>1. fl \in SUBSET Flags /\ Reliable(fl, len) \in Nat
  BY PflagsIs, ReliableIs
<1>2. c.rq.nxt \in Int
  BY DEF ControlBlock, QueueType
<1>3. p \in Packet
  BY <1>1, <1>2 DEF Packet, SentPacket
<1>4. foutput(c, seq, len) =
        [[c EXCEPT !.out = Append(@, p), !.last_ack_sent = c.rq.nxt] EXCEPT
            !.state = IF closes THEN "FIN_WAIT_1" ELSE @,
            !.acknow = FALSE,
            !.maxseq = IF top > @ THEN top ELSE @,
            !.rtx = @ \/ top > seq]
  <2>1. \A x : (IF NeedClose(c, seq, len) /\ c.state \in CanClose THEN "FIN_WAIT_1" ELSE x)
               = (IF closes THEN "FIN_WAIT_1" ELSE x)
    BY DEF Closes
  <2> QED BY <2>1 DEF foutput, sendpacket, SentPacket, Closes
<1> HIDE DEF p, fl, closes
<1>5. top \in Int
  BY <1>1
<1> HIDE DEF top
<1>6. Append(c.out, p) \in Seq(Packet)
  BY <1>3 DEF ControlBlock
<1>7. "FIN_WAIT_1" \in States
  BY DEF States
<1>8. (top > seq) \in BOOLEAN
  BY <1>5
<1>9. /\ foutput(c, seq, len) \in ControlBlock /\ Kept(c, foutput(c, seq, len))
      /\ foutput(c, seq, len).out = Append(c.out, p)
      /\ foutput(c, seq, len).state = IF closes THEN "FIN_WAIT_1" ELSE c.state
      /\ foutput(c, seq, len).maxseq = IF top > c.maxseq THEN top ELSE c.maxseq
      /\ foutput(c, seq, len).t_seqno = c.t_seqno
      /\ foutput(c, seq, len).rtx = (c.rtx \/ top > seq)
  BY <1>2, <1>4, <1>5, <1>6, <1>7, <1>8 DEF ControlBlock, Kept
<1> QED BY <1>3, <1>9 DEF p, fl, top, closes

\* One turn of the loop sends the segment at t_seqno, and r is what it leaves.
SendsAt(c, r, win) ==
    LET seq == c.t_seqno
        len == datalen(c, seq, win)
        amt == Reliable(pflags(c, seq, len), len)
    IN /\ MaySend(c, seq, len)
       /\ r.c \in ControlBlock /\ Kept(c, r.c)
       /\ r.c.out = Append(c.out, SentPacket(c, seq, len))
       /\ SentPacket(c, seq, len) \in Packet
       /\ r.c.state = IF Closes(c, seq, len) THEN "FIN_WAIT_1" ELSE c.state
       /\ r.c.maxseq = IF seq + amt > c.maxseq THEN seq + amt ELSE c.maxseq
       /\ r.c.rtx = (c.rtx \/ amt > 0)
       /\ r.c.t_seqno = IF amt > 0 /\ r.c.state \in {"FIN_WAIT_1", "CLOSING", "LAST_ACK"}
                        THEN seq + amt - 1 ELSE seq + amt
       /\ r.go \in BOOLEAN /\ r.force = FALSE
       /\ r.go => /\ amt > 0
                  /\ r.c.state \notin {"SYN_SENT", "SYN_RECEIVED",
                                       "FIN_WAIT_1", "CLOSING", "LAST_ACK"}

\* What the loop of send_much works on.
Turns == [c : ControlBlock, go : BOOLEAN, force : BOOLEAN]

\* A turn of the loop of send_much sends the segment at t_seqno or ends the loop.
LEMMA TurnIs ==
    ASSUME NEW s \in Turns, NEW win \in Nat
    PROVE  LET r == SendOne(s, win)
               seq == s.c.t_seqno
               len == datalen(s.c, seq, win)
           IN  /\ r \in Turns
               /\ \/ /\ r.c = s.c /\ r.go = FALSE /\ r.force = s.force
                     /\ \/ ~s.go \/ ~MaySend(s.c, seq, len)
                        \/ ~s.force /\ ~send_allowed(s.c, win)
                  \/ s.go /\ SendsAt(s.c, r, win)
<1> DEFINE c == s.c
           seq == c.t_seqno
           len == datalen(c, seq, win)
           fl == pflags(c, seq, len)
           amt == Reliable(fl, len)
           d == foutput(c, seq, len)
           r == SendOne(s, win)
           stops == ~s.go \/ ~(s.force \/ send_allowed(c, win)) \/ ~MaySend(c, seq, len)
<1>0. c \in ControlBlock /\ s.go \in BOOLEAN /\ s.force \in BOOLEAN /\ seq \in Nat
  BY DEF Turns, ControlBlock
<1>1. len \in Nat
  BY <1>0, DataLen
<1>2. amt \in Nat
  BY <1>0, <1>1, PflagsIs, ReliableIs
<1>3. r = IF stops THEN [s EXCEPT !.go = FALSE]
          ELSE IF amt = 0 THEN [c |-> d, go |-> FALSE, force |-> FALSE]
          ELSE [c |-> Sent(d, seq, amt),
                go |-> outflags(d.state) \cap {"SYN", "FIN"} = {}, force |-> FALSE]
  BY DEF SendOne
<1>4. /\ d \in ControlBlock /\ Kept(c, d)
      /\ d.out = Append(c.out, SentPacket(c, seq, len))
      /\ SentPacket(c, seq, len) \in Packet
      /\ d.state = IF Closes(c, seq, len) THEN "FIN_WAIT_1" ELSE c.state
      /\ d.maxseq = IF seq + amt > c.maxseq THEN seq + amt ELSE c.maxseq
      /\ d.t_seqno = seq
      /\ d.rtx = (c.rtx \/ seq + amt > seq)
  BY <1>0, <1>1, FoutputIs
<1>5. d.state \in States
  BY <1>4 DEF ControlBlock
<1> DEFINE fin == d.state \in {"FIN_WAIT_1", "CLOSING", "LAST_ACK"}
           opens == d.state \in {"SYN_SENT", "SYN_RECEIVED"}
           t == IF fin THEN seq + amt - 1 ELSE seq + amt
<1>6. Sent(d, seq, amt) = [d EXCEPT !.t_seqno = t]
  <2>1. "FIN" \in outflags(d.state) <=> fin
    BY <1>5, OutFlags
  <2> HIDE DEF d
  <2> QED BY <1>4, <2>1 DEF Sent, ControlBlock
<1>7. (outflags(d.state) \cap {"SYN", "FIN"} = {}) = (~fin /\ ~opens)
  BY <1>5, OutFlags
<1>8. d.rtx = (c.rtx \/ amt > 0)
  BY <1>0, <1>2, <1>4
<1>a. MaySend(c, seq, len) \in BOOLEAN
  BY DEF MaySend, need_send
<1>9. SendsAt(c, r, win) <=>
       /\ MaySend(c, seq, len)
       /\ r.c \in ControlBlock /\ Kept(c, r.c)
       /\ r.c.out = Append(c.out, SentPacket(c, seq, len))
       /\ SentPacket(c, seq, len) \in Packet
       /\ r.c.state = IF Closes(c, seq, len) THEN "FIN_WAIT_1" ELSE c.state
       /\ r.c.maxseq = IF seq + amt > c.maxseq THEN seq + amt ELSE c.maxseq
       /\ r.c.rtx = (c.rtx \/ amt > 0)
       /\ r.c.t_seqno = IF amt > 0 /\ r.c.state \in {"FIN_WAIT_1", "CLOSING", "LAST_ACK"}
                        THEN seq + amt - 1 ELSE seq + amt
       /\ r.go \in BOOLEAN /\ r.force = FALSE
       /\ r.go => /\ amt > 0
                  /\ r.c.state \notin {"SYN_SENT", "SYN_RECEIVED",
                                       "FIN_WAIT_1", "CLOSING", "LAST_ACK"}
  BY DEF SendsAt
<1> HIDE DEF d, len, fl, amt, r, c, seq
<1>10. CASE stops
  <2>1. r = [s EXCEPT !.go = FALSE]
    BY <1>3, <1>10
  <2>2. r \in Turns /\ r.c = c /\ r.go = FALSE /\ r.force = s.force
    BY <2>1 DEF Turns, c
  <2>3. ~s.go \/ ~MaySend(c, seq, len) \/ (~s.force /\ ~send_allowed(c, win))
    BY <1>10
  <2> QED BY <2>2, <2>3 DEF r, c, seq, len
<1>11. CASE ~stops /\ amt = 0
  <2>1. r = [c |-> d, go |-> FALSE, force |-> FALSE]
    BY <1>3, <1>11
  <2>2. r \in Turns /\ r.c = d /\ r.go = FALSE /\ r.force = FALSE
    BY <2>1, <1>4 DEF Turns
  <2>3. seq + amt = seq /\ ~(amt > 0)
    BY <1>0, <1>11
  <2>4. SendsAt(c, r, win)
    BY <1>11, <1>9, <2>2, <2>3, <1>4, <1>8
  <2>5. s.go
    BY <1>11
  <2> QED BY <2>2, <2>4, <2>5 DEF r, c, seq, len
<1>12. CASE ~stops /\ amt # 0
  <2> DEFINE f == Sent(d, seq, amt)
  <2>1. r = [c |-> f, go |-> (~fin /\ ~opens), force |-> FALSE]
    BY <1>3, <1>7, <1>12
  <2>2. t \in Nat
    BY <1>0, <1>2, <1>12
  <2>3. /\ f \in ControlBlock /\ Kept(c, f) /\ f.out = d.out /\ f.state = d.state
        /\ f.maxseq = d.maxseq /\ f.rtx = d.rtx /\ f.t_seqno = t
    <3> HIDE DEF t
    <3> QED BY <1>4, <1>6, <2>2 DEF ControlBlock, Kept
  <2> HIDE DEF f
  <2>4. r \in Turns /\ r.c = f /\ r.go = (~fin /\ ~opens) /\ r.force = FALSE
    BY <2>1, <2>3 DEF Turns
  <2>5. amt > 0
    BY <1>2, <1>12
  <2>6. SendsAt(c, r, win)
    BY <1>12, <1>9, <2>3, <2>4, <2>5, <1>4, <1>8
  <2>7. s.go
    BY <1>12
  <2> QED BY <2>4, <2>6, <2>7 DEF r, c, seq, len
<1> QED BY <1>10, <1>11, <1>12

\* The sender goes from c, h to d, k: what is true of its packets stays true.
Grows(c, h, d, k) ==
    /\ c.maxseq >= 1 => d.maxseq >= 1
    /\ c.rq.nxt <= d.rq.nxt
    /\ Top(c, h) <= Top(d, k)
    /\ c.state \in FinStates /\ c.maxseq >= 1 =>
          /\ d.state \in FinStates /\ Top(d, k) = Top(c, h)
          /\ d.state = "LAST_ACK" => c.state = "LAST_ACK" /\ d.rq.nxt = c.rq.nxt
          /\ c.maxseq = h + 2 => d.maxseq = k + 2

\* So a packet in flight stays true of its sender.
LEMMA PacketStays ==
    ASSUME NEW c \in ControlBlock, NEW d \in ControlBlock, NEW h \in Nat, NEW k \in Nat,
           Grows(c, h, d, k), NEW p, PacketOK(p, c, h)
    PROVE  PacketOK(p, d, k)
<1>1. p.seq \in Nat /\ p.len \in Nat /\ p.ack \in Int
  BY DEF PacketOK, Packet
<1>2. c.rq.nxt \in Int /\ d.rq.nxt \in Int
  BY DEF ControlBlock, QueueType
<1>3. Top(c, h) \in Int /\ Top(d, k) \in Int
  BY DEF Top, ControlBlock
<1> QED BY <1>1, <1>2, <1>3 DEF PacketOK, Grows

\* One more packet goes out.
LEMMA OutAppended ==
    ASSUME NEW c \in ControlBlock, NEW d \in ControlBlock, NEW h \in Nat,
           OutOK(c, h), c.maxseq < 1 => c.out = <<>>, Grows(c, h, d, h),
           NEW p, d.out = Append(c.out, p), PacketOK(p, d, h)
    PROVE  OutOK(d, h)
<1>1. c.out \in Seq(Packet) /\ p \in Packet /\ c.maxseq \in Int
  BY DEF ControlBlock, PacketOK
<1> SUFFICES ASSUME NEW i \in DOMAIN d.out PROVE PacketOK(d.out[i], d, h)
  BY DEF OutOK
<1>2. (i \in DOMAIN c.out /\ d.out[i] = c.out[i]) \/ d.out[i] = p
  BY <1>1
<1>3. CASE i \in DOMAIN c.out /\ d.out[i] = c.out[i]
  <2>1. c.maxseq >= 1
    <3> SUFFICES ASSUME c.maxseq < 1 PROVE FALSE
      BY <1>1
    <3> QED BY <1>3
  <2> QED BY <1>3, <2>1, PacketStays DEF OutOK
<1> QED BY <1>2, <1>3

\* What send_much makes of c, if the numbers allow it.
Sending(c, d, h) ==
    /\ d \in ControlBlock /\ Kept(c, d)
    /\ d.state = c.state \/ (c.state = "ESTABLISHED" /\ d.state = "FIN_WAIT_1")
    /\ d.maxseq >= c.maxseq
    /\ Shape(d, h) /\ OutOK(d, h)

\* A turn with data to send or to acknowledge.
LEMMA TurnOpen ==
    ASSUME NEW c \in ControlBlock, NEW h \in Nat, NEW win \in Nat, NEW r,
           c.state \in {"ESTABLISHED", "CLOSE_WAIT"}, Open(c, h), OutOK(c, h),
           SendsAt(c, r, win)
    PROVE  Sending(c, r.c, h)
<1> DEFINE seq == c.t_seqno
           len == datalen(c, seq, win)
           fl == pflags(c, seq, len)
           amt == Reliable(fl, len)
           d == r.c
           p == SentPacket(c, seq, len)
<1>1. /\ seq \in Nat /\ c.highest_ack \in Int /\ c.maxseq \in Int /\ c.rq.nxt \in Int /\ c.curseq \in Nat
  BY DEF ControlBlock, QueueType
<1>2. /\ c.curseq = h /\ 1 <= c.highest_ack /\ c.highest_ack <= seq
      /\ seq <= c.maxseq /\ c.maxseq <= h + 1 /\ c.rq.nxt >= 1
  BY DEF Open
<1>3. len \in Nat /\ (len > 0 => seq + len <= h + 1)
  BY <1>1, <1>2, DataLen
<1>4. /\ fl \in SUBSET Flags /\ "SYN" \notin fl /\ "ACK" \in fl
      /\ "FIN" \in fl <=> Closes(c, seq, len)
  BY <1>1, <1>3, PflagsIs
<1>5. amt \in Nat /\ amt = len + (IF Closes(c, seq, len) THEN 1 ELSE 0)
  BY <1>3, <1>4, ReliableIs
<1>6. Closes(c, seq, len) => c.state = "ESTABLISHED" /\ seq + len > h /\ c.highest_ack = c.maxseq
  BY <1>2 DEF Closes, NeedClose, Emptying, CanClose
<1>7. /\ d \in ControlBlock /\ Kept(c, d) /\ d.out = Append(c.out, p) /\ p \in Packet
      /\ d.state = IF Closes(c, seq, len) THEN "FIN_WAIT_1" ELSE c.state
      /\ d.maxseq = IF seq + amt > c.maxseq THEN seq + amt ELSE c.maxseq
      /\ d.t_seqno = IF amt > 0 /\ d.state \in {"FIN_WAIT_1", "CLOSING", "LAST_ACK"}
                     THEN seq + amt - 1 ELSE seq + amt
  BY DEF SendsAt
<1>8. p.seq = seq /\ p.ack = c.rq.nxt /\ p.flags = fl /\ p.len = len
  BY DEF SentPacket
<1>9. /\ d.curseq = h /\ d.highest_ack = c.highest_ack /\ d.rq = c.rq
  BY <1>2, <1>7 DEF Kept
<1> HIDE DEF seq, len, fl, amt, d, p
<1>10. CASE Closes(c, seq, len)
  <2>1. d.state = "FIN_WAIT_1" /\ c.state = "ESTABLISHED"
    BY <1>6, <1>7, <1>10
  <2>2. seq + len = h + 1 /\ amt = len + 1
    BY <1>1, <1>2, <1>3, <1>5, <1>6, <1>10
  <2>3. d.maxseq = h + 2 /\ d.t_seqno = h + 1
    BY <1>1, <1>2, <1>3, <1>7, <2>1, <2>2
  <2>4. Closing(d, h)
    BY <1>1, <1>2, <1>9, <2>3 DEF Closing
  <2>5. Shape(d, h)
    BY <2>1, <2>4 DEF Shape
  <2>6. Top(d, h) = h + 1 /\ Top(c, h) = c.maxseq
    BY <2>1 DEF Top, FinStates
  <2>7. Grows(c, h, d, h)
    BY <1>1, <1>2, <1>9, <2>1, <2>3, <2>6 DEF Grows, FinStates
  <2>8. PacketOK(p, d, h)
    BY <1>1, <1>2, <1>3, <1>4, <1>7, <1>8, <1>9, <2>1, <2>2, <2>3, <2>6 DEF PacketOK, FinStates
  <2>9. OutOK(d, h)
    BY <1>1, <1>2, <1>7, <2>7, <2>8, OutAppended
  <2> QED BY <1>1, <1>2, <1>7, <2>1, <2>3, <2>5, <2>9 DEF Sending, d
<1>11. CASE ~Closes(c, seq, len)
  <2>1. d.state = c.state
    BY <1>7, <1>11
  <2>2. amt = len
    BY <1>3, <1>5, <1>11
  <2>3. d.t_seqno = seq + len /\ d.maxseq >= c.maxseq /\ d.maxseq >= seq + len /\ d.maxseq <= h + 1
    BY <1>1, <1>2, <1>3, <1>7, <2>1, <2>2
  <2>4. d.maxseq \in Int
    BY <1>7 DEF ControlBlock
  <2>5. Open(d, h)
    BY <1>1, <1>2, <1>3, <1>9, <2>3, <2>4 DEF Open
  <2>6. Shape(d, h)
    BY <2>1, <2>5 DEF Shape
  <2>7. Top(d, h) = d.maxseq /\ Top(c, h) = c.maxseq
    BY <2>1 DEF Top, FinStates
  <2>8. Grows(c, h, d, h)
    BY <1>1, <1>2, <1>9, <2>1, <2>3, <2>4, <2>7 DEF Grows, FinStates
  <2>9. PacketOK(p, d, h)
    BY <1>1, <1>2, <1>3, <1>4, <1>7, <1>8, <1>9, <1>11, <2>1, <2>2, <2>3, <2>4, <2>7 DEF PacketOK
  <2>10. OutOK(d, h)
    BY <1>1, <1>2, <1>7, <2>8, <2>9, OutAppended
  <2> QED BY <1>7, <2>1, <2>3, <2>6, <2>10 DEF Sending, d
<1> QED BY <1>10, <1>11

\* Everything but the FIN has been sent.
FinNext(c, h) ==
    /\ c.curseq = h /\ 1 <= c.highest_ack /\ c.highest_ack <= h + 1
    /\ c.t_seqno = h + 1 /\ c.maxseq = h + 1 /\ c.rq.nxt >= 1

\* A turn after usrclosed, or one that sends the FIN again.
LEMMA TurnClosing ==
    ASSUME NEW c \in ControlBlock, NEW h \in Nat, NEW win \in Nat, NEW r,
           c.state \in {"FIN_WAIT_1", "CLOSING", "LAST_ACK"},
           Closing(c, h) \/ (c.state = "LAST_ACK" /\ FinNext(c, h)), OutOK(c, h),
           SendsAt(c, r, win)
    PROVE  Sending(c, r.c, h)
<1> DEFINE seq == c.t_seqno
           len == datalen(c, seq, win)
           fl == pflags(c, seq, len)
           amt == Reliable(fl, len)
           d == r.c
           p == SentPacket(c, seq, len)
           ends == Emptying(c, seq, len)
<1>1. /\ seq \in Nat /\ c.highest_ack \in Int /\ c.maxseq \in Int /\ c.rq.nxt \in Int /\ c.curseq \in Nat
  BY DEF ControlBlock, QueueType
<1>2. /\ c.curseq = h /\ 1 <= c.highest_ack /\ c.highest_ack <= seq
      /\ seq <= h + 1 /\ c.rq.nxt >= 1 /\ c.maxseq >= 1
      /\ c.maxseq \in {h + 1, h + 2}
      /\ c.state = "LAST_ACK" => c.maxseq = h + 2 \/ seq = h + 1
  BY <1>1 DEF Closing, FinNext
<1>3. len \in Nat /\ (len > 0 => seq + len <= h + 1)
  BY <1>1, <1>2, DataLen
<1>4. ~Closes(c, seq, len)
  BY DEF Closes, CanClose
<1>5. /\ fl \in SUBSET Flags /\ "SYN" \notin fl /\ "ACK" \in fl
      /\ "FIN" \in fl <=> ends
  BY <1>1, <1>3, <1>4, PflagsIs
<1>6. amt \in Nat /\ amt = len + (IF ends THEN 1 ELSE 0)
  BY <1>3, <1>5, ReliableIs
<1>7. ends <=> seq + len > h
  BY <1>1, <1>2 DEF Emptying, iss_
<1>8. /\ d \in ControlBlock /\ Kept(c, d) /\ d.out = Append(c.out, p) /\ p \in Packet
      /\ d.state = c.state
      /\ d.maxseq = IF seq + amt > c.maxseq THEN seq + amt ELSE c.maxseq
      /\ d.t_seqno = IF amt > 0 THEN seq + amt - 1 ELSE seq + amt
  BY <1>4 DEF SendsAt
<1>9. p.seq = seq /\ p.ack = c.rq.nxt /\ p.flags = fl /\ p.len = len
  BY DEF SentPacket
<1>10. d.curseq = h /\ d.highest_ack = c.highest_ack /\ d.rq = c.rq
  BY <1>2, <1>8 DEF Kept
<1> HIDE DEF seq, len, fl, amt, d, p, ends
<1>11. seq + len <= h + 1 /\ (ends => seq + len = h + 1)
  BY <1>1, <1>2, <1>3, <1>7
<1>12. /\ d.maxseq \in {h + 1, h + 2} /\ (ends => d.maxseq = h + 2)
       /\ c.maxseq = h + 2 => d.maxseq = h + 2
       /\ c.state = "LAST_ACK" => d.maxseq = h + 2
  <2>1. CASE ends
    <3>1. seq + amt = h + 2
      BY <1>1, <1>3, <1>6, <1>11, <2>1
    <3> QED BY <1>1, <1>2, <1>8, <3>1
  <2>2. CASE ~ends
    <3>1. seq + amt <= h + 1 /\ amt = len /\ seq # h + 1
      BY <1>1, <1>3, <1>6, <1>7, <1>11, <2>2
    <3>2. d.maxseq = c.maxseq
      BY <1>1, <1>2, <1>3, <1>6, <1>8, <3>1
    <3> QED BY <1>2, <2>2, <3>1, <3>2
  <2> QED BY <2>1, <2>2
<1>13. seq <= d.t_seqno /\ d.t_seqno <= h + 1
  BY <1>1, <1>3, <1>6, <1>8, <1>11
<1>14. d.t_seqno \in Nat
  BY <1>8 DEF ControlBlock
<1>15. Closing(d, h)
  BY <1>1, <1>2, <1>8, <1>10, <1>12, <1>13, <1>14 DEF Closing
<1>16. Shape(d, h)
  BY <1>8, <1>15 DEF Shape
<1>17. Top(d, h) = h + 1 /\ Top(c, h) = h + 1 /\ d.state \in FinStates
  BY <1>8 DEF Top, FinStates
<1>18. Grows(c, h, d, h)
  BY <1>1, <1>8, <1>10, <1>12, <1>17 DEF Grows
<1>19. PacketOK(p, d, h)
  BY <1>1, <1>2, <1>3, <1>5, <1>8, <1>9, <1>10, <1>11, <1>12, <1>17 DEF PacketOK
<1>20. OutOK(d, h)
  BY <1>1, <1>2, <1>8, <1>18, <1>19, OutAppended
<1>21. d.maxseq >= c.maxseq
  BY <1>1, <1>2, <1>12
<1> QED BY <1>8, <1>16, <1>20, <1>21 DEF Sending, d

\* A turn when both FINs are acknowledged, or the peer's is still to come: an ACK.
LEMMA TurnOver ==
    ASSUME NEW c \in ControlBlock, NEW h \in Nat, NEW win \in Nat, NEW r,
           c.state \in {"FIN_WAIT_2", "CLOSED"}, Over(c, h), OutOK(c, h),
           SendsAt(c, r, win)
    PROVE  Sending(c, r.c, h) /\ ~r.go
<1> DEFINE seq == c.t_seqno
           len == datalen(c, seq, win)
           fl == pflags(c, seq, len)
           amt == Reliable(fl, len)
           d == r.c
           p == SentPacket(c, seq, len)
<1>1. /\ seq \in Nat /\ c.highest_ack \in Int /\ c.maxseq \in Int /\ c.rq.nxt \in Int /\ c.curseq \in Nat
  BY DEF ControlBlock, QueueType
<1>2. /\ c.curseq = h /\ c.highest_ack = c.maxseq /\ seq = c.maxseq /\ c.rq.nxt >= 1
      /\ c.maxseq \in {h + 1, h + 2}
  BY DEF Over
<1>3. len \in Nat /\ (len > 0 => seq + len <= h + 1)
  <2>1. 1 <= c.highest_ack
    BY <1>2
  <2> QED BY <1>1, <1>2, <2>1, DataLen
<1>4. ~Closes(c, seq, len)
  BY DEF Closes, CanClose
<1>5. fl \in SUBSET Flags /\ "SYN" \notin fl /\ "FIN" \notin fl /\ "ACK" \in fl
  BY <1>1, <1>3, <1>4, PflagsIs
<1>6. len = 0 /\ amt = 0
  <2>1. len = 0
    BY <1>2, <1>3
  <2> QED BY <1>3, <1>5, <2>1, ReliableIs
<1>7. /\ d \in ControlBlock /\ Kept(c, d) /\ d.out = Append(c.out, p) /\ p \in Packet
      /\ d.state = c.state
      /\ d.maxseq = IF seq + amt > c.maxseq THEN seq + amt ELSE c.maxseq
      /\ d.t_seqno = seq + amt
      /\ r.go \in BOOLEAN /\ (r.go => amt > 0)
  BY <1>4, <1>6 DEF SendsAt
<1>8. p.seq = seq /\ p.ack = c.rq.nxt /\ p.flags = fl /\ p.len = len
  BY DEF SentPacket
<1>9. d.curseq = h /\ d.highest_ack = c.highest_ack /\ d.rq = c.rq
  BY <1>2, <1>7 DEF Kept
<1> HIDE DEF seq, len, fl, amt, d, p
<1>10. d.maxseq = c.maxseq /\ d.t_seqno = d.maxseq
  BY <1>1, <1>2, <1>6, <1>7
<1>11. Over(d, h)
  BY <1>2, <1>9, <1>10 DEF Over
<1>12. Shape(d, h)
  BY <1>7, <1>11 DEF Shape
<1>13. Top(d, h) = h + 1 /\ Top(c, h) = h + 1 /\ d.state \in FinStates
  BY <1>7 DEF Top, FinStates
<1>14. Grows(c, h, d, h)
  BY <1>1, <1>7, <1>9, <1>10, <1>13 DEF Grows
<1>15. PacketOK(p, d, h)
  BY <1>1, <1>2, <1>5, <1>6, <1>7, <1>8, <1>9 DEF PacketOK
<1>16. OutOK(d, h)
  <2>1. ~(c.maxseq < 1)
    BY <1>2
  <2> QED BY <2>1, <1>7, <1>14, <1>15, OutAppended
<1>17. d.maxseq >= c.maxseq /\ ~r.go
  BY <1>2, <1>6, <1>7, <1>10
<1> QED BY <1>7, <1>12, <1>16, <1>17 DEF Sending, d

\* A turn in CLOSED after a reset: an ACK too.
LEMMA TurnIdle ==
    ASSUME NEW c \in ControlBlock, NEW h \in Nat, NEW win \in Nat, NEW r,
           c.state = "CLOSED", Idle(c),
           SendsAt(c, r, win)
    PROVE  Sending(c, r.c, h) /\ ~r.go
<1> DEFINE seq == c.t_seqno
           len == datalen(c, seq, win)
           fl == pflags(c, seq, len)
           amt == Reliable(fl, len)
           d == r.c
<1>1. /\ seq \in Nat /\ c.maxseq \in Int
      /\ c.curseq = 0 /\ c.highest_ack = -1 /\ seq = 0 /\ c.maxseq <= 0 /\ ~c.rtx
      /\ c.rq.nxt = -1 /\ c.rq.blocks = {}
  BY DEF ControlBlock, Idle
<1>2. len = 0
  BY <1>1, DataLen
<1>3. ~Closes(c, seq, len)
  BY DEF Closes, CanClose
<1>4. fl \in SUBSET Flags /\ "SYN" \notin fl /\ "FIN" \notin fl
  BY <1>1, <1>2, <1>3, PflagsIs
<1>5. amt = 0
  BY <1>2, <1>4, ReliableIs
<1>6. /\ d \in ControlBlock /\ Kept(c, d) /\ d.state = c.state
      /\ d.maxseq = IF seq + amt > c.maxseq THEN seq + amt ELSE c.maxseq
      /\ d.t_seqno = seq + amt /\ d.rtx = (c.rtx \/ amt > 0)
      /\ r.go \in BOOLEAN /\ (r.go => amt > 0)
  BY <1>3, <1>5 DEF SendsAt
<1> HIDE DEF seq, len, fl, amt, d
<1>7. d.maxseq <= 0 /\ d.maxseq >= c.maxseq /\ d.t_seqno = 0 /\ ~d.rtx /\ ~r.go
  BY <1>1, <1>5, <1>6
<1>8. Idle(d) /\ OutOK(d, h)
  BY <1>1, <1>6, <1>7 DEF Idle, Kept, OutOK
<1>9. Shape(d, h)
  BY <1>6, <1>8 DEF Shape
<1> QED BY <1>6, <1>7, <1>8, <1>9 DEF Sending, d

\* A turn that sends the SYN.
LEMMA TurnOpening ==
    ASSUME NEW c \in ControlBlock, NEW h \in Nat, NEW win \in Nat, NEW r,
           c.state \in {"SYN_SENT", "SYN_RECEIVED"}, Opening(c, h, 0), OutOK(c, h),
           c.maxseq = 1 \/ (c.maxseq < 1 /\ c.out = <<>>),
           SendsAt(c, r, win)
    PROVE  Sending(c, r.c, h) /\ r.c.maxseq = 1 /\ ~r.go
<1> DEFINE seq == c.t_seqno
           len == datalen(c, seq, win)
           fl == pflags(c, seq, len)
           amt == Reliable(fl, len)
           d == r.c
           p == SentPacket(c, seq, len)
<1>1. /\ seq \in Nat /\ c.maxseq \in Int /\ c.rq.nxt \in Int
      /\ c.curseq = h /\ c.highest_ack = -1 /\ seq = 0
      /\ c.rq.nxt = (IF c.state = "SYN_SENT" THEN -1 ELSE 1) /\ c.rq.blocks = {}
  BY DEF ControlBlock, Opening, QueueType
<1>2. len = 0
  BY <1>1, DataLen
<1>3. ~Closes(c, seq, len)
  BY <1>1 DEF Closes, NeedClose, iss_
<1>4. /\ fl \in SUBSET Flags /\ "SYN" \in fl /\ "FIN" \notin fl
      /\ "ACK" \in fl <=> c.state = "SYN_RECEIVED"
  BY <1>1, <1>2, <1>3, PflagsIs
<1>5. amt = 1
  <2>1. len \in Nat
    BY <1>2
  <2>2. amt = len + 1 + 0
    BY <1>4, <2>1, ReliableIs
  <2> QED BY <1>2, <2>2
<1>6. /\ d \in ControlBlock /\ Kept(c, d) /\ d.out = Append(c.out, p) /\ p \in Packet
      /\ d.state = c.state
      /\ d.maxseq = IF seq + amt > c.maxseq THEN seq + amt ELSE c.maxseq
      /\ d.t_seqno = seq + amt
      /\ ~r.go
  BY <1>3 DEF SendsAt
<1>7. p.seq = seq /\ p.ack = c.rq.nxt /\ p.flags = fl /\ p.len = len
  BY DEF SentPacket
<1>8. d.curseq = h /\ d.highest_ack = c.highest_ack /\ d.rq = c.rq
  BY <1>1, <1>6 DEF Kept
<1> HIDE DEF seq, len, fl, amt, d, p
<1>9. d.maxseq = 1 /\ d.t_seqno = 1
  BY <1>1, <1>5, <1>6
<1>10. Opening(d, h, 1)
  BY <1>1, <1>6, <1>8, <1>9 DEF Opening
<1>11. Shape(d, h)
  BY <1>6, <1>9, <1>10 DEF Shape
<1>12. Top(d, h) = 1 /\ Top(c, h) = c.maxseq /\ c.state \notin FinStates /\ d.state # "LAST_ACK"
  BY <1>6, <1>9 DEF Top, FinStates
<1>13. Grows(c, h, d, h)
  BY <1>1, <1>8, <1>9, <1>12 DEF Grows
<1>14. PacketOK(p, d, h)
  BY <1>1, <1>2, <1>4, <1>6, <1>7, <1>8, <1>9 DEF PacketOK
<1>15. OutOK(d, h)
  BY <1>6, <1>13, <1>14, OutAppended
<1>16. d.maxseq >= c.maxseq
  BY <1>1, <1>9
<1> QED BY <1>6, <1>9, <1>11, <1>15, <1>16 DEF Sending, d

\* The loop of send_much is well defined.
LEMMA LoopExists ==
    ASSUME NEW start, NEW win, NEW n \in Nat
    PROVE  \E f : f = [i \in 0 .. n |-> IF i = 0 THEN start ELSE SendOne(f[i - 1], win)]
<1> DEFINE Is(f, m) == f = [i \in 0 .. m |-> IF i = 0 THEN start ELSE SendOne(f[i - 1], win)]
           Bad == {m \in Nat : ~\E f : Is(f, m)}
<1> SUFFICES ASSUME Bad # {} PROVE FALSE
  OBVIOUS
<1>1. PICK m \in Bad : \A y \in Bad : m <= y
  <2>1. Bad \in SUBSET Nat
    OBVIOUS
  <2> HIDE DEF Bad
  <2> QED BY <2>1, Least
<1>2. CASE m = 0
  <2> DEFINE f == [i \in 0 .. 0 |-> start]
  <2>1. f = [i \in 0 .. 0 |-> IF i = 0 THEN start ELSE SendOne(f[i - 1], win)]
    OBVIOUS
  <2>2. Is(f, m)
    BY <1>2, <2>1
  <2> QED BY <2>2
<1>3. CASE m # 0
  <2>0. m \in Nat
    BY <1>1
  <2>1. m \in Nat /\ m - 1 \in Nat /\ m - 1 \notin Bad
    <3> HIDE DEF Bad
    <3> QED BY <1>1, <1>3, <2>0
  <2>2. PICK g : Is(g, m - 1)
    BY <2>1
  <2>3. /\ \A i \in 0 .. m : i # m => i \in 0 .. (m - 1)
        /\ \A i \in 0 .. m : i # 0 => i - 1 \in 0 .. (m - 1) /\ i - 1 \in 0 .. m /\ i - 1 # m
    BY <2>1
  <2>4. \A i \in 0 .. (m - 1) : g[i] = IF i = 0 THEN start ELSE SendOne(g[i - 1], win)
    BY <2>2
  <2> DEFINE f == [i \in 0 .. m |-> IF i = m THEN SendOne(g[m - 1], win) ELSE g[i]]
  <2>5. \A i \in 0 .. m : i # m => f[i] = g[i]
    OBVIOUS
  <2>6. \A i \in 0 .. m : f[i] = IF i = 0 THEN start ELSE SendOne(f[i - 1], win)
    <3> SUFFICES ASSUME NEW i \in 0 .. m
                 PROVE  f[i] = IF i = 0 THEN start ELSE SendOne(f[i - 1], win)
      OBVIOUS
    <3>1. CASE i = m
      <4>1. f[i] = SendOne(g[i - 1], win)
        BY <3>1
      <4>2. f[i - 1] = g[i - 1] /\ i # 0
        BY <1>3, <2>3, <2>5, <3>1
      <4> QED BY <4>1, <4>2
    <3>2. CASE i # m /\ i # 0
      <4>1. f[i] = g[i] /\ f[i - 1] = g[i - 1]
        BY <2>3, <2>5, <3>2
      <4>2. g[i] = SendOne(g[i - 1], win)
        BY <2>3, <2>4, <3>2
      <4> QED BY <4>1, <4>2, <3>2
    <3>3. CASE i # m /\ i = 0
      <4>1. f[i] = g[i]
        BY <2>5, <3>3
      <4>2. g[i] = start
        BY <2>3, <2>4, <3>3
      <4> QED BY <4>1, <4>2, <3>3
    <3> QED BY <3>1, <3>2, <3>3
  <2>7. f = [i \in 0 .. m |-> f[i]]
    OBVIOUS
  <2> HIDE DEF f
  <2>8. Is(f, m)
    BY <2>6, <2>7
  <2> QED BY <2>8
<1> QED BY <1>2, <1>3

\* send_much is the last turn of its loop.
LEMMA LoopIs ==
    ASSUME NEW c, NEW force, NEW win
    PROVE  \E f : /\ f[0] = [c |-> c, go |-> TRUE, force |-> force]
                  /\ \A i \in 1 .. (MaxWin + 1) : f[i] = SendOne(f[i - 1], win)
                  /\ send_much(c, force, win) = f[MaxWin + 1].c
<1> DEFINE start == [c |-> c, go |-> TRUE, force |-> force]
           n == MaxWin + 1
           f == CHOOSE g : g = [i \in 0 .. n |-> IF i = 0 THEN start ELSE SendOne(g[i - 1], win)]
<1>1. n \in Nat /\ 0 \in 0 .. n
  BY ConnectionAssumption
<1>2. send_much(c, force, win) = f[n].c
  BY DEF send_much
<1> HIDE DEF start, n
<1>3. f = [i \in 0 .. n |-> IF i = 0 THEN start ELSE SendOne(f[i - 1], win)]
  BY <1>1, LoopExists
<1> HIDE DEF f
<1>4. f[0] = start
  BY <1>1, <1>3
<1>5. \A i \in 1 .. n : f[i] = SendOne(f[i - 1], win)
  <2>1. \A i \in 1 .. n : i \in 0 .. n /\ i # 0
    BY <1>1
  <2> QED BY <1>3, <2>1
<1> QED BY <1>2, <1>4, <1>5 DEF start, n

\* What holds after the first turn and is preserved by a turn holds at the end.
LEMMA LoopKeeps ==
    ASSUME NEW G, NEW f, NEW win, NEW n \in Nat, n >= 1, f[1] \in G,
           \A i \in 1 .. n : f[i] = SendOne(f[i - 1], win),
           \A s \in G : SendOne(s, win) \in G
    PROVE  f[n] \in G
<1> DEFINE Bad == {i \in 1 .. n : f[i] \notin G}
<1> SUFFICES ASSUME Bad # {} PROVE FALSE
  OBVIOUS
<1>1. Bad \in SUBSET Nat
  OBVIOUS
<1>2. PICK m \in Bad : \A y \in Bad : m <= y
  <2> HIDE DEF Bad
  <2> QED BY <1>1, Least
<1>3. m \in 1 .. n /\ m # 1 /\ f[m] \notin G
  OBVIOUS
<1>4. m - 1 \in 1 .. n /\ ~(m <= m - 1)
  BY <1>3
<1>5. f[m - 1] \in G
  BY <1>2, <1>4
<1>6. f[m] = SendOne(f[m - 1], win)
  BY <1>3
<1> QED BY <1>3, <1>5, <1>6

\* What send_much is called with.
Ready(c, h, force) ==
    \/ c.state = "CLOSED" /\ Idle(c)
    \/ /\ c.state \in {"SYN_SENT", "SYN_RECEIVED"} /\ Opening(c, h, 0) /\ force
       /\ c.maxseq = 1 \/ (c.maxseq < 1 /\ c.out = <<>>)
    \/ c.state \in {"ESTABLISHED", "CLOSE_WAIT"} /\ Open(c, h)
    \/ c.state \in {"FIN_WAIT_1", "CLOSING", "LAST_ACK"} /\ Closing(c, h)
    \/ c.state = "LAST_ACK" /\ FinNext(c, h) /\ force
    \/ c.state \in {"FIN_WAIT_2", "CLOSED"} /\ Over(c, h)

\* The SYN and the FIN always go out.
LEMMA MustSend ==
    ASSUME NEW c \in ControlBlock, NEW h \in Nat, NEW win \in Nat,
           \/ c.state \in {"SYN_SENT", "SYN_RECEIVED"} /\ Opening(c, h, 0)
           \/ c.state = "LAST_ACK" /\ FinNext(c, h)
    PROVE  MaySend(c, c.t_seqno, datalen(c, c.t_seqno, win))
<1> DEFINE seq == c.t_seqno
           len == datalen(c, seq, win)
<1>1. seq \in Nat /\ c.curseq \in Nat
  BY DEF ControlBlock
<1>2. len \in Nat
  BY <1>1, DataLen
<1> HIDE DEF len
<1>3. CASE c.state \in {"SYN_SENT", "SYN_RECEIVED"} /\ Opening(c, h, 0)
  <2>1. "SYN" \in pflags(c, seq, len)
    BY <1>1, <1>2, <1>3, PflagsIs
  <2> QED BY <2>1 DEF MaySend, len
<1>4. CASE c.state = "LAST_ACK" /\ FinNext(c, h)
  <2>1. Emptying(c, seq, len)
    BY <1>1, <1>2, <1>4 DEF Emptying, FinNext
  <2>2. "FIN" \in pflags(c, seq, len)
    BY <1>1, <1>2, <1>4, <2>1, PflagsIs
  <2> QED BY <2>2 DEF MaySend, len
<1> QED BY <1>3, <1>4

\* Nothing is left to send, or something is not acknowledged.
Drained(c) == c.maxseq > c.highest_ack \/ c.maxseq = c.curseq + 1

\* If everything that was sent is acknowledged and there is more, it goes out.
LEMMA MustDrain ==
    ASSUME NEW c \in ControlBlock, NEW h \in Nat, NEW win \in Nat, win >= maxseg_,
           c.state = "CLOSE_WAIT", Open(c, h), ~Drained(c)
    PROVE  /\ MaySend(c, c.t_seqno, datalen(c, c.t_seqno, win))
           /\ datalen(c, c.t_seqno, win) > 0
           /\ c.t_seqno = c.highest_ack
<1> DEFINE seq == c.t_seqno
           len == datalen(c, seq, win)
           ha == c.highest_ack
           buffered == c.curseq - ha + 1
           avail == (IF buffered < win THEN buffered ELSE win) - (seq - ha)
<1>1. /\ seq \in Nat /\ ha \in Int /\ c.maxseq \in Int /\ c.curseq \in Nat
      /\ maxseg_ \in Nat /\ maxseg_ > 0
  BY ConnectionAssumption DEF ControlBlock
<1>2. /\ c.curseq = h /\ 1 <= ha /\ ha <= seq /\ seq <= c.maxseq /\ c.maxseq <= h + 1
      /\ ~(c.maxseq > ha) /\ c.maxseq # c.curseq + 1
  BY DEF Open, Drained
<1>3. seq = ha /\ c.maxseq = ha /\ ha <= h
  BY <1>1, <1>2
<1>4. len = IF seq = 0 \/ avail < 0 THEN 0 ELSE IF avail > maxseg_ THEN maxseg_ ELSE avail
  BY <1>1, <1>2 DEF datalen, Unacked, iss_
<1>5. avail = (IF buffered < win THEN buffered ELSE win) /\ buffered >= 1 /\ buffered \in Int
  BY <1>1, <1>2, <1>3
<1>6. len > 0 /\ (len = maxseg_ \/ len = buffered)
  <2> HIDE DEF len, buffered, avail
  <2> QED BY <1>1, <1>2, <1>3, <1>4, <1>5
<1>7. len = buffered => Emptying(c, seq, len)
  BY <1>1, <1>3 DEF Emptying
<1>8. MaySend(c, seq, len)
  <2> HIDE DEF len, buffered
  <2> QED BY <1>6, <1>7 DEF MaySend
<1> QED BY <1>3, <1>6, <1>8

\* send_much keeps the numbers in order and sends only true packets.
LEMMA SendMuch ==
    ASSUME NEW c \in ControlBlock, NEW h \in Nat, NEW win \in Nat, NEW force \in BOOLEAN,
           OutOK(c, h), Ready(c, h, force)
    PROVE  /\ Sending(c, send_much(c, force, win), h)
           /\ c.state = "CLOSE_WAIT" /\ force /\ win >= maxseg_ =>
                 Drained(send_much(c, force, win))
<1> DEFINE n == MaxWin + 1
           must == c.state = "CLOSE_WAIT" /\ force /\ win >= maxseg_
           opened == {"ESTABLISHED", "CLOSE_WAIT"}
           G == {s \in Turns : /\ Sending(c, s.c, h)
                               /\ s.go => s.c.state \in opened
                               /\ must => Drained(s.c)}
<1>0. n \in Nat /\ n >= 1 /\ 1 \in 1 .. n /\ 1 - 1 = 0
  BY ConnectionAssumption
<1>1. PICK f : /\ f[0] = [c |-> c, go |-> TRUE, force |-> force]
               /\ \A i \in 1 .. n : f[i] = SendOne(f[i - 1], win)
               /\ send_much(c, force, win) = f[n].c
  BY LoopIs
<1> DEFINE s0 == f[0]
           r == SendOne(s0, win)
           seq == c.t_seqno
           len == datalen(c, seq, win)
<1>2. s0 \in Turns /\ s0.c = c /\ s0.go = TRUE /\ s0.force = force
  BY <1>1 DEF Turns
<1>3. f[1] = r
  BY <1>0, <1>1
<1> HIDE DEF n, s0
<1>4. /\ r \in Turns
      /\ \/ r.c = c /\ r.go = FALSE /\ (~MaySend(c, seq, len) \/ (~force /\ ~send_allowed(c, win)))
         \/ SendsAt(c, r, win)
  BY <1>2, TurnIs
<1>t. c.maxseq \in Int /\ c.highest_ack \in Int /\ c.curseq \in Nat /\ seq \in Nat
  BY DEF ControlBlock
<1> HIDE DEF r
\* The first turn.
<1>5. r \in G
  <2>1. CASE SendsAt(c, r, win)
    <3>1. Sending(c, r.c, h) /\ (r.go => r.c.state \in opened)
      <4>1. CASE c.state = "CLOSED" /\ Idle(c)
        BY <2>1, <4>1, TurnIdle
      <4>2. CASE /\ c.state \in {"SYN_SENT", "SYN_RECEIVED"} /\ Opening(c, h, 0)
                 /\ c.maxseq = 1 \/ (c.maxseq < 1 /\ c.out = <<>>)
        BY <2>1, <4>2, TurnOpening
      <4>3. CASE c.state \in {"ESTABLISHED", "CLOSE_WAIT"} /\ Open(c, h)
        <5>1. Sending(c, r.c, h)
          BY <2>1, <4>3, TurnOpen
        <5>2. r.go => r.c.state # "FIN_WAIT_1"
          BY <2>1 DEF SendsAt
        <5> QED BY <5>1, <5>2, <4>3 DEF Sending
      <4>4. CASE /\ c.state \in {"FIN_WAIT_1", "CLOSING", "LAST_ACK"}
                 /\ Closing(c, h) \/ (c.state = "LAST_ACK" /\ FinNext(c, h))
        <5>1. Sending(c, r.c, h)
          BY <2>1, <4>4, TurnClosing
        <5>2. r.go => r.c.state \notin {"FIN_WAIT_1", "CLOSING", "LAST_ACK"}
          BY <2>1 DEF SendsAt
        <5> QED BY <5>1, <5>2, <4>4 DEF Sending
      <4>5. CASE c.state \in {"FIN_WAIT_2", "CLOSED"} /\ Over(c, h)
        BY <2>1, <4>5, TurnOver
      <4> QED BY <4>1, <4>2, <4>3, <4>4, <4>5 DEF Ready
    <3>2. ASSUME must PROVE Drained(r.c)
      <4>1. /\ r.c.curseq = c.curseq /\ r.c.highest_ack = c.highest_ack
            /\ r.c.state = "CLOSE_WAIT" /\ r.c.maxseq >= c.maxseq /\ r.c.maxseq \in Int
        BY <3>1, <3>2 DEF Sending, Kept, ControlBlock
      <4>2. Open(r.c, h) /\ Open(c, h)
        BY <3>1, <3>2, <4>1 DEF Sending, Shape, Ready
      <4>3. CASE Drained(c)
        BY <1>t, <4>1, <4>2, <4>3 DEF Drained, Open
      <4>4. CASE ~Drained(c)
        <5>1. len > 0 /\ seq = c.highest_ack
          BY <3>2, <4>2, <4>4, MustDrain
        <5>2. len \in Nat
          BY <1>t, DataLen
        <5> DEFINE fl == pflags(c, seq, len)
        <5>3. fl \in SUBSET Flags
          BY <1>t, <5>2, PflagsIs
        <5>4. Reliable(fl, len) \in Nat /\ Reliable(fl, len) >= len
          BY <5>2, <5>3, ReliableIs
        <5>5. r.c.maxseq >= seq + Reliable(fl, len)
          <6>1. r.c.maxseq = IF seq + Reliable(fl, len) > c.maxseq
                             THEN seq + Reliable(fl, len) ELSE c.maxseq
            BY <2>1 DEF SendsAt
          <6> HIDE DEF fl, len, seq
          <6> QED BY <1>t, <5>4, <6>1
        <5> HIDE DEF fl, len, seq
        <5>6. r.c.maxseq > r.c.highest_ack
          BY <1>t, <4>1, <5>1, <5>2, <5>4, <5>5
        <5> QED BY <5>6 DEF Drained
      <4> QED BY <4>3, <4>4
    <3> QED BY <1>4, <3>1, <3>2
  <2>2. CASE r.c = c /\ r.go = FALSE /\ (~MaySend(c, seq, len) \/ (~force /\ ~send_allowed(c, win)))
    <3>1. Shape(c, h)
      <4>1. CASE \/ c.state \in {"SYN_SENT", "SYN_RECEIVED"} /\ Opening(c, h, 0) /\ force
                 \/ c.state = "LAST_ACK" /\ FinNext(c, h) /\ force
        BY <2>2, <4>1, MustSend
      <4>2. CASE ~(\/ c.state \in {"SYN_SENT", "SYN_RECEIVED"} /\ Opening(c, h, 0) /\ force
                   \/ c.state = "LAST_ACK" /\ FinNext(c, h) /\ force)
        BY <4>2 DEF Ready, Shape
      <4> QED BY <4>1, <4>2
    <3>2. Sending(c, r.c, h)
      BY <1>t, <2>2, <3>1 DEF Sending, Kept
    <3>3. ASSUME must PROVE Drained(c)
      <4>1. Open(c, h)
        BY <3>1, <3>3 DEF Shape
      <4> QED BY <2>2, <3>3, <4>1, MustDrain
    <3> QED BY <1>4, <2>2, <3>2, <3>3
  <2> QED BY <1>4, <2>1, <2>2
\* The other turns.
<1>6. ASSUME NEW s \in G PROVE SendOne(s, win) \in G
  <2> DEFINE q == SendOne(s, win)
             d == s.c
             len2 == datalen(d, d.t_seqno, win)
  <2>1. /\ s \in Turns /\ Sending(c, d, h) /\ (s.go => d.state \in opened)
        /\ must => Drained(d)
    BY <1>6
  <2>2. /\ q \in Turns
        /\ \/ q.c = d /\ q.go = FALSE
           \/ s.go /\ SendsAt(d, q, win)
    BY <2>1, TurnIs
  <2> SUFFICES q \in G
    BY DEF q
  <2> HIDE DEF q
  <2>3. CASE q.c = d /\ q.go = FALSE
    BY <2>1, <2>2, <2>3
  <2>4. CASE s.go /\ SendsAt(d, q, win)
    <3>1. d \in ControlBlock /\ d.state \in opened /\ Open(d, h) /\ OutOK(d, h) /\ d.state = c.state
      BY <2>1, <2>4 DEF Sending, Shape
    <3>2. Sending(d, q.c, h)
      BY <2>4, <3>1, TurnOpen
    <3>3. /\ d.maxseq \in Int /\ q.c.maxseq \in Int /\ d.maxseq >= c.maxseq
          /\ d.highest_ack \in Int /\ d.curseq \in Nat
      BY <2>1, <3>1, <3>2 DEF Sending, ControlBlock
    <3>4. Sending(c, q.c, h)
      BY <1>t, <2>1, <3>1, <3>2, <3>3 DEF Sending, Kept
    <3>5. q.go => q.c.state \in opened
      <4>1. q.go => q.c.state # "FIN_WAIT_1"
        BY <2>4 DEF SendsAt
      <4> QED BY <3>1, <3>2, <4>1 DEF Sending
    <3>6. ASSUME must PROVE Drained(q.c)
      <4>1. /\ q.c.curseq = d.curseq /\ q.c.highest_ack = d.highest_ack
            /\ q.c.state = "CLOSE_WAIT" /\ q.c.maxseq >= d.maxseq
        BY <3>1, <3>2, <3>6 DEF Sending, Kept
      <4>2. Open(q.c, h)
        BY <3>2, <4>1 DEF Sending, Shape
      <4>3. Drained(d) /\ Open(d, h)
        BY <2>1, <3>1, <3>6
      <4> QED BY <3>3, <4>1, <4>2, <4>3 DEF Drained, Open
    <3> QED BY <2>2, <3>4, <3>5, <3>6
  <2> QED BY <2>2, <2>3, <2>4
<1> HIDE DEF G
<1>7. f[n] \in G
  <2>1. f[1] \in G
    BY <1>3, <1>5
  <2> QED BY <1>0, <1>1, <2>1, <1>6, LoopKeeps
<1> QED BY <1>1, <1>7 DEF G

\* usrclosed, when everything has been sent; after the FIN of the peer nothing is
\* being sent again.
LEMMA UsrClosed ==
    ASSUME NEW c \in ControlBlock, NEW h \in Nat, NEW win \in Nat,
           c.state \in {"ESTABLISHED", "CLOSE_WAIT"}, Open(c, h), OutOK(c, h),
           c.maxseq = h + 1, c.state = "CLOSE_WAIT" => c.t_seqno = h + 1
    PROVE  LET u == usrclosed(c, win)
           IN  /\ u \in ControlBlock /\ Kept(c, u)
               /\ u.state = IF c.state = "CLOSE_WAIT" THEN "LAST_ACK" ELSE "FIN_WAIT_1"
               /\ Closing(u, h) /\ OutOK(u, h)
<1> DEFINE s == IF c.state = "CLOSE_WAIT" THEN "LAST_ACK" ELSE "FIN_WAIT_1"
           x == [c EXCEPT !.curseq = c.maxseq - 1, !.state = s]
           u == usrclosed(c, win)
<1>1. /\ c.curseq = h /\ 1 <= c.highest_ack /\ c.highest_ack <= h + 1 /\ c.rq.nxt >= 1
      /\ c.highest_ack \in Int /\ c.maxseq \in Int /\ c.rq.nxt \in Int /\ c.t_seqno \in Nat
      /\ c.highest_ack <= c.t_seqno /\ c.t_seqno <= h + 1
  BY DEF Open, ControlBlock, QueueType
<1>2. c.maxseq - 1 = h
  BY <1>1
<1>3. s \in {"FIN_WAIT_1", "LAST_ACK"} /\ s \in States
  BY DEF States
<1>4. u = send_much(x, TRUE, win)
  BY DEF usrclosed
<1>5. /\ x \in ControlBlock /\ Kept(c, x) /\ x.state = s /\ x.out = c.out
      /\ x.maxseq = h + 1 /\ x.t_seqno = c.t_seqno /\ x.curseq = h
  <2> HIDE DEF s
  <2> QED BY <1>1, <1>2, <1>3 DEF ControlBlock, Kept
<1> HIDE DEF x
<1>6. /\ x.state = "FIN_WAIT_1" => Closing(x, h)
      /\ x.state = "LAST_ACK" => FinNext(x, h)
  BY <1>1, <1>5 DEF FinNext, Closing, Kept
<1>7. Top(x, h) = h + 1 /\ Top(c, h) = h + 1
  BY <1>3, <1>5 DEF Top, FinStates
<1>8. Grows(c, h, x, h)
  BY <1>1, <1>5, <1>7 DEF Grows, Kept, FinStates
<1>9. OutOK(x, h)
  <2> SUFFICES ASSUME NEW i \in DOMAIN x.out PROVE PacketOK(x.out[i], x, h)
    BY DEF OutOK
  <2>1. PacketOK(c.out[i], c, h)
    BY <1>1, <1>5 DEF OutOK
  <2> QED BY <1>5, <1>8, <2>1, PacketStays
<1>10. Ready(x, h, TRUE)
  BY <1>3, <1>5, <1>6 DEF Ready
<1>11. Sending(x, u, h)
  BY <1>4, <1>5, <1>9, <1>10, SendMuch
<1>12. u \in ControlBlock /\ Kept(x, u) /\ u.state = s /\ Shape(u, h) /\ OutOK(u, h)
  BY <1>3, <1>5, <1>11 DEF Sending
<1>13. Closing(u, h)
  BY <1>3, <1>12 DEF Shape
<1>14. Kept(c, u)
  BY <1>5, <1>12 DEF Kept
<1> QED BY <1>12, <1>13, <1>14

\* The control block of an agent that has not sent anything.
LEMMA FreshIs ==
    ASSUME NEW state \in States, NEW n \in Nat
    PROVE  LET c == Fresh(state, n)
           IN  /\ c \in ControlBlock /\ Idle(c) /\ c.state = state /\ c.delivered = n
               /\ c.out = <<>> /\ c.maxseq = -1 /\ c.rtx = FALSE
<1>1. [blocks |-> {}, total |-> 0, nxt |-> -1] \in QueueType
  BY DEF QueueType
<1>2. <<>> \in Seq(Packet)
  OBVIOUS
<1> QED BY <1>1, <1>2 DEF Fresh, ControlBlock, Idle, iss_

\* connect sends the SYN.
LEMMA Connect ==
    ASSUME NEW state \in States, NEW nb \in Nat
    PROVE  LET c == connect([Fresh(state, 0) EXCEPT !.curseq = iss_ + nb])
           IN  /\ c \in ControlBlock /\ c.state = "SYN_SENT" /\ Opening(c, nb, 1)
               /\ c.maxseq = 1 /\ c.delivered = 0 /\ OutOK(c, nb)
<1> DEFINE b == [Fresh(state, 0) EXCEPT !.curseq = iss_ + nb]
           a == [b EXCEPT !.state = "SYN_SENT"]
           d == foutput(a, iss_, 0)
           c == Sent(d, iss_, 1)
           p == SentPacket(a, 0, 0)
<1>1. connect(b) = c
  BY DEF connect
<1>2. "SYN_SENT" \in States
  BY DEF States
<1>3. /\ a \in ControlBlock /\ a.state = "SYN_SENT" /\ a.curseq = nb /\ a.highest_ack = -1
      /\ a.t_seqno = 0 /\ a.maxseq = -1 /\ a.rq.nxt = -1 /\ a.rq.blocks = {}
      /\ a.out = <<>> /\ a.delivered = 0
  <2>1. /\ Fresh(state, 0) \in ControlBlock /\ Idle(Fresh(state, 0)) /\ Fresh(state, 0).delivered = 0
        /\ Fresh(state, 0).out = <<>> /\ Fresh(state, 0).maxseq = -1
    <3>1. 0 \in Nat
      OBVIOUS
    <3> QED BY <3>1, FreshIs, Zenon
  <2>2. iss_ + nb = nb
    BY DEF iss_
  <2> QED BY <1>2, <2>1, <2>2 DEF Idle, ControlBlock
<1> HIDE DEF a
<1>4. ~Closes(a, 0, 0)
  BY DEF Closes, NeedClose, iss_
<1>5. /\ pflags(a, 0, 0) \in SUBSET Flags /\ "SYN" \in pflags(a, 0, 0)
      /\ "FIN" \notin pflags(a, 0, 0) /\ "ACK" \notin pflags(a, 0, 0)
  BY <1>3, <1>4, PflagsIs
<1>6. Reliable(pflags(a, 0, 0), 0) = 1
  <2>1. Reliable(pflags(a, 0, 0), 0) = 0 + 1 + 0
    BY <1>5, ReliableIs
  <2> QED BY <2>1
<1>7. /\ d \in ControlBlock /\ Kept(a, d) /\ d.out = Append(a.out, p) /\ p \in Packet
      /\ d.state = "SYN_SENT" /\ d.t_seqno = 0
      /\ d.maxseq = IF 0 + 1 > a.maxseq THEN 0 + 1 ELSE a.maxseq
  <2>1. 0 \in Nat
    OBVIOUS
  <2>2. /\ d \in ControlBlock /\ Kept(a, d) /\ d.out = Append(a.out, p) /\ p \in Packet
        /\ d.state = (IF Closes(a, 0, 0) THEN "FIN_WAIT_1" ELSE a.state) /\ d.t_seqno = a.t_seqno
        /\ d.maxseq = IF 0 + Reliable(pflags(a, 0, 0), 0) > a.maxseq
                      THEN 0 + Reliable(pflags(a, 0, 0), 0) ELSE a.maxseq
    BY <1>3, <2>1, FoutputIs, Zenon DEF iss_
  <2> QED BY <1>3, <1>4, <1>6, <2>2
<1> HIDE DEF d
<1>8. d.maxseq = 1
  BY <1>3, <1>7
<1>9. c = [d EXCEPT !.t_seqno = 1]
  <2>1. "FIN" \notin outflags(d.state)
    BY <1>2, <1>7, OutFlags
  <2>2. d.t_seqno = 0 /\ 0 + 1 = 1
    BY <1>7
  <2> QED BY <1>7, <2>1, <2>2 DEF Sent, iss_, ControlBlock
<1>10. /\ c \in ControlBlock /\ c.state = "SYN_SENT" /\ c.maxseq = 1 /\ c.t_seqno = 1
       /\ c.curseq = nb /\ c.highest_ack = -1 /\ c.rq = a.rq /\ c.delivered = 0
       /\ c.out = Append(a.out, p)
  BY <1>3, <1>7, <1>8, <1>9 DEF ControlBlock, Kept
<1> HIDE DEF c
<1>11. Opening(c, nb, 1)
  BY <1>3, <1>10 DEF Opening
<1>12. p.seq = 0 /\ p.flags = pflags(a, 0, 0) /\ p.len = 0
  BY DEF SentPacket
<1>13. PacketOK(p, c, nb)
  BY <1>5, <1>7, <1>10, <1>12 DEF PacketOK
<1>14. OutOK(c, nb)
  <2> SUFFICES ASSUME NEW i \in DOMAIN c.out PROVE PacketOK(c.out[i], c, nb)
    BY DEF OutOK
  <2>1. a.out = <<>> /\ p \in Packet
    BY <1>3, <1>7
  <2>2. c.out = <<p>>
    BY <1>10, <2>1
  <2>3. c.out[i] = p
    BY <2>2
  <2> QED BY <1>13, <2>3
<1> QED BY <1>1, <1>10, <1>11, <1>14

-----------------------------------------------------------------------------
(* Both ends *)

\* The agent at e has been opened: A connects with its first message.
Opened(e, h) == e = "A" => h > 0

\* The agent has been reset after its LAST_ACK.
WasReset(e, c, h) == c.state = "CLOSED" /\ c.maxseq <= 0 /\ Opened(e, h)

\* The agent at e has sent its FIN.
FinSent(e, c, h) ==
    /\ c.state \in FinStates /\ (c.state = "CLOSED" => Opened(e, h))
    /\ c.maxseq = h + 2 \/ WasReset(e, c, h)

\* SawFin, of a control block.
SeesFin(e, c, h) ==
    \/ c.state \in {"CLOSE_WAIT", "CLOSING", "LAST_ACK"}
    \/ c.state = "CLOSED" /\ Opened(e, h)

\* The agent closed after its peer.
Passive(e, c, h) == c.state = "LAST_ACK" \/ WasReset(e, c, h)

\* The agent at e by itself.
BlockOK(e, c, h) ==
    /\ c \in ControlBlock /\ h \in Nat /\ Shape(c, h) /\ OutOK(c, h)
    /\ c.state = "LISTEN" => e # "A" /\ h = 0
    /\ c.state \notin {"CLOSED", "LISTEN"} \/ c.maxseq > 0 => Opened(e, h)

\* The data from e (c, h) to f (d, g): the sequence numbers of the two ends.
Numbers(e, c, h, f, d, g) ==
    /\ d.rq.nxt >= 1 => c.maxseq >= 1 \/ WasReset(e, c, h)
    /\ d.rq.nxt >= 1 => c.highest_ack <= d.rq.nxt
    /\ c.highest_ack >= 1 => d.rq.nxt >= 1 \/ WasReset(f, d, g)

\* What f has received and delivered.
Stream(e, c, h, f, d, g) ==
    /\ SeesFin(f, d, g) => /\ d.delivered = h /\ FinSent(e, c, h)
                           /\ WasReset(f, d, g) \/ d.rq.nxt = h + 2
    /\ ~SeesFin(f, d, g) => d.delivered = IF d.rq.nxt >= 1 THEN d.rq.nxt - 1 ELSE 0
    /\ ~SeesFin(f, d, g) /\ d.rq.nxt >= 1 =>
          /\ Waiting(d.rq, Top(c, h)) /\ FinAt(d.rq.blocks, Top(c, h))
          /\ HasFin(d.rq.blocks) => FinSent(e, c, h)

\* If e closed second, f does not wait for the ACK of its FIN when it gets e's.
Endings(e, c, h, f, d, g) ==
    /\ WasReset(e, c, h) => d.state = "CLOSED" /\ d.maxseq > 0
    /\ Passive(e, c, h) => /\ d.state \in {"FIN_WAIT_1", "FIN_WAIT_2", "CLOSED"}
                           /\ ~WasReset(f, d, g)
                           /\ HasFin(d.rq.blocks) => d.state # "FIN_WAIT_1"

\* All that links what e sends to what f receives.
Linked(e, c, h, f, d, g) ==
    Numbers(e, c, h, f, d, g) /\ Stream(e, c, h, f, d, g) /\ Endings(e, c, h, f, d, g)

\* The two agents, in the middle of a handler of e.
World(e, c, h, f, d, g) ==
    /\ BlockOK(e, c, h) /\ BlockOK(f, d, g)
    /\ Linked(e, c, h, f, d, g) /\ Linked(f, d, g, e, c, h)

\* A queue stays as it is when the sender sends more.
LEMMA WaitingMore ==
    ASSUME NEW rq, NEW m \in Int, NEW n \in Int, m <= n, Waiting(rq, m)
    PROVE  Waiting(rq, n)
  BY DEF Waiting, Good, Block

\* The types of the numbers.
LEMMA BlockTypes ==
    ASSUME NEW c \in ControlBlock, NEW h \in Nat
    PROVE  /\ c.state \in States /\ c.curseq \in Nat /\ c.highest_ack \in Int
           /\ c.t_seqno \in Nat /\ c.maxseq \in Int /\ c.rq \in QueueType
           /\ c.rq.nxt \in Int /\ c.delivered \in Nat /\ Top(c, h) \in Int
  BY DEF ControlBlock, QueueType, Top

\* The handler of e has led from c, h to x, k: packets of e that are in flight
\* stay true, unless e has been reset.
Moved(e, c, h, x, k) == WasReset(e, x, k) \/ (Grows(c, h, x, k) /\ ~WasReset(e, c, h))

\* Sending changes nothing between the two ends.
LEMMA SendKeeps ==
    ASSUME NEW e, NEW c, NEW h, NEW f, NEW d, NEW g, World(e, c, h, f, d, g),
           NEW x, Sending(c, x, h)
    PROVE  World(e, x, h, f, d, g) /\ Moved(e, c, h, x, h)
<1>0. /\ c \in ControlBlock /\ d \in ControlBlock /\ x \in ControlBlock /\ h \in Nat /\ g \in Nat
      /\ Shape(c, h) /\ Shape(x, h) /\ OutOK(x, h) /\ BlockOK(f, d, g)
  BY DEF World, BlockOK, Sending
<1>1. /\ c.highest_ack \in Int /\ c.maxseq \in Int /\ c.rq.nxt \in Int /\ Top(c, h) \in Int
      /\ x.highest_ack \in Int /\ x.maxseq \in Int /\ x.rq.nxt \in Int /\ Top(x, h) \in Int
      /\ d.highest_ack \in Int /\ d.maxseq \in Int /\ d.rq.nxt \in Int
  BY <1>0, BlockTypes
<1>2. /\ x.curseq = c.curseq /\ x.highest_ack = c.highest_ack /\ x.rq = c.rq
      /\ x.delivered = c.delivered /\ x.maxseq >= c.maxseq
      /\ x.state = c.state \/ (c.state = "ESTABLISHED" /\ x.state = "FIN_WAIT_1")
  BY DEF Sending, Kept
<1>3. c.maxseq >= 1 \/ c.state = "LISTEN" \/ (c.state = "CLOSED" /\ Idle(c) /\ x.maxseq <= 0)
  <2>1. c.state = "CLOSED" /\ Idle(c) => x.state = "CLOSED" /\ x.highest_ack = -1
    BY <1>2 DEF Idle
  <2>2. c.state = "CLOSED" /\ Idle(c) => Idle(x)
    BY <1>0, <2>1 DEF Shape, Over
  <2>3. c.state = "CLOSED" /\ Idle(c) => x.maxseq <= 0
    BY <2>2 DEF Idle
  <2>4. CASE c.state \in {"CLOSED", "LISTEN"} /\ Idle(c)
    BY <2>3, <2>4
  <2>5. CASE c.maxseq = 1
    BY <2>5
  <2>6. CASE Open(c, h)
    <3>1. c.t_seqno \in Nat
      BY <1>0 DEF ControlBlock
    <3> QED BY <1>1, <2>6, <3>1 DEF Open
  <2>7. CASE Closing(c, h) \/ Over(c, h)
    BY <1>0, <1>1, <2>7 DEF Closing, Over
  <2> QED BY <1>0, <2>4, <2>5, <2>6, <2>7 DEF Shape
<1>4. WasReset(e, x, h) <=> WasReset(e, c, h)
  BY <1>1, <1>2, <1>3 DEF WasReset
<1>5. SeesFin(e, x, h) <=> SeesFin(e, c, h)
  BY <1>2 DEF SeesFin
<1>f. c.state \in FinStates /\ c.maxseq = h + 2 => x.maxseq = h + 2
  <2> SUFFICES ASSUME c.state \in FinStates, c.maxseq = h + 2 PROVE x.maxseq = h + 2
    OBVIOUS
  <2>1. x.state \in FinStates /\ x.maxseq >= h + 2
    BY <1>1, <1>2 DEF FinStates
  <2>2. Closing(x, h) \/ Over(x, h)
    BY <1>0, <1>1, <2>1 DEF Shape, Idle, FinStates
  <2> QED BY <1>0, <1>1, <2>1, <2>2 DEF Closing, Over
<1>6. FinSent(e, c, h) => FinSent(e, x, h)
  BY <1>2, <1>4, <1>f DEF FinSent, FinStates
<1>7. Passive(e, x, h) <=> Passive(e, c, h)
  BY <1>2, <1>4 DEF Passive
<1>8. Top(c, h) <= Top(x, h) /\ (c.state \in FinStates => x.state \in FinStates /\ Top(x, h) = Top(c, h))
  <2>1. CASE x.state = c.state
    BY <1>1, <1>2, <2>1 DEF Top, FinStates
  <2>2. CASE c.state = "ESTABLISHED" /\ x.state = "FIN_WAIT_1"
    <3>1. Open(c, h)
      BY <1>0, <2>2 DEF Shape
    <3> QED BY <1>0, <1>1, <2>2, <3>1 DEF Top, FinStates, Open
  <2> QED BY <1>2, <2>1, <2>2
<1>9. Grows(c, h, x, h)
  BY <1>1, <1>2, <1>8, <1>f DEF Grows
<1>10. BlockOK(e, x, h)
  <2>1. c.state = "LISTEN" <=> x.state = "LISTEN"
    BY <1>2
  <2>2. x.state \notin {"CLOSED", "LISTEN"} \/ x.maxseq > 0 => Opened(e, h)
    <3> SUFFICES ASSUME x.state \notin {"CLOSED", "LISTEN"} \/ x.maxseq > 0 PROVE Opened(e, h)
      OBVIOUS
    <3>1. c.state \notin {"CLOSED", "LISTEN"} \/ c.maxseq > 0 => Opened(e, h)
      BY DEF World, BlockOK
    <3>2. CASE x.state \notin {"CLOSED", "LISTEN"}
      BY <1>2, <3>1, <3>2
    <3>3. CASE x.state = "CLOSED" /\ x.maxseq > 0
      BY <1>1, <1>2, <1>3, <3>1, <3>3
    <3>4. CASE x.state = "LISTEN"
      <4>1. Idle(x)
        BY <1>0, <3>4 DEF Shape
      <4> QED BY <1>1, <3>4, <4>1 DEF Idle
    <3> QED BY <3>2, <3>3, <3>4
  <2> QED BY <1>0, <2>1, <2>2 DEF World, BlockOK
<1>11. Numbers(e, x, h, f, d, g)
  BY <1>1, <1>2, <1>4 DEF World, Linked, Numbers
<1>12. Stream(e, x, h, f, d, g)
  <2>1. Stream(e, c, h, f, d, g)
    BY DEF World, Linked
  <2>2. ~SeesFin(f, d, g) /\ d.rq.nxt >= 1 =>
          /\ Waiting(d.rq, Top(x, h)) /\ FinAt(d.rq.blocks, Top(x, h))
    <3> SUFFICES ASSUME ~SeesFin(f, d, g), d.rq.nxt >= 1
                 PROVE  Waiting(d.rq, Top(x, h)) /\ FinAt(d.rq.blocks, Top(x, h))
      OBVIOUS
    <3>1. /\ Waiting(d.rq, Top(c, h)) /\ FinAt(d.rq.blocks, Top(c, h))
          /\ HasFin(d.rq.blocks) => FinSent(e, c, h)
      BY <2>1 DEF Stream
    <3>2. Waiting(d.rq, Top(x, h))
      BY <1>1, <1>8, <3>1, WaitingMore
    <3>3. FinAt(d.rq.blocks, Top(x, h))
      BY <1>8, <3>1 DEF FinAt, HasFin, FinSent
    <3> QED BY <3>2, <3>3
  <2> QED BY <1>6, <2>1, <2>2 DEF Stream
<1>13. Endings(e, x, h, f, d, g)
  BY <1>4, <1>7 DEF World, Linked, Endings
<1>14. Numbers(f, d, g, e, x, h)
  BY <1>2, <1>4 DEF World, Linked, Numbers
<1>15. Stream(f, d, g, e, x, h)
  BY <1>2, <1>4, <1>5 DEF World, Linked, Stream
<1>16. Endings(f, d, g, e, x, h)
  BY <1>1, <1>2, <1>4 DEF World, Linked, Endings
<1>17. Moved(e, c, h, x, h)
  BY <1>4, <1>9 DEF Moved
<1> QED BY <1>0, <1>10, <1>11, <1>12, <1>13, <1>14, <1>15, <1>16, <1>17 DEF World, Linked

\* Moves follow each other.
LEMMA MovedOn ==
    ASSUME NEW e, NEW c \in ControlBlock, NEW x \in ControlBlock, NEW y \in ControlBlock,
           NEW h \in Nat, NEW k \in Nat, NEW l \in Nat,
           Moved(e, c, h, x, k), Moved(e, x, k, y, l)
    PROVE  Moved(e, c, h, y, l)
<1>1. /\ c.rq.nxt \in Int /\ x.rq.nxt \in Int /\ y.rq.nxt \in Int
      /\ Top(c, h) \in Int /\ Top(x, k) \in Int /\ Top(y, l) \in Int
  BY BlockTypes
<1>2. CASE WasReset(e, y, l)
  BY <1>2 DEF Moved
<1>3. CASE Grows(x, k, y, l) /\ ~WasReset(e, x, k)
  <2>1. Grows(c, h, x, k) /\ ~WasReset(e, c, h)
    BY <1>3 DEF Moved
  <2>2. Grows(c, h, y, l)
    BY <1>1, <1>3, <2>1 DEF Grows
  <2> QED BY <2>1, <2>2 DEF Moved
<1> QED BY <1>2, <1>3 DEF Moved

\* What e does without receiving anything.
LEMMA Carry ==
    ASSUME NEW e, NEW c, NEW h, NEW f, NEW d, NEW g, World(e, c, h, f, d, g),
           NEW x, NEW k, BlockOK(e, x, k),
           x.rq.nxt = c.rq.nxt, x.rq.blocks = c.rq.blocks, x.delivered = c.delivered,
           WasReset(e, c, h) => WasReset(e, x, k),
           SeesFin(e, x, k) <=> SeesFin(e, c, h),
           WasReset(e, x, k) => WasReset(e, c, h),
           FinSent(e, c, h) => FinSent(e, x, k) /\ k = h,
           Top(c, h) <= Top(x, k),
           Numbers(e, x, k, f, d, g), Endings(e, x, k, f, d, g), Endings(f, d, g, e, x, k)
    PROVE  World(e, x, k, f, d, g)
<1>0. /\ c \in ControlBlock /\ d \in ControlBlock /\ x \in ControlBlock
      /\ h \in Nat /\ g \in Nat /\ k \in Nat /\ BlockOK(f, d, g)
  BY DEF World, BlockOK
<1>1. /\ c.rq.nxt \in Int /\ Top(c, h) \in Int /\ Top(d, g) \in Int
      /\ Top(x, k) \in Int /\ d.rq.nxt \in Int /\ x.rq \in QueueType
  BY <1>0, BlockTypes
<1>2. Stream(e, c, h, f, d, g) /\ Stream(f, d, g, e, c, h) /\ Numbers(f, d, g, e, c, h)
  BY DEF World, Linked
<1>3. Stream(e, x, k, f, d, g)
  <2>1. SeesFin(f, d, g) => /\ d.delivered = k /\ FinSent(e, x, k)
                            /\ WasReset(f, d, g) \/ d.rq.nxt = k + 2
    BY <1>2 DEF Stream
  <2>2. ASSUME ~SeesFin(f, d, g), d.rq.nxt >= 1
        PROVE  /\ Waiting(d.rq, Top(x, k)) /\ FinAt(d.rq.blocks, Top(x, k))
               /\ HasFin(d.rq.blocks) => FinSent(e, x, k)
    <3>1. /\ Waiting(d.rq, Top(c, h)) /\ FinAt(d.rq.blocks, Top(c, h))
          /\ HasFin(d.rq.blocks) => FinSent(e, c, h)
      BY <1>2, <2>2 DEF Stream
    <3>2. Waiting(d.rq, Top(x, k))
      BY <1>1, <3>1, WaitingMore
    <3>3. HasFin(d.rq.blocks) => Top(x, k) = Top(c, h)
      BY <3>1 DEF FinSent, Top
    <3>4. FinAt(d.rq.blocks, Top(x, k))
      BY <3>1, <3>3 DEF FinAt, HasFin
    <3> QED BY <3>1, <3>2, <3>4
  <2>3. ~SeesFin(f, d, g) => d.delivered = IF d.rq.nxt >= 1 THEN d.rq.nxt - 1 ELSE 0
    BY <1>2 DEF Stream
  <2> QED BY <2>1, <2>2, <2>3 DEF Stream
<1>4. Numbers(f, d, g, e, x, k)
  BY <1>2 DEF Numbers
<1>5. Stream(f, d, g, e, x, k)
  <2>1. Waiting(c.rq, Top(d, g)) => Waiting(x.rq, Top(d, g))
    BY <1>1 DEF Waiting
  <2> QED BY <1>2, <2>1 DEF Stream
<1> QED BY <1>0, <1>3, <1>4, <1>5 DEF World, Linked

\* The fields that the two ends have in common are the same.
Same(c, x) ==
    /\ x.state = c.state /\ x.curseq = c.curseq /\ x.highest_ack = c.highest_ack
    /\ x.t_seqno = c.t_seqno /\ x.maxseq = c.maxseq /\ x.rq = c.rq
    /\ x.delivered = c.delivered /\ (x.rtx => c.rtx)

\* The other fields do not matter to the two ends.
LEMMA Alike ==
    ASSUME NEW e, NEW c, NEW h, NEW f, NEW d, NEW g, World(e, c, h, f, d, g),
           NEW x \in ControlBlock, Same(c, x), OutOK(x, h)
    PROVE  /\ World(e, x, h, f, d, g) /\ Grows(c, h, x, h)
           /\ WasReset(e, x, h) <=> WasReset(e, c, h)
           /\ Moved(e, c, h, x, h)
<1>0. /\ c \in ControlBlock /\ h \in Nat /\ Shape(c, h) /\ BlockOK(e, c, h)
  BY DEF World, BlockOK
<1>1. c.rq.nxt \in Int /\ Top(c, h) \in Int
  BY <1>0, BlockTypes
<1>2. Top(x, h) = Top(c, h)
  BY DEF Same, Top
<1>3. Shape(x, h)
  BY <1>0 DEF Same, Shape, Idle, Opening, Open, Closing, Over
<1>4. BlockOK(e, x, h)
  BY <1>0, <1>3 DEF BlockOK, Same
<1>5. /\ WasReset(e, x, h) <=> WasReset(e, c, h)
      /\ SeesFin(e, x, h) <=> SeesFin(e, c, h)
      /\ FinSent(e, x, h) <=> FinSent(e, c, h)
      /\ Passive(e, x, h) <=> Passive(e, c, h)
  BY DEF Same, WasReset, SeesFin, FinSent, Passive
<1>6. Numbers(e, x, h, f, d, g)
  BY <1>5 DEF World, Linked, Numbers, Same
<1>7. Endings(e, x, h, f, d, g)
  BY <1>5 DEF World, Linked, Endings
<1>8. Endings(f, d, g, e, x, h)
  BY <1>5 DEF World, Linked, Endings, Same
<1>9. World(e, x, h, f, d, g)
  BY <1>1, <1>2, <1>4, <1>5, <1>6, <1>7, <1>8, Carry DEF Same
<1>10. Grows(c, h, x, h)
  BY <1>1, <1>2 DEF Grows, Same
<1> QED BY <1>5, <1>9, <1>10 DEF Moved

\* usrclosed, of the application or after the FIN of the peer.
LEMMA CloseKeeps ==
    ASSUME NEW e, NEW c, NEW h, NEW f, NEW d, NEW g, World(e, c, h, f, d, g),
           c.state \in {"ESTABLISHED", "CLOSE_WAIT"}, c.maxseq = h + 1,
           c.state = "CLOSE_WAIT" => c.t_seqno = h + 1,
           NEW win \in Nat
    PROVE  LET u == usrclosed(c, win)
           IN  /\ World(e, u, h, f, d, g) /\ Moved(e, c, h, u, h)
               /\ u.state \in {"FIN_WAIT_1", "LAST_ACK"}
<1> DEFINE u == usrclosed(c, win)
<1>0. /\ c \in ControlBlock /\ h \in Nat /\ d \in ControlBlock /\ g \in Nat
      /\ Shape(c, h) /\ OutOK(c, h) /\ BlockOK(e, c, h) /\ Shape(d, g)
  BY DEF World, BlockOK
<1>1. Open(c, h)
  BY <1>0 DEF Shape
<1>2. /\ u \in ControlBlock /\ Kept(c, u) /\ Closing(u, h) /\ OutOK(u, h)
      /\ u.state = IF c.state = "CLOSE_WAIT" THEN "LAST_ACK" ELSE "FIN_WAIT_1"
  BY <1>0, <1>1, UsrClosed
<1> HIDE DEF u
<1>3. /\ c.rq.nxt \in Int /\ c.highest_ack \in Int /\ d.rq.nxt \in Int /\ d.maxseq \in Int
  BY <1>0, BlockTypes
<1>4. u.maxseq \in {h + 1, h + 2} /\ u.rq = c.rq /\ u.highest_ack = c.highest_ack /\ u.delivered = c.delivered
  BY <1>2 DEF Closing, Kept
<1>5. Top(c, h) = h + 1 /\ Top(u, h) = h + 1
  BY <1>2 DEF Top, FinStates
<1>6. Opened(e, h) /\ c.state # "CLOSED" /\ u.state # "CLOSED" /\ u.state \in {"FIN_WAIT_1", "LAST_ACK"}
  BY <1>0, <1>2 DEF BlockOK
<1>7. BlockOK(e, u, h)
  BY <1>0, <1>2, <1>6 DEF BlockOK, Shape
<1>8. /\ ~WasReset(e, c, h) /\ ~WasReset(e, u, h)
      /\ SeesFin(e, u, h) <=> SeesFin(e, c, h)
      /\ ~FinSent(e, c, h)
  BY <1>2, <1>6 DEF WasReset, SeesFin, FinSent, FinStates
<1>9. Numbers(e, u, h, f, d, g)
  BY <1>0, <1>4, <1>8 DEF World, Linked, Numbers
<1>10. Endings(e, u, h, f, d, g)
  <2> SUFFICES ASSUME Passive(e, u, h)
               PROVE  /\ d.state \in {"FIN_WAIT_1", "FIN_WAIT_2", "CLOSED"}
                      /\ ~WasReset(f, d, g)
                      /\ HasFin(d.rq.blocks) => d.state # "FIN_WAIT_1"
    BY <1>8 DEF Endings
  <2>1. c.state = "CLOSE_WAIT"
    BY <1>2, <1>8 DEF Passive
  <2>2. SeesFin(e, c, h)
    BY <2>1 DEF SeesFin
  <2>3. FinSent(f, d, g) /\ ~SeesFin(f, d, g)
    BY <1>8, <2>2 DEF World, Linked, Stream
  <2>4. d.state \in {"FIN_WAIT_1", "FIN_WAIT_2"}
    BY <2>3 DEF FinSent, SeesFin, FinStates
  <2>5. d.rq.nxt >= 1
    BY <1>0, <2>4 DEF Shape, Closing, Over
  <2>6. ~HasFin(d.rq.blocks)
    BY <1>8, <2>3, <2>5 DEF World, Linked, Stream
  <2> QED BY <2>4, <2>6 DEF WasReset
<1>11. Endings(f, d, g, e, u, h)
  BY <1>6 DEF World, Linked, Endings
<1>12. World(e, u, h, f, d, g)
  BY <1>0, <1>4, <1>5, <1>7, <1>8, <1>9, <1>10, <1>11, Carry
<1>13. Grows(c, h, u, h)
  BY <1>0, <1>3, <1>4, <1>5 DEF Grows, FinStates
<1> QED BY <1>6, <1>8, <1>12, <1>13 DEF Moved, u

-----------------------------------------------------------------------------
(* An ACK arrives *)

\* The peer has received no more than was sent, and what was acknowledged.
LEMMA PeerHas ==
    ASSUME NEW e, NEW c, NEW h, NEW f, NEW d, NEW g, World(e, c, h, f, d, g),
           d.rq.nxt >= 1, c.maxseq >= 1
    PROVE  /\ c.highest_ack <= d.rq.nxt /\ d.rq.nxt <= c.maxseq
           /\ ~WasReset(f, d, g) /\ d.maxseq >= 1
           /\ ~SeesFin(f, d, g) => d.rq.nxt <= Top(c, h)
<1>0. /\ c \in ControlBlock /\ h \in Nat /\ d \in ControlBlock /\ g \in Nat
      /\ Shape(c, h) /\ Shape(d, g)
  BY DEF World, BlockOK
<1>1. /\ c.maxseq \in Int /\ c.highest_ack \in Int /\ d.rq.nxt \in Int /\ d.maxseq \in Int
      /\ d.t_seqno \in Nat /\ d.highest_ack \in Int
  BY <1>0, BlockTypes
<1>2. ~Idle(c) /\ ~Idle(d)
  BY <1>1 DEF Idle
<1>3. d.maxseq >= 1
  <2>1. CASE d.maxseq = 1
    BY <2>1
  <2>2. CASE Open(d, g)
    BY <1>1, <2>2 DEF Open
  <2>3. CASE Closing(d, g) \/ Over(d, g)
    BY <1>0, <1>1, <2>3 DEF Closing, Over
  <2> QED BY <1>0, <1>2, <2>1, <2>2, <2>3 DEF Shape
<1>4. ~WasReset(f, d, g)
  BY <1>1, <1>3 DEF WasReset
<1>5. c.state \in FinStates => c.maxseq \in {h + 1, h + 2}
  BY <1>0, <1>2 DEF Shape, FinStates, Closing, Over
<1>6. Top(c, h) <= c.maxseq
  BY <1>0, <1>1, <1>5 DEF Top
<1>7. CASE SeesFin(f, d, g)
  <2>1. FinSent(e, c, h) /\ d.rq.nxt = h + 2
    BY <1>4, <1>7 DEF World, Linked, Stream
  <2>2. c.maxseq = h + 2
    BY <1>1, <2>1 DEF FinSent, WasReset
  <2>3. d.rq.nxt <= c.maxseq
    BY <1>1, <2>1, <2>2
  <2>4. c.highest_ack <= d.rq.nxt
    BY DEF World, Linked, Numbers
  <2> QED BY <1>3, <1>4, <1>7, <2>3, <2>4
<1>8. CASE ~SeesFin(f, d, g)
  <2>1. d.rq.nxt <= Top(c, h)
    BY <1>8 DEF World, Linked, Stream, Waiting
  <2>2. Top(c, h) \in Int
    BY <1>0, BlockTypes
  <2>3. d.rq.nxt <= c.maxseq
    BY <1>1, <1>6, <2>1, <2>2
  <2>4. c.highest_ack <= d.rq.nxt
    BY DEF World, Linked, Numbers
  <2> QED BY <1>3, <1>4, <2>1, <2>3, <2>4
<1> QED BY <1>7, <1>8

\* What an ACK within what was sent does to the control block.
LEMMA AfterAckIs ==
    ASSUME NEW c \in ControlBlock, NEW n \in Nat
    PROVE  LET b == AfterAck(c, n)
               acked(s) == n = c.maxseq /\ c.state = s
           IN  /\ b \in ControlBlock
               /\ acked("LAST_ACK") => b = Fresh("CLOSED", c.delivered)
               /\ ~acked("LAST_ACK") =>
                    /\ b.curseq = c.curseq /\ b.highest_ack = n /\ b.maxseq = c.maxseq
                    /\ b.t_seqno = IF c.t_seqno < n THEN n ELSE c.t_seqno
                    /\ b.rq = c.rq /\ b.acknow = c.acknow /\ b.out = c.out
                    /\ b.delivered = c.delivered /\ b.last_ack_sent = c.last_ack_sent
                    /\ b.state = IF acked("FIN_WAIT_1") THEN "FIN_WAIT_2"
                                 ELSE IF acked("CLOSING") THEN "CLOSED" ELSE c.state
<1> DEFINE b == AfterAck(c, n)
           open == n # c.maxseq
           t == IF c.t_seqno < n THEN n ELSE c.t_seqno
           x == [c EXCEPT !.highest_ack = n, !.rtx = open, !.t_seqno = t]
<1>0. "FIN_WAIT_2" \in States /\ "CLOSED" \in States
  BY DEF States
<1>1. /\ x \in ControlBlock
      /\ x.curseq = c.curseq /\ x.highest_ack = n /\ x.maxseq = c.maxseq
      /\ x.t_seqno = IF c.t_seqno < n THEN n ELSE c.t_seqno
      /\ x.rq = c.rq /\ x.acknow = c.acknow /\ x.out = c.out
      /\ x.delivered = c.delivered /\ x.last_ack_sent = c.last_ack_sent
      /\ x.state = c.state
  <2>1. open \in BOOLEAN /\ t \in Nat /\ n \in Int
    BY DEF ControlBlock
  <2> HIDE DEF open, t
  <2>2. x \in ControlBlock /\ x.t_seqno = t
    BY <2>1 DEF ControlBlock
  <2>3. /\ x.curseq = c.curseq /\ x.highest_ack = n /\ x.maxseq = c.maxseq
        /\ x.rq = c.rq /\ x.acknow = c.acknow /\ x.out = c.out
        /\ x.delivered = c.delivered /\ x.last_ack_sent = c.last_ack_sent
        /\ x.state = c.state
    BY <2>1 DEF ControlBlock
  <2> HIDE DEF x
  <2> QED BY <2>2, <2>3 DEF t
<1> DEFINE y(s) == [x EXCEPT !.state = s, !.rtx = FALSE]
<1>2. ASSUME NEW s \in States
      PROVE  /\ y(s) \in ControlBlock
             /\ y(s).curseq = c.curseq /\ y(s).highest_ack = n /\ y(s).maxseq = c.maxseq
             /\ y(s).t_seqno = IF c.t_seqno < n THEN n ELSE c.t_seqno
             /\ y(s).rq = c.rq /\ y(s).acknow = c.acknow /\ y(s).out = c.out
             /\ y(s).delivered = c.delivered /\ y(s).last_ack_sent = c.last_ack_sent
             /\ y(s).state = s
  <2> HIDE DEF x
  <2> QED BY <1>1, <1>2 DEF ControlBlock
<1>3. CASE n = c.maxseq /\ c.state = "FIN_WAIT_1"
  <2>1. b = y("FIN_WAIT_2")
    BY <1>3, Zenon DEF AfterAck, ourfinisacked
  <2> HIDE DEF b, y
  <2> QED BY <1>0, <1>2, <1>3, <2>1 DEF b
<1>4. CASE n = c.maxseq /\ c.state = "CLOSING"
  <2>1. b = y("CLOSED")
    BY <1>4, Zenon DEF AfterAck, ourfinisacked
  <2> HIDE DEF b, y
  <2> QED BY <1>0, <1>2, <1>4, <2>1 DEF b
<1>5. CASE n = c.maxseq /\ c.state = "LAST_ACK"
  <2>1. b = Fresh("CLOSED", c.delivered)
    BY <1>5, Zenon DEF AfterAck, ourfinisacked
  <2>2. c.delivered \in Nat
    BY DEF ControlBlock
  <2>3. b \in ControlBlock
    BY <1>0, <2>1, <2>2, FreshIs
  <2> QED BY <1>5, <2>1, <2>3
<1>6. CASE ~(n = c.maxseq /\ c.state \in {"FIN_WAIT_1", "CLOSING", "LAST_ACK"})
  <2>1. b = x
    BY <1>6, Zenon DEF AfterAck, ourfinisacked
  <2> HIDE DEF b, x
  <2> QED BY <1>1, <1>6, <2>1 DEF b
<1> QED BY <1>3, <1>4, <1>5, <1>6

\* An agent whose numbers are those of c but for the ACK: x is c after the ACK n.
Acked(c, x, n) ==
    /\ x \in ControlBlock /\ x.curseq = c.curseq /\ x.highest_ack = n /\ x.maxseq = c.maxseq
    /\ x.t_seqno = IF c.t_seqno < n THEN n ELSE c.t_seqno
    /\ x.rq = c.rq /\ x.out = c.out /\ x.delivered = c.delivered
    /\ \/ x.state = c.state /\ (n = c.maxseq => c.state \in {"ESTABLISHED", "CLOSE_WAIT"})
       \/ n = c.maxseq /\ c.state = "FIN_WAIT_1" /\ x.state = "FIN_WAIT_2"
       \/ n = c.maxseq /\ c.state = "CLOSING" /\ x.state = "CLOSED"

\* An ACK of something new keeps the numbers in order.
LEMMA AckShape ==
    ASSUME NEW c \in ControlBlock, NEW h \in Nat, NEW n \in Nat, NEW x, Acked(c, x, n),
           c.state \in {"ESTABLISHED", "CLOSE_WAIT", "FIN_WAIT_1", "CLOSING", "LAST_ACK"},
           Shape(c, h), c.highest_ack < n, n <= c.maxseq
    PROVE  Shape(x, h) /\ Top(x, h) = Top(c, h)
<1>0. /\ c.highest_ack \in Int /\ c.t_seqno \in Nat /\ c.maxseq \in Int /\ c.rq.nxt \in Int
  BY BlockTypes
<1>1. /\ x.curseq = c.curseq /\ x.highest_ack = n /\ x.maxseq = c.maxseq
      /\ x.t_seqno = IF c.t_seqno < n THEN n ELSE c.t_seqno
      /\ x.rq = c.rq
  BY DEF Acked
<1>2. CASE c.state \in {"ESTABLISHED", "CLOSE_WAIT"}
  <2>1. Open(c, h)
    BY <1>2 DEF Shape
  <2>2. x.state = c.state
    BY <1>2 DEF Acked
  <2>3. Open(x, h)
    BY <1>0, <1>1, <2>1 DEF Open
  <2> QED BY <1>1, <1>2, <2>2, <2>3 DEF Shape, Top
<1>3. CASE c.state \in {"FIN_WAIT_1", "CLOSING", "LAST_ACK"}
  <2>1. Closing(c, h)
    BY <1>3 DEF Shape
  <2>2. CASE x.state = c.state /\ n # c.maxseq
    <3>1. Closing(x, h)
      BY <1>0, <1>1, <2>1, <2>2 DEF Closing
    <3> QED BY <1>1, <1>3, <2>2, <3>1 DEF Shape, Top
  <2>3. CASE n = c.maxseq /\ x.state \in {"FIN_WAIT_2", "CLOSED"}
    <3>1. Over(x, h)
      BY <1>0, <1>1, <2>1, <2>3 DEF Closing, Over
    <3> QED BY <1>1, <1>3, <2>3, <3>1 DEF Shape, Top, FinStates
  <2> QED BY <1>3, <2>2, <2>3 DEF Acked
<1> QED BY <1>2, <1>3

\* An ACK that the peer can have sent keeps the two ends together.
LEMMA AckedKeeps ==
    ASSUME NEW e, NEW c, NEW h, NEW f, NEW d, NEW g, World(e, c, h, f, d, g),
           NEW n \in Nat, NEW x, Acked(c, x, n),
           c.state \in {"ESTABLISHED", "CLOSE_WAIT", "FIN_WAIT_1", "CLOSING", "LAST_ACK"},
           c.highest_ack < n, n <= d.rq.nxt
    PROVE  World(e, x, h, f, d, g) /\ Moved(e, c, h, x, h)
<1>0. /\ c \in ControlBlock /\ h \in Nat /\ d \in ControlBlock /\ g \in Nat /\ x \in ControlBlock
      /\ Shape(c, h) /\ OutOK(c, h) /\ BlockOK(e, c, h) /\ Shape(d, g)
  BY DEF World, BlockOK, Acked
<1>1. /\ c.rq.nxt \in Int /\ c.highest_ack \in Int /\ c.t_seqno \in Nat /\ c.maxseq \in Int
      /\ d.rq.nxt \in Int /\ d.maxseq \in Int /\ Top(c, h) \in Int
  BY <1>0, BlockTypes
<1>2. 1 <= c.highest_ack /\ c.maxseq >= 1
  BY <1>0, <1>1 DEF Shape, Open, Closing
<1>3. d.rq.nxt >= 1
  BY <1>1, <1>2
<1>4. n <= c.maxseq /\ ~WasReset(f, d, g)
  BY <1>1, <1>2, <1>3, PeerHas
<1>5. Shape(x, h) /\ Top(x, h) = Top(c, h)
  BY <1>0, <1>4, AckShape
<1>6. /\ x.highest_ack = n /\ x.maxseq = c.maxseq /\ x.rq = c.rq /\ x.out = c.out
      /\ x.delivered = c.delivered
      /\ \/ x.state = c.state
         \/ c.state = "FIN_WAIT_1" /\ x.state = "FIN_WAIT_2"
         \/ c.state = "CLOSING" /\ x.state = "CLOSED"
  BY DEF Acked
<1>7. Grows(c, h, x, h)
  BY <1>1, <1>5, <1>6 DEF Grows, FinStates
<1>8. OutOK(x, h)
  <2> SUFFICES ASSUME NEW i \in DOMAIN x.out PROVE PacketOK(x.out[i], x, h)
    BY DEF OutOK
  <2>1. PacketOK(c.out[i], c, h)
    BY <1>0, <1>2, <1>6 DEF OutOK
  <2> QED BY <1>0, <1>6, <1>7, <2>1, PacketStays
<1>9. Opened(e, h)
  BY <1>0 DEF BlockOK
<1>10. BlockOK(e, x, h)
  BY <1>0, <1>5, <1>6, <1>8, <1>9 DEF BlockOK
<1>11. /\ ~WasReset(e, c, h) /\ ~WasReset(e, x, h)
       /\ SeesFin(e, x, h) <=> SeesFin(e, c, h)
       /\ FinSent(e, c, h) => FinSent(e, x, h)
       /\ Passive(e, x, h) <=> Passive(e, c, h)
  BY <1>1, <1>2, <1>6, <1>9 DEF WasReset, SeesFin, FinSent, FinStates, Passive
<1>12. Numbers(e, x, h, f, d, g)
  BY <1>2, <1>3, <1>6 DEF Numbers
<1>13. Endings(e, x, h, f, d, g)
  BY <1>11 DEF World, Linked, Endings
<1>14. Endings(f, d, g, e, x, h)
  BY <1>4, <1>6, <1>11 DEF World, Linked, Endings
<1>15. World(e, x, h, f, d, g)
  BY <1>1, <1>5, <1>6, <1>10, <1>11, <1>12, <1>13, <1>14, Carry
<1> QED BY <1>7, <1>11, <1>15 DEF Moved

\* The ACK of the FIN in LAST_ACK: the agent is reset, and the peer is closed.
LEMMA ResetKeeps ==
    ASSUME NEW e, NEW c, NEW h, NEW f, NEW d, NEW g, World(e, c, h, f, d, g),
           c.state = "LAST_ACK", d.rq.nxt >= c.maxseq
    PROVE  LET x == Fresh("CLOSED", c.delivered)
           IN  World(e, x, h, f, d, g) /\ WasReset(e, x, h)
<1> DEFINE x == Fresh("CLOSED", c.delivered)
<1>0. /\ c \in ControlBlock /\ h \in Nat /\ d \in ControlBlock /\ g \in Nat
      /\ Shape(c, h) /\ BlockOK(e, c, h) /\ Shape(d, g) /\ BlockOK(f, d, g)
  BY DEF World, BlockOK
<1>1. /\ c.maxseq \in Int /\ d.rq.nxt \in Int /\ d.maxseq \in Int /\ c.delivered \in Nat
  BY <1>0, BlockTypes
<1>2. c.maxseq = h + 2 /\ c.maxseq >= 1 /\ d.rq.nxt >= 1
  BY <1>0, <1>1 DEF Shape, Closing
<1>3. d.rq.nxt = h + 2 /\ SeesFin(f, d, g) /\ ~WasReset(f, d, g) /\ d.maxseq >= 1
  <2>1. /\ d.rq.nxt <= c.maxseq /\ ~WasReset(f, d, g) /\ d.maxseq >= 1
        /\ ~SeesFin(f, d, g) => d.rq.nxt <= Top(c, h)
    BY <1>2, PeerHas
  <2>2. Top(c, h) = h + 1
    BY DEF Top, FinStates
  <2> QED BY <1>0, <1>1, <1>2, <2>1, <2>2
<1>4. Passive(e, c, h) /\ SeesFin(e, c, h)
  BY DEF Passive, SeesFin
<1>5. d.state = "CLOSED" /\ Opened(f, g)
  <2>1. d.state \in {"FIN_WAIT_1", "FIN_WAIT_2", "CLOSED"}
    BY <1>4 DEF World, Linked, Endings
  <2> QED BY <1>3, <2>1 DEF SeesFin
<1>6. Opened(e, h)
  BY <1>0 DEF BlockOK
<1>7. /\ x \in ControlBlock /\ Idle(x) /\ x.state = "CLOSED" /\ x.delivered = c.delivered
      /\ x.maxseq = -1
  <2>1. "CLOSED" \in States
    BY DEF States
  <2> QED BY <1>1, <2>1, FreshIs
<1>x. x.rq.nxt = -1 /\ x.highest_ack = -1
  BY <1>7 DEF Idle
<1> HIDE DEF x
<1>8. WasReset(e, x, h) /\ SeesFin(e, x, h) /\ FinSent(e, x, h)
  BY <1>6, <1>7 DEF WasReset, SeesFin, FinSent, FinStates
<1>9. BlockOK(e, x, h)
  BY <1>0, <1>6, <1>7 DEF BlockOK, Shape, OutOK
<1>10. Numbers(e, x, h, f, d, g)
  BY <1>1, <1>3, <1>8, <1>x DEF Numbers
<1>11. Stream(e, x, h, f, d, g)
  <2>1. d.delivered = h
    BY <1>3 DEF World, Linked, Stream
  <2> QED BY <1>3, <1>8, <2>1 DEF Stream
<1>12. Endings(e, x, h, f, d, g)
  BY <1>1, <1>3, <1>5 DEF Endings
<1>13. Numbers(f, d, g, e, x, h)
  BY <1>8, <1>x DEF Numbers
<1>14. Stream(f, d, g, e, x, h)
  <2>1. c.delivered = g /\ FinSent(f, d, g)
    BY <1>4 DEF World, Linked, Stream
  <2> QED BY <1>7, <1>8, <2>1 DEF Stream
<1>15. Endings(f, d, g, e, x, h)
  BY <1>3, <1>5 DEF Endings, Passive
<1> QED BY <1>0, <1>8, <1>9, <1>10, <1>11, <1>12, <1>13, <1>14, <1>15 DEF World, Linked, x

-----------------------------------------------------------------------------
(* Data and the FIN arrive *)

\* The FIN of the peer: the control block afterwards.
LEMMA AfterFinIs ==
    ASSUME NEW c \in ControlBlock, c.state \in {"ESTABLISHED", "FIN_WAIT_1", "FIN_WAIT_2"}
    PROVE  LET y == AfterFin(c)
           IN  /\ y \in ControlBlock /\ y.curseq = c.curseq /\ y.highest_ack = c.highest_ack
               /\ y.t_seqno = c.t_seqno /\ y.maxseq = c.maxseq /\ y.out = c.out
               /\ y.delivered = c.delivered /\ y.rq.nxt = c.rq.nxt + 1
               /\ y.rq.blocks = c.rq.blocks /\ y.acknow = TRUE
               /\ y.state = IF c.state = "ESTABLISHED" THEN "CLOSE_WAIT"
                            ELSE IF c.state = "FIN_WAIT_1" THEN "CLOSING" ELSE "CLOSED"
<1> DEFINE y == AfterFin(c)
           q == [c.rq EXCEPT !.nxt = @ + 1]
           z(s, rtx) == [c EXCEPT !.acknow = TRUE, !.rq = q, !.state = s, !.rtx = rtx]
           timer == c.rtx /\ c.state # "FIN_WAIT_2"
<1>1. q \in QueueType /\ q.nxt = c.rq.nxt + 1 /\ q.blocks = c.rq.blocks
  <2>1. c.rq \in QueueType
    BY DEF ControlBlock
  <2> QED BY <2>1 DEF QueueType
<1>2. ASSUME NEW s \in States, NEW b \in BOOLEAN
      PROVE  /\ z(s, b) \in ControlBlock /\ z(s, b).curseq = c.curseq
             /\ z(s, b).highest_ack = c.highest_ack
             /\ z(s, b).t_seqno = c.t_seqno /\ z(s, b).maxseq = c.maxseq
             /\ z(s, b).out = c.out /\ z(s, b).delivered = c.delivered /\ z(s, b).rq = q
             /\ z(s, b).acknow = TRUE /\ z(s, b).state = s
  <2> HIDE DEF q
  <2> QED BY <1>1, <1>2 DEF ControlBlock
<1>3. timer \in BOOLEAN
  BY DEF ControlBlock
<1>5. CASE c.state = "ESTABLISHED"
  <2>1. y = z("CLOSE_WAIT", timer)
    BY <1>5, Zenon DEF AfterFin
  <2>2. "CLOSE_WAIT" \in States
    BY DEF States
  <2> HIDE DEF y, z, timer, q
  <2>3. /\ y \in ControlBlock /\ y.curseq = c.curseq /\ y.highest_ack = c.highest_ack
        /\ y.t_seqno = c.t_seqno /\ y.maxseq = c.maxseq /\ y.out = c.out
        /\ y.delivered = c.delivered /\ y.rq = q /\ y.acknow = TRUE /\ y.state = "CLOSE_WAIT"
    BY <1>2, <1>3, <2>1, <2>2, Zenon
  <2> QED BY <1>1, <1>5, <2>3 DEF y
<1>6. CASE c.state = "FIN_WAIT_1"
  <2>1. y = z("CLOSING", timer)
    BY <1>6, Zenon DEF AfterFin
  <2>2. "CLOSING" \in States
    BY DEF States
  <2> HIDE DEF y, z, timer, q
  <2>3. /\ y \in ControlBlock /\ y.curseq = c.curseq /\ y.highest_ack = c.highest_ack
        /\ y.t_seqno = c.t_seqno /\ y.maxseq = c.maxseq /\ y.out = c.out
        /\ y.delivered = c.delivered /\ y.rq = q /\ y.acknow = TRUE /\ y.state = "CLOSING"
    BY <1>2, <1>3, <2>1, <2>2, Zenon
  <2> QED BY <1>1, <1>6, <2>3 DEF y
<1>7. CASE c.state = "FIN_WAIT_2"
  <2>1. y = z("CLOSED", timer)
    BY <1>7, Zenon DEF AfterFin
  <2>2. "CLOSED" \in States
    BY DEF States
  <2> HIDE DEF y, z, timer, q
  <2>3. /\ y \in ControlBlock /\ y.curseq = c.curseq /\ y.highest_ack = c.highest_ack
        /\ y.t_seqno = c.t_seqno /\ y.maxseq = c.maxseq /\ y.out = c.out
        /\ y.delivered = c.delivered /\ y.rq = q /\ y.acknow = TRUE /\ y.state = "CLOSED"
    BY <1>2, <1>3, <2>1, <2>2, Zenon
  <2> QED BY <1>1, <1>7, <2>3 DEF y
<1> QED BY <1>5, <1>6, <1>7

\* What the agent at e has made of a segment: c becomes x.
Takes(c, x, f, d, g) ==
    /\ x.state = c.state /\ x.delivered = x.rq.nxt - 1
    /\ Waiting(x.rq, Top(d, g)) /\ FinAt(x.rq.blocks, Top(d, g))
    /\ HasFin(x.rq.blocks) =>
          FinSent(f, d, g) /\ (Passive(f, d, g) => c.state # "FIN_WAIT_1")

\* The same, when the segment completes the stream with the FIN.
TakesFin(c, x, f, d, g) ==
    /\ x.state = IF c.state = "ESTABLISHED" THEN "CLOSE_WAIT"
                 ELSE IF c.state = "FIN_WAIT_1" THEN "CLOSING" ELSE "CLOSED"
    /\ x.delivered = g /\ x.rq.nxt = g + 2
    /\ FinSent(f, d, g) /\ (Passive(f, d, g) => c.state # "FIN_WAIT_1")

\* Data, or the FIN, taken from a peer that has not been reset.
LEMMA ReceiveKeeps ==
    ASSUME NEW e, NEW c, NEW h, NEW f, NEW d, NEW g, World(e, c, h, f, d, g),
           ~WasReset(f, d, g), c.state \in {"ESTABLISHED", "FIN_WAIT_1", "FIN_WAIT_2"},
           NEW x \in ControlBlock,
           x.curseq = c.curseq, x.highest_ack = c.highest_ack, x.t_seqno = c.t_seqno,
           x.maxseq = c.maxseq, x.out = c.out, c.rq.nxt <= x.rq.nxt,
           Takes(c, x, f, d, g) \/ TakesFin(c, x, f, d, g)
    PROVE  World(e, x, h, f, d, g) /\ Moved(e, c, h, x, h)
<1>0. /\ c \in ControlBlock /\ h \in Nat /\ d \in ControlBlock /\ g \in Nat
      /\ Shape(c, h) /\ OutOK(c, h) /\ BlockOK(e, c, h) /\ BlockOK(f, d, g)
  BY DEF World, BlockOK
<1>1. /\ c.rq.nxt \in Int /\ c.maxseq \in Int /\ x.rq.nxt \in Int /\ Top(c, h) \in Int
      /\ c.highest_ack \in Int /\ c.t_seqno \in Nat /\ d.highest_ack \in Int /\ d.maxseq \in Int
  BY <1>0, BlockTypes
<1>2. c.maxseq >= 1 /\ c.rq.nxt >= 1
  BY <1>0, <1>1 DEF Shape, Open, Closing, Over
<1>3. \/ x.state = c.state
      \/ c.state = "ESTABLISHED" /\ x.state = "CLOSE_WAIT"
      \/ c.state = "FIN_WAIT_1" /\ x.state = "CLOSING"
      \/ c.state = "FIN_WAIT_2" /\ x.state = "CLOSED"
  BY DEF Takes, TakesFin
<1>4. Shape(x, h)
  BY <1>0, <1>1, <1>3 DEF Shape, Open, Closing, Over
<1>5. Top(x, h) = Top(c, h)
  BY <1>3 DEF Top, FinStates
<1>6. Grows(c, h, x, h)
  BY <1>1, <1>3, <1>5 DEF Grows, FinStates
<1>7. OutOK(x, h)
  <2> SUFFICES ASSUME NEW i \in DOMAIN x.out PROVE PacketOK(x.out[i], x, h)
    BY DEF OutOK
  <2>1. PacketOK(c.out[i], c, h)
    BY <1>0, <1>2 DEF OutOK
  <2> QED BY <1>0, <1>6, <2>1, PacketStays
<1>8. Opened(e, h)
  BY <1>0 DEF BlockOK
<1>9. BlockOK(e, x, h)
  BY <1>0, <1>3, <1>4, <1>7, <1>8 DEF BlockOK
<1>10. /\ ~WasReset(e, c, h) /\ ~WasReset(e, x, h) /\ ~SeesFin(e, c, h)
       /\ FinSent(e, c, h) => FinSent(e, x, h)
       /\ ~Passive(e, x, h)
  BY <1>1, <1>2, <1>3, <1>8 DEF WasReset, SeesFin, FinSent, FinStates, Passive
<1>11. Numbers(e, x, h, f, d, g)
  BY <1>10 DEF World, Linked, Numbers
<1>12. Stream(e, x, h, f, d, g)
  BY <1>5, <1>10 DEF World, Linked, Stream
<1>13. Endings(e, x, h, f, d, g)
  BY <1>10 DEF Endings
<1>14. Numbers(f, d, g, e, x, h)
  <2>1. d.maxseq >= 1 /\ d.highest_ack <= c.rq.nxt
    BY <1>2 DEF World, Linked, Numbers
  <2>2. d.highest_ack <= x.rq.nxt /\ x.rq.nxt >= 1
    BY <1>1, <1>2, <2>1
  <2> QED BY <2>1, <2>2 DEF Numbers
<1>15. Stream(f, d, g, e, x, h)
  <2>1. CASE Takes(c, x, f, d, g)
    <3>1. ~SeesFin(e, x, h)
      BY <1>10, <2>1 DEF Takes, SeesFin
    <3>2. x.rq.nxt >= 1
      BY <1>1, <1>2
    <3> QED BY <2>1, <3>1, <3>2 DEF Takes, Stream
  <2>2. CASE TakesFin(c, x, f, d, g)
    <3>1. SeesFin(e, x, h)
      BY <1>8, <2>2 DEF TakesFin, SeesFin
    <3> QED BY <2>2, <3>1 DEF TakesFin, Stream
  <2> QED BY <2>1, <2>2
<1>16. Endings(f, d, g, e, x, h)
  <2> SUFFICES ASSUME Passive(f, d, g)
               PROVE  /\ x.state \in {"FIN_WAIT_1", "FIN_WAIT_2", "CLOSED"}
                      /\ HasFin(x.rq.blocks) => x.state # "FIN_WAIT_1"
    BY <1>10 DEF Endings
  <2>1. c.state \in {"FIN_WAIT_1", "FIN_WAIT_2"}
    BY DEF World, Linked, Endings
  <2> QED BY <2>1 DEF Takes, TakesFin
<1> QED BY <1>0, <1>6, <1>9, <1>10, <1>11, <1>12, <1>13, <1>14, <1>15, <1>16
        DEF World, Linked, Moved

\* A branch of recv at e has made r of c.
Result(e, c, h, f, d, g, r) ==
    /\ World(e, r.c, h, f, d, g) /\ Moved(e, c, h, r.c, h)
    /\ r.label \in {"drop", "dropafterack", "end", "output"}
    /\ r.label = "drop" => r.c.out = <<>>
    /\ r.label # "drop" => /\ r.c.state \notin {"LISTEN", "SYN_SENT", "SYN_RECEIVED"}
                           /\ Opened(e, h)
    /\ r.c.state = "CLOSE_WAIT" /\ r.c.highest_ack = r.c.maxseq =>
          r.label = "output" \/ (r.label = "end" /\ r.c.acknow)

\* Nothing of the segment is new.
LEMMA NothingNew ==
    ASSUME NEW rq, rq.nxt \in Int, NEW start \in Nat, NEW len \in Nat, NEW fin \in BOOLEAN, ~fin,
           len = 0 \/ start + len < rq.nxt,
           NEW seg, seg = Trim(rq, start, start + len, fin)
    PROVE  seg.s = seg.e /\ ~seg.fin
<1>1. CASE len = 0
  <2>1. seg = [s |-> start, e |-> start + len, fin |-> fin]
    BY <1>1 DEF Trim
  <2> QED BY <1>1, <2>1
<1>2. CASE len > 0 /\ start + len < rq.nxt
  <2>1. seg = [s |-> start + len, e |-> start + len, fin |-> FALSE]
    BY <1>2 DEF Trim
  <2> QED BY <2>1
<1> QED BY <1>1, <1>2

\* step6: the data and the FIN of a segment.
LEMMA StepKeeps ==
    ASSUME NEW e, NEW c, NEW h, NEW f, NEW d, NEW g, World(e, c, h, f, d, g),
           ~WasReset(f, d, g), Opened(e, h), c.rq.nxt >= 1,
           c.state \notin {"LISTEN", "SYN_SENT", "SYN_RECEIVED"},
           NEW p, PacketOK(p, d, g), p.ack <= c.highest_ack,
           "FIN" \in p.flags => c.state # "LAST_ACK",
           NEW seq, seq = IF "SYN" \in p.flags THEN p.seq + 1 ELSE p.seq,
           NEW needoutput \in BOOLEAN,
           c.state = "CLOSE_WAIT" /\ c.highest_ack = c.maxseq => needoutput
    PROVE  Result(e, c, h, f, d, g, Step6(c, seq, p, needoutput))
<1> DEFINE fin == "FIN" \in p.flags
           seg == Trim(c.rq, seq, seq + p.len, fin)
           res == Accept(c.rq, seq, seq + p.len, fin)
           inOrder == seg.s = c.rq.nxt /\ c.rq.blocks = {}
           more == c.delivered + (res.rq.nxt - c.rq.nxt)
           x == [c EXCEPT !.rq = res.rq, !.acknow = @ \/ ~inOrder, !.delivered = more]
           r == Step6(c, seq, p, needoutput)
           n == Top(d, g)
<1>0. /\ c \in ControlBlock /\ h \in Nat /\ d \in ControlBlock /\ g \in Nat
      /\ Shape(c, h) /\ OutOK(c, h) /\ BlockOK(f, d, g) /\ Shape(d, g)
  BY DEF World, BlockOK
<1>1. /\ c.rq.nxt \in Int /\ c.maxseq \in Int /\ n \in Int /\ c.rq \in QueueType
      /\ c.highest_ack \in Int /\ c.delivered \in Nat /\ c.state \in States
  BY <1>0, BlockTypes
<1>2. p.seq \in Nat /\ p.len \in Nat /\ p.ack \in Int /\ fin \in BOOLEAN /\ seq \in Nat
  BY DEF PacketOK, Packet
<1>3. r = IF (seg.s = seg.e /\ ~seg.fin) \/ have_received_FIN(c.state)
          THEN End(c, needoutput)
          ELSE End(IF res.flags THEN AfterFin(x) ELSE x, need_send(x))
  BY DEF Step6
<1>4. CASE r = End(c, needoutput)
  <2>1. Moved(e, c, h, c, h)
    BY <1>0, Alike DEF Same
  <2>2. r.c = c /\ r.label = IF needoutput THEN "output" ELSE "end"
    BY <1>4 DEF End, Goto
  <2> HIDE DEF r
  <2>3. Result(e, c, h, f, d, g, r)
    BY <2>1, <2>2 DEF Result
  <2> QED BY <2>3 DEF r
<1>5. CASE ~(seg.s = seg.e /\ ~seg.fin) /\ ~have_received_FIN(c.state)
  <2> HIDE DEF r
  <2>1. p.len > 0 \/ fin
    <3> SUFFICES ASSUME p.len = 0, ~fin PROVE FALSE
      BY <1>2
    <3> HIDE DEF seg, fin
    <3>3. seg.s = seg.e /\ ~seg.fin
      BY <1>1, <1>2, NothingNew DEF seg
    <3> QED BY <1>5, <3>3
  <2>2. "SYN" \notin p.flags
    BY <1>2, <2>1 DEF PacketOK
  <2>3. /\ seq = p.seq /\ seq >= 1 /\ seq + p.len <= n
        /\ fin => seq + p.len = n /\ d.state \in FinStates /\ d.maxseq = g + 2
    BY <1>1, <1>2, <2>1, <2>2 DEF PacketOK
  <2>4. c.state # "LAST_ACK"
    <3> SUFFICES ASSUME c.state = "LAST_ACK" PROVE FALSE
      OBVIOUS
    <3>1. SeesFin(e, c, h) /\ ~WasReset(e, c, h)
      BY DEF SeesFin, WasReset
    <3>2. FinSent(f, d, g) /\ c.rq.nxt = g + 2
      BY <3>1 DEF World, Linked, Stream
    <3>3. n = g + 1
      BY <3>2 DEF FinSent, Top
    <3>4. ~fin /\ seq + p.len < c.rq.nxt
      BY <1>0, <1>2, <2>3, <3>2, <3>3
    <3> HIDE DEF seg, fin
    <3>7. seg.s = seg.e /\ ~seg.fin
      BY <1>1, <1>2, <3>4, NothingNew DEF seg
    <3> QED BY <1>5, <3>7
  <2>5. c.state \in {"ESTABLISHED", "FIN_WAIT_1", "FIN_WAIT_2"}
    BY <1>1, <1>5, <2>4 DEF have_received_FIN, States
  <2>6. ~SeesFin(e, c, h)
    BY <2>5 DEF SeesFin
  <2>7. /\ Waiting(c.rq, n) /\ FinAt(c.rq.blocks, n) /\ c.delivered = c.rq.nxt - 1
        /\ HasFin(c.rq.blocks) => FinSent(f, d, g)
    BY <2>6 DEF World, Linked, Stream
  <2>8. fin => FinSent(f, d, g)
    <3>1. d.maxseq \in Int
      BY <1>0, BlockTypes
    <3>2. g \in Nat
      BY <1>0
    <3> QED BY <1>0, <2>3, <3>1, <3>2 DEF BlockOK, FinSent
  <2>9. n \in Nat
    BY <1>1, <2>7 DEF Waiting
  <2>10. Accepts(c.rq, res, seq, seq + p.len, fin, n)
    <3> HIDE DEF fin, n, res
    <3>1. seq + p.len \in Nat
      BY <1>2
    <3>2. seq < seq + p.len \/ (seq = seq + p.len /\ seq + p.len = n)
      BY <1>2, <2>1, <2>3
    <3> QED BY <1>2, <2>3, <2>7, <2>9, <3>1, <3>2, AcceptAccepts DEF res
  <2>11. Passive(f, d, g) /\ (HasFin(c.rq.blocks) \/ fin) => c.state # "FIN_WAIT_1"
    <3> SUFFICES ASSUME Passive(f, d, g), fin, c.state = "FIN_WAIT_1" PROVE FALSE
      BY DEF World, Linked, Endings
    <3>1. d.state = "LAST_ACK"
      BY DEF Passive
    <3>2. p.ack = d.rq.nxt
      BY <3>1 DEF PacketOK
    <3>3. SeesFin(f, d, g)
      BY <3>1 DEF SeesFin
    <3>4. d.rq.nxt = h + 2
      BY <3>3 DEF World, Linked, Stream
    <3>5. c.highest_ack <= h + 1
      <4>1. Closing(c, h) /\ c.t_seqno \in Nat
        BY <1>0 DEF Shape, ControlBlock
      <4> QED BY <1>0, <1>1, <4>1 DEF Closing
    <3> QED BY <1>0, <1>1, <3>2, <3>4, <3>5
  <2> HIDE DEF fin, seg, res, n
  <2>12. /\ Waiting(res.rq, n) /\ res.flags \in BOOLEAN /\ c.rq.nxt <= res.rq.nxt
         /\ FinAt(res.rq.blocks, n) /\ (res.flags => res.rq.nxt = n)
         /\ HasFin(res.rq.blocks) \/ res.flags => HasFin(c.rq.blocks) \/ fin
    BY <2>7, <2>10 DEF Accepts
  <2>13. res.rq \in QueueType /\ res.rq.nxt \in Nat
    BY <2>12 DEF Waiting
  <2>14. more \in Nat /\ more = res.rq.nxt - 1
    BY <1>1, <2>7, <2>12, <2>13
  <2>15. /\ x \in ControlBlock /\ x.curseq = c.curseq /\ x.highest_ack = c.highest_ack
         /\ x.t_seqno = c.t_seqno /\ x.maxseq = c.maxseq /\ x.out = c.out /\ x.state = c.state
         /\ x.rq = res.rq /\ x.delivered = more
    <3> HIDE DEF more
    <3>1. (c.acknow \/ ~inOrder) \in BOOLEAN
      OBVIOUS
    <3> HIDE DEF inOrder
    <3> QED BY <1>0, <2>13, <2>14, <3>1 DEF ControlBlock
  <2>16. r = End(IF res.flags THEN AfterFin(x) ELSE x, need_send(x))
    BY <1>3, <1>5
  <2> HIDE DEF more, x
  <2>17. CASE ~res.flags
    <3>1. r.c = x /\ r.label \in {"end", "output"}
      BY <2>16, <2>17 DEF End, Goto
    <3>2. Takes(c, x, f, d, g)
      BY <2>7, <2>8, <2>11, <2>12, <2>14, <2>15 DEF Takes, n
    <3>3. World(e, x, h, f, d, g) /\ Moved(e, c, h, x, h)
      BY <2>5, <2>12, <2>15, <3>2, ReceiveKeeps
    <3>4. x.state \notin {"LISTEN", "SYN_SENT", "SYN_RECEIVED", "CLOSE_WAIT"}
      BY <2>5, <2>15
    <3>5. Result(e, c, h, f, d, g, r)
      BY <3>1, <3>3, <3>4 DEF Result
    <3> QED BY <3>5 DEF r
  <2>18. CASE res.flags
    <3> DEFINE y == AfterFin(x)
    <3>1. r.c = y /\ r.label \in {"end", "output"}
      BY <2>16, <2>18 DEF End, Goto
    <3>2. /\ y \in ControlBlock /\ y.curseq = x.curseq /\ y.highest_ack = x.highest_ack
          /\ y.t_seqno = x.t_seqno /\ y.maxseq = x.maxseq /\ y.out = x.out
          /\ y.delivered = x.delivered /\ y.rq.nxt = x.rq.nxt + 1 /\ y.acknow = TRUE
          /\ y.state = IF c.state = "ESTABLISHED" THEN "CLOSE_WAIT"
                       ELSE IF c.state = "FIN_WAIT_1" THEN "CLOSING" ELSE "CLOSED"
      BY <2>5, <2>15, AfterFinIs
    <3> HIDE DEF y
    <3>3. FinSent(f, d, g) /\ n = g + 1 /\ res.rq.nxt = n
      <4>1. FinSent(f, d, g)
        BY <2>7, <2>8, <2>12, <2>18
      <4> QED BY <2>12, <2>18, <4>1 DEF FinSent, Top, n
    <3>4. y.rq.nxt = g + 2 /\ y.delivered = g /\ c.rq.nxt <= y.rq.nxt
      BY <1>0, <1>1, <2>12, <2>14, <2>15, <3>2, <3>3
    <3>5. TakesFin(c, y, f, d, g)
      BY <2>11, <2>12, <2>18, <3>2, <3>3, <3>4 DEF TakesFin
    <3>6. World(e, y, h, f, d, g) /\ Moved(e, c, h, y, h)
      BY <2>5, <2>15, <3>2, <3>4, <3>5, ReceiveKeeps
    <3>7. y.state \notin {"LISTEN", "SYN_SENT", "SYN_RECEIVED"}
      BY <3>2
    <3>8. Result(e, c, h, f, d, g, r)
      BY <3>1, <3>2, <3>6, <3>7 DEF Result
    <3> QED BY <3>8 DEF r
  <2> QED BY <2>12, <2>17, <2>18
<1> QED BY <1>3, <1>4, <1>5

-----------------------------------------------------------------------------
(* A SYN arrives *)

\* An agent that gets the SYN of its peer starts to receive.
LEMMA OpenKeeps ==
    ASSUME NEW e, NEW c, NEW h, NEW f, NEW d, NEW g, World(e, c, h, f, d, g),
           c.state \in {"LISTEN", "SYN_SENT"}, ~WasReset(f, d, g), d.maxseq >= 1,
           NEW x, BlockOK(e, x, h), x.state \in {"SYN_RECEIVED", "ESTABLISHED"},
           x.rq.nxt = 1, x.rq.blocks = {}, x.delivered = c.delivered, x.maxseq = 1,
           x.highest_ack = -1 \/ (x.highest_ack = 1 /\ d.rq.nxt >= 1)
    PROVE  World(e, x, h, f, d, g) /\ Moved(e, c, h, x, h)
<1>0. /\ c \in ControlBlock /\ h \in Nat /\ d \in ControlBlock /\ g \in Nat /\ x \in ControlBlock
      /\ Shape(c, h) /\ BlockOK(f, d, g)
  BY DEF World, BlockOK
<1>1. /\ c.maxseq \in Int /\ d.rq.nxt \in Int /\ d.maxseq \in Int /\ d.highest_ack \in Int
      /\ x.rq \in QueueType /\ Top(d, g) \in Int
  BY <1>0, BlockTypes
<1>2. c.rq.nxt = -1 /\ c.maxseq <= 1
  BY <1>0, <1>1 DEF Shape, Idle, Opening
<1>3. /\ ~WasReset(e, c, h) /\ ~SeesFin(e, c, h) /\ ~FinSent(e, c, h)
      /\ ~WasReset(e, x, h) /\ ~SeesFin(e, x, h) /\ ~Passive(e, x, h)
  BY DEF WasReset, SeesFin, FinSent, FinStates, Passive
<1>4. Top(c, h) = c.maxseq /\ Top(x, h) = 1 /\ Top(d, g) >= 1
  BY <1>0 DEF Top, FinStates
<1>5. Numbers(e, x, h, f, d, g)
  BY <1>1 DEF Numbers
<1>6. Stream(e, x, h, f, d, g)
  <2>1. Stream(e, c, h, f, d, g)
    BY DEF World, Linked
  <2>2. ~SeesFin(f, d, g)
    BY <1>3, <2>1 DEF Stream
  <2>3. d.rq.nxt >= 1 => Waiting(d.rq, 1) /\ FinAt(d.rq.blocks, 1) /\ ~HasFin(d.rq.blocks)
    <3> SUFFICES ASSUME d.rq.nxt >= 1
                 PROVE  Waiting(d.rq, 1) /\ FinAt(d.rq.blocks, 1) /\ ~HasFin(d.rq.blocks)
      OBVIOUS
    <3>1. Waiting(d.rq, c.maxseq) /\ ~HasFin(d.rq.blocks)
      BY <1>3, <1>4, <2>1, <2>2 DEF Stream
    <3>2. Waiting(d.rq, 1)
      BY <1>1, <1>2, <3>1, WaitingMore
    <3> QED BY <3>1, <3>2 DEF FinAt, HasFin
  <2> QED BY <1>4, <2>1, <2>2, <2>3 DEF Stream
<1>7. Endings(e, x, h, f, d, g)
  BY <1>3 DEF Endings
<1>8. Numbers(f, d, g, e, x, h)
  <2>1. ~(d.highest_ack >= 1)
    BY <1>2, <1>3 DEF World, Linked, Numbers
  <2> QED BY <1>1, <2>1 DEF Numbers
<1>9. Stream(f, d, g, e, x, h)
  <2>1. c.delivered = 0
    BY <1>2, <1>3 DEF World, Linked, Stream
  <2>2. Waiting(x.rq, Top(d, g)) /\ FinAt(x.rq.blocks, Top(d, g)) /\ ~HasFin(x.rq.blocks)
    BY <1>1, <1>4 DEF Waiting, Good, Separated, FinAt, HasFin
  <2> QED BY <1>3, <2>1, <2>2 DEF Stream
<1>10. Endings(f, d, g, e, x, h)
  BY DEF World, Linked, Endings
<1>11. Grows(c, h, x, h)
  BY <1>1, <1>2, <1>4 DEF Grows, FinStates
<1> QED BY <1>0, <1>3, <1>5, <1>6, <1>7, <1>8, <1>9, <1>10, <1>11 DEF World, Linked, Moved

\* A SYN+ACK in SYN_SENT.
LEMMA ConnectedKeeps ==
    ASSUME NEW e, NEW c, NEW h, NEW f, NEW d, NEW g, World(e, c, h, f, d, g),
           c.state = "SYN_SENT", c.out = <<>>, ~WasReset(f, d, g), d.rq.nxt >= 1,
           NEW p, PacketOK(p, d, g), p.ack = 1, "SYN" \in p.flags
    PROVE  Result(e, c, h, f, d, g, Connected(c, p))
<1> DEFINE q == [c.rq EXCEPT !.nxt = p.seq + 1]
           a == [c EXCEPT !.rq = q, !.highest_ack = p.ack, !.acknow = TRUE, !.state = "ESTABLISHED"]
           m == [seq |-> a.t_seqno, ack |-> a.rq.nxt, flags |-> {"ACK"}, len |-> 0]
           b == [a EXCEPT !.out = Append(@, m), !.last_ack_sent = a.rq.nxt]
           x == AfterAck(b, p.ack)
           r == Connected(c, p)
<1>0. /\ c \in ControlBlock /\ h \in Nat /\ d \in ControlBlock /\ g \in Nat
      /\ Shape(c, h) /\ BlockOK(e, c, h)
  BY DEF World, BlockOK
<1>1. p.seq = 0 /\ d.maxseq >= 1
  BY DEF PacketOK
<1>2. /\ c.curseq = h /\ c.t_seqno = 1 /\ c.rq.blocks = {} /\ c.maxseq = 1 /\ c.rq \in QueueType
  BY <1>0 DEF Shape, Opening, ControlBlock
<1>3. q \in QueueType /\ q.nxt = 1 /\ q.blocks = {}
  BY <1>1, <1>2 DEF QueueType
<1>4. /\ a \in ControlBlock /\ a.curseq = h /\ a.t_seqno = 1 /\ a.maxseq = 1 /\ a.highest_ack = 1
      /\ a.rq = q /\ a.state = "ESTABLISHED" /\ a.out = <<>> /\ a.delivered = c.delivered
  <2>1. "ESTABLISHED" \in States
    BY DEF States
  <2> HIDE DEF q
  <2> QED BY <1>0, <1>2, <1>3, <2>1 DEF ControlBlock
<1> HIDE DEF a
<1>5. m \in Packet /\ m.seq = 1 /\ m.ack = 1 /\ m.flags = {"ACK"} /\ m.len = 0
  <2> HIDE DEF q
  <2> QED BY <1>3, <1>4 DEF Packet, Flags
<1> HIDE DEF m
<1>6. /\ b \in ControlBlock /\ b.curseq = h /\ b.t_seqno = 1 /\ b.maxseq = 1 /\ b.highest_ack = 1
      /\ b.rq = q /\ b.state = "ESTABLISHED" /\ b.out = <<m>> /\ b.delivered = c.delivered
  <2> HIDE DEF q
  <2>1. a.rq.nxt \in Int /\ Append(a.out, m) = <<m>> /\ <<m>> \in Seq(Packet)
    BY <1>3, <1>4, <1>5
  <2> QED BY <1>4, <2>1 DEF ControlBlock
<1>7. r = End(x, p.ack = c.maxseq)
  BY DEF Connected, sendpacket, a, m
<1> HIDE DEF b, q
<1>8. /\ x \in ControlBlock /\ x.curseq = h /\ x.t_seqno = 1 /\ x.maxseq = 1 /\ x.highest_ack = 1
      /\ x.rq = q /\ x.state = "ESTABLISHED" /\ x.out = <<m>> /\ x.delivered = c.delivered
  <2>1. p.ack \in Nat
    OBVIOUS
  <2> QED BY <1>6, <2>1, AfterAckIs
<1> HIDE DEF x
<1>9. Open(x, h)
  BY <1>0, <1>3, <1>8 DEF Open
<1>10. Opened(e, h)
  BY <1>0 DEF BlockOK
<1>11. OutOK(x, h)
  <2> SUFFICES ASSUME NEW i \in DOMAIN x.out PROVE PacketOK(x.out[i], x, h)
    BY DEF OutOK
  <2>1. x.out[i] = m
    BY <1>8
  <2>2. PacketOK(m, x, h)
    BY <1>3, <1>5, <1>8 DEF PacketOK
  <2> QED BY <2>1, <2>2
<1>12. BlockOK(e, x, h)
  BY <1>0, <1>8, <1>9, <1>10, <1>11 DEF BlockOK, Shape
<1>13. World(e, x, h, f, d, g) /\ Moved(e, c, h, x, h)
  BY <1>1, <1>3, <1>8, <1>12, OpenKeeps
<1>14. r.c = x /\ r.label = "output"
  BY <1>2, <1>7 DEF End, Goto
<1> HIDE DEF r
<1>15. Result(e, c, h, f, d, g, r)
  BY <1>8, <1>10, <1>13, <1>14 DEF Result
<1> QED BY <1>15 DEF r

\* The SYN+ACK is next: r is what recv makes of a SYN without an ACK.
Answer(e, c, h, f, d, g, r) ==
    /\ r.label = "end" /\ r.c \in ControlBlock /\ r.c.acknow = TRUE
    /\ r.c.state = "SYN_RECEIVED" /\ Opening(r.c, h, 0) /\ r.c.maxseq <= 1 /\ r.c.out = <<>>
    /\ r.c.delivered = c.delivered
    /\ c.state \in {"LISTEN", "SYN_SENT"} /\ Opened(e, h)
    /\ ~WasReset(f, d, g) /\ d.maxseq >= 1

\* A SYN reaches an agent that listens.
LEMMA ListeningKeeps ==
    ASSUME NEW e, NEW c, NEW h, NEW f, NEW d, NEW g, World(e, c, h, f, d, g),
           c.state = "LISTEN", c.out = <<>>, ~WasReset(f, d, g),
           NEW p, PacketOK(p, d, g), "SYN" \in p.flags
    PROVE  Answer(e, c, h, f, d, g, Listening(c, p))
<1> DEFINE q == [c.rq EXCEPT !.nxt = p.seq + 1]
           a == [c EXCEPT !.t_seqno = iss_, !.rq = q, !.acknow = TRUE, !.state = "SYN_RECEIVED"]
           r == Listening(c, p)
<1>0. /\ c \in ControlBlock /\ h = 0 /\ e # "A" /\ Shape(c, h)
  BY DEF World, BlockOK
<1>1. p.seq = 0 /\ d.maxseq >= 1
  BY DEF PacketOK
<1>2. /\ c.curseq = 0 /\ c.highest_ack = -1 /\ c.rq.blocks = {} /\ c.maxseq <= 0
      /\ c.rq \in QueueType /\ c.maxseq \in Int
  BY <1>0 DEF Shape, Idle, ControlBlock
<1>3. q \in QueueType /\ q.nxt = 1 /\ q.blocks = {}
  BY <1>1, <1>2 DEF QueueType
<1>4. /\ a \in ControlBlock /\ a.curseq = 0 /\ a.t_seqno = 0 /\ a.maxseq = c.maxseq
      /\ a.highest_ack = -1 /\ a.rq = q /\ a.state = "SYN_RECEIVED" /\ a.out = <<>>
      /\ a.delivered = c.delivered /\ a.acknow = TRUE
  <2>1. "SYN_RECEIVED" \in States
    BY DEF States
  <2> HIDE DEF q
  <2> QED BY <1>0, <1>2, <1>3, <2>1 DEF ControlBlock, iss_
<1>5. r = End(a, FALSE)
  BY DEF Listening
<1> HIDE DEF a, q
<1>6. r.c = a /\ r.label = "end"
  BY <1>5 DEF End, Goto
<1>7. Opening(a, h, 0)
  BY <1>0, <1>3, <1>4 DEF Opening
<1>8. Opened(e, h)
  BY <1>0 DEF Opened
<1>9. a.maxseq <= 1
  BY <1>2, <1>4
<1> HIDE DEF r
<1>10. Answer(e, c, h, f, d, g, r)
  BY <1>1, <1>4, <1>6, <1>7, <1>8, <1>9 DEF Answer
<1> QED BY <1>10 DEF r

\* Two SYNs cross: the agent goes back to its own SYN, to send it with an ACK.
LEMMA CrossedKeeps ==
    ASSUME NEW e, NEW c, NEW h, NEW f, NEW d, NEW g, World(e, c, h, f, d, g),
           c.state = "SYN_SENT", c.out = <<>>, ~WasReset(f, d, g),
           NEW p, PacketOK(p, d, g), "SYN" \in p.flags
    PROVE  Answer(e, c, h, f, d, g, Crossed(c, p))
<1> DEFINE q == [c.rq EXCEPT !.nxt = p.seq + 1]
           t == c.t_seqno - 1
           a == [c EXCEPT !.rq = q, !.acknow = TRUE, !.rtx = FALSE, !.state = "SYN_RECEIVED",
                          !.t_seqno = t]
           r == Crossed(c, p)
<1>0. /\ c \in ControlBlock /\ BlockOK(e, c, h) /\ Shape(c, h)
  BY DEF World, BlockOK
<1>1. p.seq = 0 /\ d.maxseq >= 1
  BY DEF PacketOK
<1>2. /\ c.curseq = h /\ c.highest_ack = -1 /\ c.rq.blocks = {} /\ c.maxseq = 1
      /\ c.rq \in QueueType /\ t = 0
  BY <1>0 DEF Shape, Opening, ControlBlock
<1>3. q \in QueueType /\ q.nxt = 1 /\ q.blocks = {}
  BY <1>1, <1>2 DEF QueueType
<1>4. /\ a \in ControlBlock /\ a.curseq = h /\ a.t_seqno = 0 /\ a.maxseq = 1
      /\ a.highest_ack = -1 /\ a.rq = q /\ a.state = "SYN_RECEIVED" /\ a.out = <<>>
      /\ a.delivered = c.delivered /\ a.acknow = TRUE
  <2>1. "SYN_RECEIVED" \in States
    BY DEF States
  <2> HIDE DEF q, t
  <2> QED BY <1>0, <1>2, <1>3, <2>1 DEF ControlBlock
<1>5. r = End(a, FALSE)
  BY DEF Crossed
<1> HIDE DEF a, q
<1>6. r.c = a /\ r.label = "end"
  BY <1>5 DEF End, Goto
<1>7. Opening(a, h, 0)
  BY <1>3, <1>4 DEF Opening
<1>8. Opened(e, h)
  BY <1>0 DEF BlockOK
<1>9. a.maxseq <= 1
  BY <1>4
<1> HIDE DEF r
<1>10. Answer(e, c, h, f, d, g, r)
  BY <1>1, <1>4, <1>6, <1>7, <1>8, <1>9 DEF Answer
<1> QED BY <1>10 DEF r

\* A packet that e may receive: what was true when it was sent still is, unless
\* its sender has been reset since.
Heard(p, f, d, g) == p \in Packet /\ (WasReset(f, d, g) \/ PacketOK(p, d, g))

\* Between two events everything has been sent, and a passive close is waiting
\* for an ACK.
Quiet(c) == c.out = <<>> /\ (c.state = "CLOSE_WAIT" => c.highest_ack < c.maxseq)

\* A packet is dropped.
LEMMA Dropped ==
    ASSUME NEW e, NEW c, NEW h, NEW f, NEW d, NEW g, World(e, c, h, f, d, g), Quiet(c)
    PROVE  Result(e, c, h, f, d, g, Goto(c, "drop"))
<1>1. c \in ControlBlock /\ OutOK(c, h) /\ c.highest_ack \in Int /\ c.maxseq \in Int
  BY BlockTypes DEF World, BlockOK
<1>2. Moved(e, c, h, c, h)
  BY <1>1, Alike DEF Same
<1> QED BY <1>1, <1>2 DEF Result, Goto, Quiet

\* An ACK that reaches an agent that waits for one.
LEMMA AckRange ==
    ASSUME NEW e, NEW c, NEW h, NEW f, NEW d, NEW g, World(e, c, h, f, d, g), c.maxseq >= 1,
           NEW p, PacketOK(p, d, g), "ACK" \in p.flags
    PROVE  /\ p.ack \in Nat /\ 1 <= p.ack /\ p.ack <= d.rq.nxt /\ d.rq.nxt >= 1
           /\ p.ack <= c.maxseq
<1>1. p.ack \in Int /\ 1 <= p.ack /\ p.ack <= d.rq.nxt
  BY DEF PacketOK, Packet
<1>2. d.rq.nxt \in Int /\ c.maxseq \in Int
  BY BlockTypes DEF World, BlockOK
<1>3. d.rq.nxt >= 1
  BY <1>1, <1>2
<1>4. d.rq.nxt <= c.maxseq
  BY <1>3, PeerHas
<1> QED BY <1>1, <1>2, <1>3, <1>4

\* A packet reaches a closed agent: a FIN that was sent again is acknowledged again.
LEMMA RecvClosedKeeps ==
    ASSUME NEW e, NEW c, NEW h, NEW f, NEW d, NEW g, World(e, c, h, f, d, g), Quiet(c),
           c.state = "CLOSED", NEW p, Heard(p, f, d, g)
    PROVE  Result(e, c, h, f, d, g, RecvClosed(c, p))
<1>0. /\ c \in ControlBlock /\ h \in Nat /\ d \in ControlBlock /\ g \in Nat
      /\ Shape(c, h) /\ Shape(d, g) /\ BlockOK(e, c, h) /\ OutOK(c, h)
  BY DEF World, BlockOK
<1>1. /\ c.maxseq \in Int /\ d.maxseq \in Int /\ d.highest_ack \in Int
  BY <1>0, BlockTypes
<1>2. CASE "FIN" \notin p.flags
  BY <1>2, Dropped DEF RecvClosed
<1>3. CASE "FIN" \in p.flags
  <2>1. c.maxseq > 0 \/ WasReset(e, c, h)
    <3>1. CASE WasReset(f, d, g)
      BY <3>1 DEF World, Linked, Endings
    <3>2. CASE PacketOK(p, d, g)
      <4>1. d.state \in FinStates /\ d.maxseq >= 1
        <5>1. d.state \in FinStates /\ d.maxseq = g + 2
          BY <1>3, <3>2 DEF PacketOK
        <5> QED BY <1>0, <5>1
      <4>2. Closing(d, g) \/ Over(d, g)
        BY <1>0, <1>1, <4>1 DEF Shape, Idle, FinStates
      <4>3. d.highest_ack >= 1
        BY <1>0, <1>1, <4>2 DEF Closing, Over
      <4>4. c.rq.nxt >= 1 \/ WasReset(e, c, h)
        BY <4>3 DEF World, Linked, Numbers
      <4>5. c.rq.nxt >= 1 => Over(c, h)
        BY <1>0 DEF Shape, Idle
      <4> QED BY <1>0, <1>1, <4>4, <4>5 DEF Over
    <3> QED BY <3>1, <3>2 DEF Heard
  <2>2. Opened(e, h)
    BY <1>0, <2>1 DEF BlockOK, WasReset
  <2>3. Moved(e, c, h, c, h)
    BY <1>0, Alike DEF Same
  <2>4. RecvClosed(c, p) = Goto(c, "dropafterack")
    BY <1>3 DEF RecvClosed
  <2> QED BY <2>2, <2>3, <2>4 DEF Result, Goto
<1> QED BY <1>2, <1>3

\* A packet reaches an agent that listens.
LEMMA RecvListenKeeps ==
    ASSUME NEW e, NEW c, NEW h, NEW f, NEW d, NEW g, World(e, c, h, f, d, g), Quiet(c),
           c.state = "LISTEN", NEW p, Heard(p, f, d, g)
    PROVE  \/ Result(e, c, h, f, d, g, RecvListen(c, p))
           \/ Answer(e, c, h, f, d, g, RecvListen(c, p))
<1>0. /\ c \in ControlBlock /\ Shape(c, h) /\ d \in ControlBlock
  BY DEF World, BlockOK
<1>1. ~WasReset(f, d, g)
  BY DEF World, Linked, Endings
<1>2. PacketOK(p, d, g)
  BY <1>1 DEF Heard
<1>3. c.maxseq \in Int /\ d.rq.nxt \in Int /\ c.maxseq <= 0
  BY <1>0 DEF Shape, Idle, ControlBlock, QueueType
<1>4. "ACK" \notin p.flags
  <2> SUFFICES ASSUME "ACK" \in p.flags PROVE FALSE
    OBVIOUS
  <2>1. p.ack \in Int /\ 1 <= p.ack /\ p.ack <= d.rq.nxt
    BY <1>2 DEF PacketOK, Packet
  <2>2. d.rq.nxt >= 1
    BY <1>3, <2>1
  <2>3. c.maxseq >= 1 \/ WasReset(e, c, h)
    BY <2>2 DEF World, Linked, Numbers
  <2> QED BY <1>3, <2>3 DEF WasReset
<1>5. CASE "SYN" \in p.flags
  <2>1. RecvListen(c, p) = Listening(c, p)
    BY <1>4, <1>5 DEF RecvListen
  <2> QED BY <1>1, <1>2, <1>5, <2>1, ListeningKeeps DEF Quiet
<1>6. CASE "SYN" \notin p.flags
  <2>1. RecvListen(c, p) = Goto(c, "drop")
    BY <1>4, <1>6 DEF RecvListen
  <2> QED BY <2>1, Dropped
<1> QED BY <1>5, <1>6

\* A packet reaches an agent that has sent its SYN.
LEMMA RecvSynSentKeeps ==
    ASSUME NEW e, NEW c, NEW h, NEW f, NEW d, NEW g, World(e, c, h, f, d, g), Quiet(c),
           c.state = "SYN_SENT", NEW p, Heard(p, f, d, g)
    PROVE  \/ Result(e, c, h, f, d, g, RecvSynSent(c, p))
           \/ Answer(e, c, h, f, d, g, RecvSynSent(c, p))
<1>0. /\ c \in ControlBlock /\ Shape(c, h)
  BY DEF World, BlockOK
<1>1. ~WasReset(f, d, g)
  BY DEF World, Linked, Endings
<1>2. PacketOK(p, d, g)
  BY <1>1 DEF Heard
<1>3. c.maxseq = 1
  BY <1>0 DEF Shape
<1>4. "ACK" \in p.flags => p.ack = 1 /\ d.rq.nxt >= 1
  <2>1. "ACK" \in p.flags => p.ack \in Nat /\ 1 <= p.ack /\ p.ack <= 1 /\ d.rq.nxt >= 1
    BY <1>2, <1>3, AckRange
  <2> QED BY <2>1
<1>5. ~("ACK" \in p.flags /\ (p.ack <= iss_ \/ p.ack > c.maxseq))
  BY <1>3, <1>4 DEF iss_
<1>6. CASE "SYN" \notin p.flags
  <2>1. RecvSynSent(c, p) = Goto(c, "drop")
    BY <1>5, <1>6 DEF RecvSynSent
  <2> QED BY <2>1, Dropped
<1>7. CASE "SYN" \in p.flags /\ "ACK" \in p.flags
  <2>1. RecvSynSent(c, p) = Connected(c, p)
    BY <1>5, <1>7 DEF RecvSynSent
  <2> QED BY <1>1, <1>2, <1>4, <1>7, <2>1, ConnectedKeeps DEF Quiet
<1>8. CASE "SYN" \in p.flags /\ "ACK" \notin p.flags
  <2>1. RecvSynSent(c, p) = Crossed(c, p)
    BY <1>5, <1>8 DEF RecvSynSent
  <2> QED BY <1>1, <1>2, <1>8, <2>1, CrossedKeeps DEF Quiet
<1> QED BY <1>6, <1>7, <1>8

-----------------------------------------------------------------------------
(* A segment in the states from SYN_RECEIVED on *)

\* The agent after a segment's ACK.
AfterSegment(e, c, h, f, d, g, p, b) ==
    /\ World(e, b, h, f, d, g) /\ Moved(e, c, h, b, h)
    /\ b.rq = c.rq /\ b.maxseq = c.maxseq
    /\ b.highest_ack = IF p.ack > c.highest_ack THEN p.ack ELSE c.highest_ack
    /\ \/ b.state = c.state /\ c.state # "SYN_RECEIVED"
       \/ c.state = "SYN_RECEIVED" /\ b.state = "ESTABLISHED"
       \/ c.state = "FIN_WAIT_1" /\ b.state = "FIN_WAIT_2"
       \/ c.state = "CLOSING" /\ b.state = "CLOSED"

\* The ACK of the SYN.
LEMMA SynAcked ==
    ASSUME NEW e, NEW c, NEW h, NEW f, NEW d, NEW g, World(e, c, h, f, d, g), c.out = <<>>,
           c.state = "SYN_RECEIVED", NEW p, PacketOK(p, d, g), "ACK" \in p.flags,
           NEW x \in ControlBlock, x = [c EXCEPT !.acknow = x.acknow, !.state = "ESTABLISHED"]
    PROVE  AfterSegment(e, c, h, f, d, g, p, AfterAck(x, p.ack))
<1> DEFINE b == AfterAck(x, p.ack)
<1>0. /\ c \in ControlBlock /\ h \in Nat /\ d \in ControlBlock /\ g \in Nat
      /\ Shape(c, h) /\ BlockOK(e, c, h)
  BY DEF World, BlockOK
<1>1. /\ c.curseq = h /\ c.highest_ack = -1 /\ c.t_seqno = 1 /\ c.rq.nxt = 1 /\ c.maxseq = 1
  BY <1>0 DEF Shape, Opening
<1>2. /\ x.state = "ESTABLISHED" /\ x.curseq = h /\ x.t_seqno = 1 /\ x.maxseq = 1
      /\ x.rq = c.rq /\ x.out = <<>> /\ x.delivered = c.delivered
  BY <1>0, <1>1 DEF ControlBlock
<1>3. p.ack \in Nat /\ p.ack = 1 /\ d.rq.nxt >= 1 /\ d.rq.nxt \in Int
  <2>1. p.ack \in Nat /\ 1 <= p.ack /\ p.ack <= 1 /\ d.rq.nxt >= 1
    BY <1>1, AckRange
  <2> QED BY <1>0, <2>1, BlockTypes
<1>4. /\ b \in ControlBlock /\ b.state = "ESTABLISHED" /\ b.curseq = h /\ b.t_seqno = 1
      /\ b.maxseq = 1 /\ b.rq = c.rq /\ b.out = <<>> /\ b.delivered = c.delivered
      /\ b.highest_ack = 1
  BY <1>2, <1>3, AfterAckIs
<1> HIDE DEF b
<1>5. Open(b, h)
  BY <1>0, <1>1, <1>4 DEF Open
<1>6. Opened(e, h)
  BY <1>0 DEF BlockOK
<1>7. BlockOK(e, b, h)
  BY <1>0, <1>4, <1>5, <1>6 DEF BlockOK, Shape, OutOK
<1>8. /\ ~WasReset(e, c, h) /\ ~WasReset(e, b, h) /\ ~SeesFin(e, c, h) /\ ~SeesFin(e, b, h)
      /\ ~FinSent(e, c, h) /\ ~Passive(e, b, h)
  BY <1>4 DEF WasReset, SeesFin, FinSent, FinStates, Passive
<1>9. Top(c, h) = 1 /\ Top(b, h) = 1
  BY <1>1, <1>4 DEF Top, FinStates
<1>10. Numbers(e, b, h, f, d, g)
  BY <1>3, <1>4 DEF Numbers
<1>11. Endings(e, b, h, f, d, g)
  BY <1>8 DEF Endings
<1>12. Endings(f, d, g, e, b, h)
  BY DEF World, Linked, Endings
<1>13. World(e, b, h, f, d, g)
  BY <1>4, <1>7, <1>8, <1>9, <1>10, <1>11, <1>12, Carry
<1>14. Grows(c, h, b, h)
  BY <1>1, <1>4, <1>9 DEF Grows, FinStates
<1>15. AfterSegment(e, c, h, f, d, g, p, b)
  BY <1>1, <1>3, <1>4, <1>8, <1>13, <1>14 DEF AfterSegment, Moved
<1> QED BY <1>15 DEF b

\* A new ACK later on, unless it is that of the FIN in LAST_ACK.
LEMMA NewAck ==
    ASSUME NEW e, NEW c, NEW h, NEW f, NEW d, NEW g, World(e, c, h, f, d, g),
           c.state \notin {"CLOSED", "LISTEN", "SYN_SENT", "SYN_RECEIVED"},
           NEW p, PacketOK(p, d, g), "ACK" \in p.flags, p.ack > c.highest_ack,
           ~(c.state = "LAST_ACK" /\ p.ack = c.maxseq)
    PROVE  AfterSegment(e, c, h, f, d, g, p, AfterAck(c, p.ack))
<1> DEFINE b == AfterAck(c, p.ack)
<1>0. /\ c \in ControlBlock /\ h \in Nat /\ Shape(c, h)
  BY DEF World, BlockOK
<1>1. /\ c.maxseq \in Int /\ c.highest_ack \in Int /\ c.t_seqno \in Nat /\ c.state \in States
  BY <1>0, BlockTypes
<1>2. c.maxseq >= 1
  BY <1>0, <1>1 DEF Shape, Open, Closing, Over
<1>3. p.ack \in Nat /\ p.ack <= d.rq.nxt /\ p.ack <= c.maxseq
  BY <1>2, AckRange
<1>4. c.state # "FIN_WAIT_2"
  BY <1>0, <1>1, <1>3 DEF Shape, Over
<1>5. c.state \in {"ESTABLISHED", "CLOSE_WAIT", "FIN_WAIT_1", "CLOSING", "LAST_ACK"}
  BY <1>1, <1>4 DEF States
<1>6. Acked(c, b, p.ack)
  <2>1. LET acked(s) == p.ack = c.maxseq /\ c.state = s
        IN  /\ b \in ControlBlock
            /\ b.curseq = c.curseq /\ b.highest_ack = p.ack /\ b.maxseq = c.maxseq
            /\ b.t_seqno = IF c.t_seqno < p.ack THEN p.ack ELSE c.t_seqno
            /\ b.rq = c.rq /\ b.out = c.out /\ b.delivered = c.delivered
            /\ b.state = IF acked("FIN_WAIT_1") THEN "FIN_WAIT_2"
                         ELSE IF acked("CLOSING") THEN "CLOSED" ELSE c.state
    BY <1>0, <1>3, AfterAckIs
  <2> HIDE DEF b
  <2> QED BY <1>5, <2>1 DEF Acked
<1> HIDE DEF b
<1>7. World(e, b, h, f, d, g) /\ Moved(e, c, h, b, h)
  BY <1>1, <1>3, <1>5, <1>6, AckedKeeps
<1>8. AfterSegment(e, c, h, f, d, g, p, b)
  BY <1>5, <1>6, <1>7 DEF AfterSegment, Acked
<1> QED BY <1>8 DEF b

\* Trimming, the ACK, the data and the FIN of a segment, in this order.
LEMMA SegmentKeeps ==
    ASSUME NEW e, NEW c, NEW h, NEW f, NEW d, NEW g, World(e, c, h, f, d, g), Quiet(c),
           c.state \notin {"CLOSED", "LISTEN", "SYN_SENT"},
           NEW p, Heard(p, f, d, g), "FIN" \in p.flags => c.state # "LAST_ACK"
    PROVE  Result(e, c, h, f, d, g, Segment(c, p))
<1> DEFINE syn == "SYN" \in p.flags
           seq == IF syn THEN p.seq + 1 ELSE p.seq
           trims == c.rq.nxt > p.seq /\ (syn \/ p.len > 0)
           todrop == c.rq.nxt - seq
           dup == trims /\ (todrop > p.len \/ (todrop = p.len /\ "FIN" \notin p.flags))
           a == [c EXCEPT !.acknow = @ \/ dup]
           x == [a EXCEPT !.state = IF @ = "SYN_RECEIVED" THEN "ESTABLISHED" ELSE @]
           new == p.ack > c.highest_ack
           b == IF new THEN AfterAck(x, p.ack) ELSE x
           needoutput == new /\ p.ack = c.maxseq /\ b.state # "FIN_WAIT_2"
           r == Segment(c, p)
<1>0. /\ c \in ControlBlock /\ h \in Nat /\ d \in ControlBlock /\ g \in Nat
      /\ Shape(c, h) /\ BlockOK(e, c, h) /\ OutOK(c, h)
  BY DEF World, BlockOK
<1>1. /\ c.maxseq \in Int /\ c.highest_ack \in Int /\ c.t_seqno \in Nat /\ c.state \in States
      /\ c.rq.nxt \in Int
  BY <1>0, BlockTypes
<1>2. /\ c.maxseq >= 1 /\ c.rq.nxt >= 1 /\ c.highest_ack <= c.maxseq
      /\ c.state = "SYN_RECEIVED" => c.highest_ack = -1 /\ c.maxseq = 1
  BY <1>0, <1>1 DEF Shape, Opening, Open, Closing, Over
<1>3. ~WasReset(f, d, g) /\ Opened(e, h)
  BY <1>0 DEF World, Linked, Endings, BlockOK
<1>4. PacketOK(p, d, g) /\ p.seq \in Nat /\ p.ack \in Int
  BY <1>3 DEF Heard, Packet
<1>5. ~(syn /\ ~trims)
  BY <1>1, <1>2, <1>4 DEF PacketOK
<1>6. /\ a \in ControlBlock /\ Same(c, a) /\ a.out = <<>> /\ a.state = c.state
      /\ a = [c EXCEPT !.acknow = a.acknow]
  <2>1. (c.acknow \/ dup) \in BOOLEAN
    OBVIOUS
  <2> HIDE DEF dup
  <2> QED BY <1>0, <2>1 DEF ControlBlock, Same, Quiet
<1> HIDE DEF a
<1>7. World(e, a, h, f, d, g) /\ Moved(e, c, h, a, h)
  BY <1>6, Alike DEF OutOK
<1>8. r = IF syn /\ ~trims THEN dropwithreset(c, p)
          ELSE IF "ACK" \notin p.flags THEN Goto(a, "drop")
          ELSE IF c.state = "SYN_RECEIVED" /\ p.ack \notin c.highest_ack .. c.maxseq
          THEN dropwithreset(a, p)
          ELSE IF p.ack > c.maxseq THEN Goto(x, "dropafterack")
          ELSE IF new /\ c.state = "LAST_ACK" /\ b.state = "CLOSED" THEN Goto(b, "drop")
          ELSE Step6(b, seq, p, needoutput)
  BY DEF Segment, a
<1> HIDE DEF r, syn, trims
<1>9. CASE "ACK" \notin p.flags
  <2>1. r = Goto(a, "drop")
    BY <1>5, <1>8, <1>9
  <2>2. r.c = a /\ r.label = "drop"
    BY <2>1 DEF Goto
  <2>3. a.state = "CLOSE_WAIT" => a.highest_ack # a.maxseq
    BY <1>1, <1>6 DEF Quiet, Same
  <2>4. Result(e, c, h, f, d, g, r)
    BY <1>6, <1>7, <2>2, <2>3 DEF Result
  <2> QED BY <2>4 DEF r
<1>10. CASE "ACK" \in p.flags
  <2>1. p.ack \in Nat /\ 1 <= p.ack /\ p.ack <= d.rq.nxt /\ d.rq.nxt >= 1 /\ p.ack <= c.maxseq
    BY <1>2, <1>4, <1>10, AckRange
  <2>2. r = IF new /\ c.state = "LAST_ACK" /\ b.state = "CLOSED" THEN Goto(b, "drop")
            ELSE Step6(b, seq, p, needoutput)
    <3>1. ~(c.state = "SYN_RECEIVED" /\ p.ack \notin c.highest_ack .. c.maxseq)
      BY <1>1, <1>2, <2>1
    <3>2. ~(p.ack > c.maxseq)
      BY <1>1, <2>1
    <3> QED BY <1>5, <1>8, <1>10, <3>1, <3>2
  <2>3. x \in ControlBlock /\ (c.state # "SYN_RECEIVED" => x = a)
    <3>1. "ESTABLISHED" \in States
      BY DEF States
    <3> QED BY <1>6, <3>1 DEF ControlBlock
  <2>4. CASE new /\ c.state = "LAST_ACK" /\ p.ack = c.maxseq
    <3>1. x = a /\ a.maxseq = c.maxseq /\ a.state = "LAST_ACK"
      BY <1>6, <2>3, <2>4 DEF Same
    <3>2. b = AfterAck(a, p.ack)
      BY <2>4, <3>1
    <3>3. b = Fresh("CLOSED", a.delivered) /\ a.delivered \in Nat
      BY <1>6, <2>1, <2>4, <3>1, <3>2, AfterAckIs DEF ControlBlock
    <3>4. World(e, b, h, f, d, g) /\ WasReset(e, b, h)
      BY <1>7, <2>1, <2>4, <3>1, <3>3, ResetKeeps
    <3>5. b.state = "CLOSED" /\ b.out = <<>>
      <4>1. "CLOSED" \in States
        BY DEF States
      <4> HIDE DEF b
      <4> QED BY <3>3, <4>1, FreshIs
    <3> HIDE DEF b
    <3>6. r = Goto(b, "drop")
      BY <2>2, <2>4, <3>5
    <3>7. r.c = b /\ r.label = "drop"
      BY <3>6 DEF Goto
    <3>8. Result(e, c, h, f, d, g, r)
      BY <3>4, <3>5, <3>7 DEF Result, Moved
    <3> QED BY <3>8 DEF r
  <2>5. CASE ~(new /\ c.state = "LAST_ACK" /\ p.ack = c.maxseq)
    <3>1. AfterSegment(e, c, h, f, d, g, p, b)
      <4>1. CASE c.state = "SYN_RECEIVED"
        <5>1. x = [c EXCEPT !.acknow = x.acknow, !.state = "ESTABLISHED"]
          BY <1>6, <4>1 DEF ControlBlock
        <5>2. new
          BY <1>2, <2>1, <4>1
        <5> HIDE DEF x
        <5>3. AfterSegment(e, c, h, f, d, g, p, AfterAck(x, p.ack))
          BY <1>4, <1>10, <2>3, <4>1, <5>1, SynAcked DEF Quiet
        <5> QED BY <5>2, <5>3
      <4>2. CASE c.state # "SYN_RECEIVED" /\ new
        <5>1. b = AfterAck(a, p.ack)
          BY <2>3, <4>2
        <5>2. /\ a.state = c.state /\ a.highest_ack = c.highest_ack /\ a.maxseq = c.maxseq
              /\ a.rq = c.rq
          BY <1>6 DEF Same
        <5>3. AfterSegment(e, a, h, f, d, g, p, b)
          BY <1>4, <1>7, <1>10, <2>5, <4>2, <5>1, <5>2, NewAck
        <5>4. b \in ControlBlock
          BY <5>3 DEF AfterSegment, World, BlockOK
        <5> HIDE DEF b
        <5>5. Moved(e, c, h, b, h)
          BY <1>0, <1>6, <1>7, <5>3, <5>4, MovedOn DEF AfterSegment
        <5> QED BY <5>2, <5>3, <5>5 DEF AfterSegment
      <4>3. CASE c.state # "SYN_RECEIVED" /\ ~new
        <5>1. b = a
          BY <2>3, <4>3
        <5> QED BY <1>6, <1>7, <4>3, <5>1 DEF AfterSegment, Same
      <4> QED BY <4>1, <4>2, <4>3
    <3> HIDE DEF b, x
    <3>2. ~(new /\ c.state = "LAST_ACK" /\ b.state = "CLOSED")
      BY <3>1 DEF AfterSegment
    <3>3. r = Step6(b, seq, p, needoutput)
      BY <2>2, <3>2
    <3>4. b.rq.nxt >= 1 /\ b.state \notin {"LISTEN", "SYN_SENT", "SYN_RECEIVED"}
      BY <1>2, <3>1 DEF AfterSegment
    <3>5. p.ack <= b.highest_ack
      BY <1>1, <1>4, <3>1 DEF AfterSegment
    <3>6. "FIN" \in p.flags => b.state # "LAST_ACK"
      BY <3>1 DEF AfterSegment
    <3>7. b.state = "CLOSE_WAIT" /\ b.highest_ack = b.maxseq => needoutput
      BY <1>1, <3>1 DEF AfterSegment, Quiet
    <3>8. Result(e, b, h, f, d, g, Step6(b, seq, p, needoutput))
      <4>1. needoutput \in BOOLEAN
        OBVIOUS
      <4>2. World(e, b, h, f, d, g)
        BY <3>1 DEF AfterSegment
      <4>3. seq = IF "SYN" \in p.flags THEN p.seq + 1 ELSE p.seq
        BY DEF syn
      <4> HIDE DEF needoutput, seq
      <4> QED BY <1>3, <1>4, <3>4, <3>5, <3>6, <3>7, <4>1, <4>2, <4>3, StepKeeps
    <3>9. Result(e, b, h, f, d, g, r)
      BY <3>3, <3>8
    <3>10. Moved(e, c, h, r.c, h)
      <4>1. b \in ControlBlock /\ Moved(e, c, h, b, h)
        BY <3>1 DEF AfterSegment, World, BlockOK
      <4>2. r.c \in ControlBlock /\ Moved(e, b, h, r.c, h)
        BY <3>9 DEF Result, World, BlockOK
      <4> QED BY <1>0, <4>1, <4>2, MovedOn
    <3>11. Result(e, c, h, f, d, g, r)
      BY <3>9, <3>10 DEF Result
    <3> QED BY <3>11 DEF r
  <2> QED BY <2>4, <2>5
<1> QED BY <1>9, <1>10

\* recv(), by state.
LEMMA ReceivedKeeps ==
    ASSUME NEW e, NEW c, NEW h, NEW f, NEW d, NEW g, World(e, c, h, f, d, g), Quiet(c),
           NEW p, Heard(p, f, d, g)
    PROVE  \/ Result(e, c, h, f, d, g, Received(c, p))
           \/ Answer(e, c, h, f, d, g, Received(c, p))
<1>1. CASE c.state = "CLOSED"
  <2>1. Received(c, p) = RecvClosed(c, p)
    BY <1>1, Zenon DEF Received
  <2> QED BY <1>1, <2>1, RecvClosedKeeps
<1>2. CASE c.state = "LISTEN"
  <2>1. Received(c, p) = RecvListen(c, p)
    BY <1>2, Zenon DEF Received
  <2> QED BY <1>2, <2>1, RecvListenKeeps
<1>3. CASE c.state = "SYN_SENT"
  <2>1. Received(c, p) = RecvSynSent(c, p)
    BY <1>3, Zenon DEF Received
  <2> QED BY <1>3, <2>1, RecvSynSentKeeps
<1>4. CASE c.state = "LAST_ACK" /\ "FIN" \in p.flags
  <2>1. Received(c, p) = Goto(c, "drop")
    BY <1>4, Zenon DEF Received
  <2> QED BY <2>1, Dropped
<1>5. CASE /\ c.state \notin {"CLOSED", "LISTEN", "SYN_SENT"}
           /\ ~(c.state = "LAST_ACK" /\ "FIN" \in p.flags)
  <2>1. Received(c, p) = Segment(c, p)
    BY <1>5, Zenon DEF Received
  <2> QED BY <1>5, <2>1, SegmentKeeps
<1> QED BY <1>1, <1>2, <1>3, <1>4, <1>5

-----------------------------------------------------------------------------
(* The end of a handler *)

\* A handler of e has led from c, h to x, k, and x.out is still to be sent.
Settled(e, c, h, f, d, g, x, k) ==
    /\ World(e, x, k, f, d, g) /\ Moved(e, c, h, x, k)
    /\ x.state = "CLOSE_WAIT" => x.highest_ack < x.maxseq
    /\ x.maxseq < 1 /\ ~WasReset(e, x, k) => x.out = <<>>

\* An agent that has sent nothing and is open has been reset.
LEMMA Rests ==
    ASSUME NEW e, NEW x, NEW h, BlockOK(e, x, h), Opened(e, h),
           x.state \notin {"LISTEN", "SYN_SENT", "SYN_RECEIVED"}
    PROVE  x.maxseq < 1 => WasReset(e, x, h)
<1>0. x \in ControlBlock /\ h \in Nat /\ Shape(x, h)
  BY DEF BlockOK
<1>1. /\ x.maxseq \in Int /\ x.highest_ack \in Int /\ x.t_seqno \in Nat
  BY <1>0, BlockTypes
<1>2. CASE Idle(x)
  BY <1>0, <1>1, <1>2 DEF WasReset, Shape, Idle, Open, Closing, Over
<1>3. CASE Open(x, h)
  BY <1>1, <1>3 DEF Open
<1>4. CASE Closing(x, h) \/ Over(x, h)
  BY <1>0, <1>1, <1>4 DEF Closing, Over
<1> QED BY <1>0, <1>2, <1>3, <1>4 DEF Shape

\* The packets of a handler do not depend on what else it does.
LEMMA SameOut ==
    ASSUME NEW c, NEW x, NEW h, Same(c, x), x.out = c.out, OutOK(c, h)
    PROVE  OutOK(x, h)
<1>1. Top(x, h) = Top(c, h)
  BY DEF Same, Top
<1> QED BY <1>1 DEF OutOK, PacketOK, Same

\* The end of recv: what there is to send goes out, and a passive close follows
\* the last byte.
LEMMA FinishKeeps ==
    ASSUME NEW e, NEW c \in ControlBlock, NEW h, NEW f, NEW d, NEW g,
           NEW r, Result(e, c, h, f, d, g, r), NEW win \in Nat, win >= maxseg_
    PROVE  Settled(e, c, h, f, d, g, Finish(r, win), h)
<1> DEFINE y == r.c
           a == [y EXCEPT !.acknow = @ \/ r.label = "dropafterack"]
           force == a.acknow \/ r.label = "output"
           sends == r.label # "drop" /\ (force \/ a.curseq >= a.highest_ack)
           x == IF sends THEN send_much(a, force, win) ELSE a
           close == /\ r.label \in {"end", "output"}
                    /\ x.state = "CLOSE_WAIT" /\ x.highest_ack = x.maxseq
           z == Finish(r, win)
<1>0. /\ World(e, y, h, f, d, g) /\ Moved(e, c, h, y, h)
      /\ y \in ControlBlock /\ h \in Nat /\ OutOK(y, h)
  BY DEF Result, World, BlockOK
<1>1. z = IF close THEN usrclosed(x, win) ELSE x
  BY DEF Finish
<1>2. /\ a \in ControlBlock /\ Same(y, a) /\ a.out = y.out
      /\ a.acknow = (y.acknow \/ r.label = "dropafterack")
  <2>1. (y.acknow \/ r.label = "dropafterack") \in BOOLEAN
    OBVIOUS
  <2> HIDE DEF y
  <2> QED BY <1>0, <2>1 DEF ControlBlock, Same
<1>3. OutOK(a, h)
  BY <1>0, <1>2, SameOut
<1>4. World(e, a, h, f, d, g) /\ Moved(e, y, h, a, h)
  BY <1>0, <1>2, <1>3, Alike
<1>5. Moved(e, c, h, a, h)
  BY <1>0, <1>2, <1>4, MovedOn
<1>6. force \in BOOLEAN
  BY <1>2 DEF ControlBlock
<1>7. /\ a.state = y.state /\ a.highest_ack = y.highest_ack /\ a.maxseq = y.maxseq
      /\ a.highest_ack \in Int /\ a.maxseq \in Int /\ Shape(a, h) /\ a.state \in States
  BY <1>2, <1>4 DEF Same, ControlBlock, World, BlockOK
<1>8. a.state = "CLOSE_WAIT" /\ a.highest_ack = a.maxseq =>
         r.label = "output" \/ (r.label = "end" /\ force)
  BY <1>2, <1>7 DEF Result
<1>9. a.state = "CLOSE_WAIT" => a.highest_ack <= a.maxseq /\ a.t_seqno \in Nat
  <2>1. a.t_seqno \in Nat
    BY <1>2 DEF ControlBlock
  <2>2. a.state = "CLOSE_WAIT" => Open(a, h)
    BY <1>7 DEF Shape
  <2> QED BY <1>7, <2>1, <2>2 DEF Open
<1>10. r.label # "drop" => /\ a.state \notin {"LISTEN", "SYN_SENT", "SYN_RECEIVED"}
                           /\ Opened(e, h)
  BY <1>7 DEF Result
<1> HIDE DEF a, y, z
<1>11. CASE ~sends
  <2>1. x = a
    BY <1>11
  <2>2. a.state = "CLOSE_WAIT" => a.highest_ack < a.maxseq
    BY <1>7, <1>8, <1>9, <1>11
  <2>3. ~close
    BY <1>7, <2>1, <2>2
  <2>4. z = a
    BY <1>1, <2>1, <2>3
  <2>5. a.maxseq < 1 /\ ~WasReset(e, a, h) => a.out = <<>>
    <3>1. r.label = "drop" => a.out = <<>>
      BY <1>2 DEF Result, y
    <3>2. BlockOK(e, a, h)
      BY <1>4 DEF World
    <3> QED BY <1>10, <3>1, <3>2, Rests
  <2>6. Settled(e, c, h, f, d, g, a, h)
    BY <1>4, <1>5, <2>2, <2>5 DEF Settled
  <2> QED BY <2>4, <2>6 DEF z
<1>12. CASE sends
  <2>1. x = send_much(a, force, win)
    BY <1>12
  <2> HIDE DEF force
  <2>2. Ready(a, h, force)
    BY <1>7, <1>10, <1>12 DEF Ready, Shape
  <2>3. /\ Sending(a, x, h)
        /\ a.state = "CLOSE_WAIT" /\ force => Drained(x)
    BY <1>0, <1>2, <1>3, <1>6, <2>1, <2>2, SendMuch
  <2> HIDE DEF x
  <2>4. World(e, x, h, f, d, g) /\ Moved(e, a, h, x, h)
    BY <1>4, <2>3, SendKeeps
  <2>5. /\ x \in ControlBlock /\ x.highest_ack = a.highest_ack /\ x.maxseq >= a.maxseq
        /\ x.state = a.state \/ (a.state = "ESTABLISHED" /\ x.state = "FIN_WAIT_1")
        /\ Shape(x, h)
    BY <2>3 DEF Sending, Kept
  <2>6. x.maxseq \in Int /\ x.highest_ack \in Int /\ x.t_seqno \in Nat /\ x.curseq \in Nat
    BY <2>5 DEF ControlBlock
  <2>7. Moved(e, c, h, x, h)
    BY <1>0, <1>2, <1>5, <2>4, <2>5, MovedOn
  <2>8. x.state = "CLOSE_WAIT" =>
          /\ a.state = "CLOSE_WAIT" /\ Open(x, h) /\ x.highest_ack <= x.maxseq
          /\ x.highest_ack = x.maxseq => a.highest_ack = a.maxseq
    <3> SUFFICES ASSUME x.state = "CLOSE_WAIT"
                 PROVE  /\ a.state = "CLOSE_WAIT" /\ Open(x, h) /\ x.highest_ack <= x.maxseq
                        /\ x.highest_ack = x.maxseq => a.highest_ack = a.maxseq
      OBVIOUS
    <3>1. a.state = "CLOSE_WAIT" /\ Open(x, h)
      BY <2>5 DEF Shape
    <3>2. x.highest_ack <= x.maxseq
      BY <2>6, <3>1 DEF Open
    <3> QED BY <1>7, <1>9, <2>5, <2>6, <3>1, <3>2
  <2>9. CASE close
    <3>1. x.state = "CLOSE_WAIT" /\ x.highest_ack = x.maxseq
      BY <2>9
    <3>2. a.state = "CLOSE_WAIT" /\ a.highest_ack = a.maxseq /\ Open(x, h)
      BY <2>8, <3>1
    <3>3. force
      BY <1>8, <3>2 DEF force
    <3>4. Drained(x)
      BY <2>3, <3>2, <3>3
    <3>5. x.maxseq = h + 1 /\ x.t_seqno = h + 1
      BY <1>0, <2>6, <3>1, <3>2, <3>4 DEF Drained, Open
    <3> DEFINE u == usrclosed(x, win)
    <3>6. /\ World(e, u, h, f, d, g) /\ Moved(e, x, h, u, h)
          /\ u.state \in {"FIN_WAIT_1", "LAST_ACK"}
      BY <2>4, <3>1, <3>5, CloseKeeps
    <3>7. z = u
      BY <1>1, <2>9
    <3> HIDE DEF u
    <3>8. u \in ControlBlock /\ BlockOK(e, u, h)
      BY <3>6 DEF World, BlockOK
    <3>9. Moved(e, c, h, u, h)
      BY <1>0, <2>5, <2>7, <3>6, <3>8, MovedOn
    <3>10. u.maxseq < 1 => WasReset(e, u, h)
      BY <1>10, <1>12, <3>6, <3>8, Rests
    <3>11. Settled(e, c, h, f, d, g, u, h)
      BY <3>6, <3>9, <3>10 DEF Settled
    <3> QED BY <3>7, <3>11 DEF z
  <2>10. CASE ~close
    <3>1. z = x
      BY <1>1, <2>10
    <3>2. x.state = "CLOSE_WAIT" => x.highest_ack < x.maxseq
      BY <1>8, <2>6, <2>8, <2>10
    <3>3. BlockOK(e, x, h) /\ x.state \notin {"LISTEN", "SYN_SENT", "SYN_RECEIVED"}
      BY <1>10, <1>12, <2>4, <2>5 DEF World
    <3>4. x.maxseq < 1 => WasReset(e, x, h)
      BY <1>10, <1>12, <3>3, Rests
    <3>5. Settled(e, c, h, f, d, g, x, h)
      BY <2>4, <2>7, <3>2, <3>4 DEF Settled
    <3> QED BY <3>1, <3>5 DEF z
  <2> QED BY <2>9, <2>10
<1> QED BY <1>11, <1>12

\* The end of recv after a SYN: the SYN and the ACK go out.
LEMMA FinishAnswers ==
    ASSUME NEW e, NEW c, NEW h, NEW f, NEW d, NEW g, World(e, c, h, f, d, g),
           NEW r, Answer(e, c, h, f, d, g, r), NEW win \in Nat
    PROVE  Settled(e, c, h, f, d, g, Finish(r, win), h)
<1> DEFINE y == r.c
           a == [y EXCEPT !.acknow = @ \/ r.label = "dropafterack"]
           force == a.acknow \/ r.label = "output"
           sends == r.label # "drop" /\ (force \/ a.curseq >= a.highest_ack)
           x == IF sends THEN send_much(a, force, win) ELSE a
           close == /\ r.label \in {"end", "output"}
                    /\ x.state = "CLOSE_WAIT" /\ x.highest_ack = x.maxseq
           z == Finish(r, win)
<1>0. /\ y \in ControlBlock /\ h \in Nat
  BY DEF Answer, World, BlockOK
<1>1. z = IF close THEN usrclosed(x, win) ELSE x
  BY DEF Finish
<1>2. /\ a \in ControlBlock /\ Same(y, a) /\ a.out = y.out
      /\ a.acknow = (y.acknow \/ r.label = "dropafterack")
  <2>1. (y.acknow \/ r.label = "dropafterack") \in BOOLEAN
    OBVIOUS
  <2> HIDE DEF y
  <2> QED BY <1>0, <2>1 DEF ControlBlock, Same
<1>3. force = TRUE /\ sends
  BY <1>2 DEF Answer
<1>4. x = send_much(a, TRUE, win)
  BY <1>3
<1>5. /\ a.state = "SYN_RECEIVED" /\ a.curseq = y.curseq /\ a.highest_ack = y.highest_ack
      /\ a.t_seqno = y.t_seqno /\ a.maxseq = y.maxseq /\ a.rq = y.rq
      /\ a.delivered = c.delivered /\ a.out = <<>> /\ a.maxseq <= 1 /\ a.maxseq \in Int
  BY <1>2 DEF Answer, Same, ControlBlock
<1>6. Opening(a, h, 0)
  BY <1>5 DEF Answer, Opening
<1> HIDE DEF a, y, z, force, sends
<1>7. Ready(a, h, TRUE)
  BY <1>5, <1>6 DEF Ready
<1>8. OutOK(a, h)
  BY <1>5 DEF OutOK
<1>9. Sending(a, x, h)
  BY <1>0, <1>2, <1>4, <1>7, <1>8, SendMuch
<1> HIDE DEF x
<1>10. /\ x \in ControlBlock /\ x.state = "SYN_RECEIVED" /\ Shape(x, h) /\ OutOK(x, h)
       /\ x.rq = a.rq /\ x.delivered = c.delivered
  BY <1>5, <1>9 DEF Sending, Kept
<1>11. Opening(x, h, 1) /\ x.maxseq = 1
  BY <1>10 DEF Shape
<1>12. z = x
  BY <1>1, <1>10
<1>13. Opened(e, h)
  BY DEF Answer
<1>14. BlockOK(e, x, h)
  BY <1>0, <1>10, <1>13 DEF BlockOK
<1>15. World(e, x, h, f, d, g) /\ Moved(e, c, h, x, h)
  <2>1. x.rq.nxt = 1 /\ x.rq.blocks = {} /\ x.highest_ack = -1
    BY <1>10, <1>11 DEF Opening
  <2> QED BY <1>10, <1>11, <1>14, <2>1, OpenKeeps DEF Answer
<1>16. Settled(e, c, h, f, d, g, x, h)
  BY <1>10, <1>11, <1>15 DEF Settled
<1> QED BY <1>12, <1>16 DEF z

-----------------------------------------------------------------------------
(* The timer and the application *)

\* A timeout sends again from the first byte that is not acknowledged.
LEMMA TimeoutKeeps ==
    ASSUME NEW e, NEW c, NEW h, NEW f, NEW d, NEW g, World(e, c, h, f, d, g), Quiet(c),
           c.rtx, NEW win \in Nat
    PROVE  Settled(e, c, h, f, d, g,
                   send_much([c EXCEPT !.t_seqno = Unacked(c)], TRUE, win), h)
<1> DEFINE t == Unacked(c)
           a == [c EXCEPT !.t_seqno = t]
           x == send_much(a, TRUE, win)
<1>0. /\ c \in ControlBlock /\ h \in Nat /\ Shape(c, h) /\ ~Idle(c)
  BY DEF World, BlockOK, Idle
<1>1. /\ c.maxseq \in Int /\ c.highest_ack \in Int /\ c.t_seqno \in Nat
  BY <1>0, BlockTypes
<1>2. t = IF c.highest_ack < 0 THEN 0 ELSE c.highest_ack
  BY DEF Unacked, iss_
<1>3. t \in Nat
  BY <1>1, <1>2
<1> HIDE DEF t
<1>4. /\ a \in ControlBlock /\ Kept(c, a) /\ a.state = c.state /\ a.maxseq = c.maxseq
      /\ a.out = <<>> /\ a.t_seqno = t
  BY <1>0, <1>3 DEF ControlBlock, Kept, Quiet
<1>5. Ready(a, h, TRUE)
  <2>1. CASE c.state \in {"SYN_SENT", "SYN_RECEIVED"} /\ Opening(c, h, 1) /\ c.maxseq = 1
    <3>1. Opening(a, h, 0)
      BY <1>2, <1>4, <2>1 DEF Opening, Kept
    <3> QED BY <1>4, <2>1, <3>1 DEF Ready
  <2>2. CASE c.state \in {"ESTABLISHED", "CLOSE_WAIT"} /\ Open(c, h)
    <3>1. Open(a, h)
      BY <1>1, <1>2, <1>4, <2>2 DEF Open, Kept
    <3> QED BY <1>4, <2>2, <3>1 DEF Ready
  <2>3. CASE c.state \in {"FIN_WAIT_1", "CLOSING", "LAST_ACK"} /\ Closing(c, h)
    <3>1. Closing(a, h)
      BY <1>0, <1>1, <1>2, <1>4, <2>3 DEF Closing, Kept
    <3> QED BY <1>4, <2>3, <3>1 DEF Ready
  <2>4. CASE c.state \in {"FIN_WAIT_2", "CLOSED"} /\ Over(c, h)
    <3>1. Over(a, h)
      BY <1>0, <1>1, <1>2, <1>4, <2>4 DEF Over, Kept
    <3> QED BY <1>4, <2>4, <3>1 DEF Ready
  <2> QED BY <1>0, <2>1, <2>2, <2>3, <2>4 DEF Shape
<1>6. OutOK(a, h)
  BY <1>4 DEF OutOK
<1> HIDE DEF a
<1>7. Sending(a, x, h)
  BY <1>0, <1>4, <1>5, <1>6, SendMuch
<1> HIDE DEF x
<1>8. Sending(c, x, h)
  BY <1>4, <1>7 DEF Sending, Kept
<1>9. World(e, x, h, f, d, g) /\ Moved(e, c, h, x, h)
  BY <1>8, SendKeeps
<1>10. /\ x \in ControlBlock /\ x.highest_ack = c.highest_ack /\ x.maxseq >= c.maxseq
       /\ x.state = "CLOSE_WAIT" => c.state = "CLOSE_WAIT"
  BY <1>8 DEF Sending, Kept
<1>11. x.maxseq \in Int
  BY <1>10 DEF ControlBlock
<1>12. x.state = "CLOSE_WAIT" => x.highest_ack < x.maxseq
  BY <1>1, <1>10, <1>11 DEF Quiet
<1>13. c.maxseq >= 1
  <2>1. CASE c.maxseq = 1
    BY <2>1
  <2>2. CASE Open(c, h)
    BY <1>1, <2>2 DEF Open
  <2>3. CASE Closing(c, h) \/ Over(c, h)
    BY <1>0, <1>1, <2>3 DEF Closing, Over
  <2> QED BY <1>0, <2>1, <2>2, <2>3 DEF Shape
<1>14. ~(x.maxseq < 1)
  BY <1>1, <1>10, <1>11, <1>13
<1>15. Settled(e, c, h, f, d, g, x, h)
  BY <1>9, <1>12, <1>14 DEF Settled
<1> QED BY <1>15 DEF x, a, t

\* The application hands over more bytes.
LEMMA MoreBytes ==
    ASSUME NEW e, NEW c, NEW h, NEW f, NEW d, NEW g, World(e, c, h, f, d, g), c.out = <<>>,
           c.state \in {"SYN_SENT", "SYN_RECEIVED", "ESTABLISHED"},
           NEW nb \in Nat, NEW x \in ControlBlock, x.out = <<>>,
           x.state = c.state, x.curseq = c.curseq + nb, x.highest_ack = c.highest_ack,
           x.t_seqno = c.t_seqno, x.maxseq = c.maxseq, x.rq = c.rq, x.delivered = c.delivered
    PROVE  World(e, x, h + nb, f, d, g) /\ Moved(e, c, h, x, h + nb)
<1> DEFINE k == h + nb
<1>0. /\ c \in ControlBlock /\ h \in Nat /\ Shape(c, h) /\ BlockOK(e, c, h) /\ k \in Nat
  BY DEF World, BlockOK
<1>1. c.rq.nxt \in Int /\ c.maxseq \in Int /\ c.highest_ack \in Int /\ c.t_seqno \in Nat
  BY <1>0, BlockTypes
<1>2. Shape(x, k)
  <2>1. CASE c.state \in {"SYN_SENT", "SYN_RECEIVED"}
    <3>1. Opening(c, h, 1) /\ c.maxseq = 1
      BY <1>0, <2>1 DEF Shape
    <3>2. Opening(x, k, 1)
      BY <3>1 DEF Opening
    <3> QED BY <2>1, <3>1, <3>2 DEF Shape
  <2>2. CASE c.state = "ESTABLISHED"
    <3>1. Open(c, h)
      BY <1>0, <2>2 DEF Shape
    <3>2. Open(x, k)
      BY <1>0, <1>1, <3>1 DEF Open
    <3> QED BY <2>2, <3>2 DEF Shape
  <2> QED BY <2>1, <2>2
<1>3. Opened(e, h) /\ Opened(e, k)
  BY <1>0 DEF BlockOK, Opened
<1> HIDE DEF k
<1>4. BlockOK(e, x, k)
  BY <1>0, <1>2, <1>3 DEF BlockOK, OutOK
<1>5. /\ ~WasReset(e, c, h) /\ ~WasReset(e, x, k) /\ ~SeesFin(e, c, h) /\ ~SeesFin(e, x, k)
      /\ ~FinSent(e, c, h) /\ ~Passive(e, x, k)
  BY DEF WasReset, SeesFin, FinSent, FinStates, Passive
<1>6. Top(c, h) = c.maxseq /\ Top(x, k) = c.maxseq
  BY DEF Top, FinStates
<1>7. Numbers(e, x, k, f, d, g)
  BY <1>5 DEF World, Linked, Numbers
<1>8. Endings(e, x, k, f, d, g)
  BY <1>5 DEF Endings
<1>9. Endings(f, d, g, e, x, k)
  BY DEF World, Linked, Endings
<1>10. World(e, x, k, f, d, g)
  BY <1>1, <1>4, <1>5, <1>6, <1>7, <1>8, <1>9, Carry
<1>11. Grows(c, h, x, k)
  BY <1>1, <1>6 DEF Grows, FinStates
<1> QED BY <1>5, <1>10, <1>11 DEF Moved, k

\* The first message opens the connection.
LEMMA FirstBytes ==
    ASSUME NEW e, NEW c, NEW h, NEW f, NEW d, NEW g, World(e, c, h, f, d, g),
           c.state = "LISTEN" \/ (c.state = "CLOSED" /\ e = "A" /\ h = 0),
           NEW nb \in Nat, nb > 0, NEW x \in ControlBlock, x.state = "SYN_SENT",
           Opening(x, nb, 1), x.maxseq = 1, x.delivered = 0, OutOK(x, nb)
    PROVE  World(e, x, h + nb, f, d, g) /\ Moved(e, c, h, x, h + nb)
<1> DEFINE k == h + nb
<1>0. /\ c \in ControlBlock /\ Shape(c, h) /\ BlockOK(e, c, h) /\ h = 0
      /\ d \in ControlBlock /\ g \in Nat
  BY DEF World, BlockOK
<1>1. c.rq.nxt \in Int /\ c.maxseq \in Int /\ d.rq.nxt \in Int
  BY <1>0, BlockTypes
<1>2. k = nb
  BY <1>0
<1>3. ~Opened(e, h) \/ c.state = "LISTEN"
  BY DEF Opened
<1>4. Idle(c)
  <2>1. CASE c.state = "LISTEN"
    BY <1>0, <2>1 DEF Shape
  <2>2. CASE ~Opened(e, h)
    <3>1. ~(c.maxseq > 0)
      BY <1>0, <2>2 DEF BlockOK
    <3> QED BY <1>0, <3>1 DEF Shape, Over
  <2> QED BY <1>3, <2>1, <2>2
<1>5. c.rq.nxt = -1 /\ c.rq.blocks = {} /\ c.maxseq <= 0
  BY <1>4 DEF Idle
<1>6. x.rq.nxt = -1 /\ x.rq.blocks = {} /\ x.highest_ack = -1
  BY DEF Opening
<1>7. Opened(e, k)
  BY <1>2 DEF Opened
<1> HIDE DEF k
<1>8. BlockOK(e, x, k)
  BY <1>2, <1>7 DEF BlockOK, Shape
<1>9. /\ ~WasReset(e, c, h) /\ ~WasReset(e, x, k) /\ ~SeesFin(e, c, h) /\ ~SeesFin(e, x, k)
      /\ ~FinSent(e, c, h) /\ ~Passive(e, x, k)
  BY <1>3 DEF WasReset, SeesFin, FinSent, FinStates, Passive
<1>10. c.delivered = 0
  BY <1>5, <1>9 DEF World, Linked, Stream
<1>11. Top(c, h) <= 1 /\ Top(x, k) = 1
  BY <1>0, <1>1, <1>5 DEF Top, FinStates
<1>12. ~Passive(f, d, g) /\ ~WasReset(f, d, g)
  <2>1. ~SeesFin(f, d, g)
    BY <1>9 DEF World, Linked, Stream
  <2> QED BY <2>1 DEF SeesFin, Passive, WasReset
<1>13. Numbers(e, x, k, f, d, g)
  BY <1>1, <1>6 DEF Numbers
<1>14. Endings(e, x, k, f, d, g)
  BY <1>9 DEF Endings
<1>15. Endings(f, d, g, e, x, k)
  BY <1>12 DEF Endings
<1>16. World(e, x, k, f, d, g)
  BY <1>5, <1>6, <1>8, <1>9, <1>10, <1>11, <1>13, <1>14, <1>15, Carry
<1>17. Grows(c, h, x, k)
  BY <1>1, <1>5, <1>6, <1>11 DEF Grows, FinStates
<1> QED BY <1>9, <1>16, <1>17 DEF Moved, k

\* sendmsg() of a message of nb bytes.
LEMMA SendmsgKeeps ==
    ASSUME NEW e, NEW c, NEW h, NEW f, NEW d, NEW g, World(e, c, h, f, d, g), Quiet(c),
           \/ c.state \in {"LISTEN", "SYN_SENT", "SYN_RECEIVED", "ESTABLISHED"}
           \/ c.state = "CLOSED" /\ e = "A" /\ h = 0,
           NEW nb \in Nat, nb > 0, NEW eof \in BOOLEAN, NEW win \in Nat
    PROVE  Settled(e, c, h, f, d, g,
                   advance_bytes([c EXCEPT !.close_on_empty = eof], nb, win), h + nb)
<1> DEFINE b == [c EXCEPT !.close_on_empty = eof]
           a == [b EXCEPT !.curseq = @ + nb]
           x == advance_bytes(b, nb, win)
           k == h + nb
<1>0. /\ c \in ControlBlock /\ h \in Nat /\ k \in Nat /\ c.out = <<>> /\ BlockOK(e, c, h)
  BY DEF World, BlockOK, Quiet
<1>1. b \in ControlBlock /\ b.state = c.state /\ c.state \in States
  BY <1>0 DEF ControlBlock
<1>2. /\ a \in ControlBlock /\ a.state = c.state /\ a.curseq = c.curseq + nb
      /\ a.highest_ack = c.highest_ack /\ a.t_seqno = c.t_seqno /\ a.maxseq = c.maxseq
      /\ a.rq = c.rq /\ a.delivered = c.delivered /\ a.out = <<>>
  <2>1. c.curseq + nb \in Nat
    BY <1>0 DEF ControlBlock
  <2> QED BY <1>0, <2>1 DEF ControlBlock
<1>3. x = IF b.state \in {"CLOSED", "LISTEN"}
          THEN connect([Fresh(b.state, 0) EXCEPT !.curseq = iss_ + nb])
          ELSE IF b.state = "ESTABLISHED" THEN send_much(a, FALSE, win) ELSE a
  BY DEF advance_bytes
<1> HIDE DEF a, x
<1>4. CASE c.state \in {"CLOSED", "LISTEN"}
  <2>1. x = connect([Fresh(c.state, 0) EXCEPT !.curseq = iss_ + nb])
    BY <1>1, <1>3, <1>4
  <2>2. /\ x \in ControlBlock /\ x.state = "SYN_SENT" /\ Opening(x, nb, 1)
        /\ x.maxseq = 1 /\ x.delivered = 0 /\ OutOK(x, nb)
    BY <1>1, <2>1, Connect
  <2>3. World(e, x, k, f, d, g) /\ Moved(e, c, h, x, k)
    BY <1>4, <2>2, FirstBytes
  <2>4. Settled(e, c, h, f, d, g, x, k)
    BY <2>2, <2>3 DEF Settled
  <2> QED BY <2>4 DEF x
<1>5. CASE c.state \in {"SYN_SENT", "SYN_RECEIVED", "ESTABLISHED"}
  <2>1. World(e, a, k, f, d, g) /\ Moved(e, c, h, a, k)
    BY <1>0, <1>2, <1>5, MoreBytes
  <2> HIDE DEF k
  <2>2. Shape(a, k) /\ OutOK(a, k) /\ BlockOK(e, a, k)
    BY <2>1 DEF World, BlockOK
  <2>3. CASE c.state \in {"SYN_SENT", "SYN_RECEIVED"}
    <3>1. x = a
      BY <1>1, <1>3, <2>3
    <3>2. a.maxseq = 1
      BY <1>2, <2>2, <2>3 DEF Shape
    <3>3. Settled(e, c, h, f, d, g, x, k)
      BY <1>2, <2>1, <2>3, <3>1, <3>2 DEF Settled
    <3> QED BY <3>3 DEF x, k
  <2>4. CASE c.state = "ESTABLISHED"
    <3>1. x = send_much(a, FALSE, win)
      BY <1>1, <1>3, <2>4
    <3>2. Ready(a, k, FALSE)
      BY <1>2, <2>2, <2>4 DEF Ready, Shape
    <3>3. Sending(a, x, k)
      BY <1>0, <1>2, <2>2, <3>1, <3>2, SendMuch
    <3>4. World(e, x, k, f, d, g) /\ Moved(e, a, k, x, k)
      BY <2>1, <3>3, SendKeeps
    <3>5. x \in ControlBlock /\ BlockOK(e, x, k)
      BY <3>4 DEF World, BlockOK
    <3>6. Moved(e, c, h, x, k)
      BY <1>0, <1>2, <2>1, <3>4, <3>5, MovedOn
    <3>7. x.state \in {"ESTABLISHED", "FIN_WAIT_1"}
      BY <1>2, <2>4, <3>3 DEF Sending
    <3>8. Opened(e, k)
      BY <3>5, <3>7 DEF BlockOK
    <3>9. x.maxseq < 1 => WasReset(e, x, k)
      BY <3>5, <3>7, <3>8, Rests
    <3>10. Settled(e, c, h, f, d, g, x, k)
      BY <3>4, <3>6, <3>7, <3>9 DEF Settled
    <3> QED BY <3>10 DEF x, k
  <2> QED BY <1>5, <2>3, <2>4
<1> QED BY <1>4, <1>5

-----------------------------------------------------------------------------
(* The invariant *)

\* What the application hands over.
Message == [len : Nat \ {0}, eof : BOOLEAN]

\* The inductive invariant.
ConnectionInv ==
    /\ agent \in [Ends -> ControlBlock] /\ handed \in [Ends -> Nat]
    /\ left \in [Ends -> Seq(Message)] /\ losses \in 0 .. MaxLoss
    /\ \A e \in Ends :
         /\ Quiet(agent[e])
         /\ World(e, agent[e], handed[e], Peer(e), agent[Peer(e)], handed[Peer(e)])
    /\ \A m \in DOMAIN net :
         m.to \in Ends /\ Heard(m.pkt, Peer(m.to), agent[Peer(m.to)], handed[Peer(m.to)])

\* There are two ends.
LEMMA Peers ==
    ASSUME NEW e \in Ends
    PROVE  Peer(e) \in Ends /\ Peer(e) # e /\ Peer(Peer(e)) = e /\ Ends = {e, Peer(e)}
  BY DEF Ends, Peer

\* A window has room for a segment at least.
LEMMA WindowsAre ==
    ASSUME NEW win \in Windows
    PROVE  win \in Nat /\ win >= maxseg_
<1>1. PICK w \in 1 .. MaxWin : win = w * maxseg_
  BY DEF Windows
<1>2. maxseg_ \in Nat /\ maxseg_ > 0 /\ w \in Nat /\ w >= 1
  BY ConnectionAssumption
<1>3. w * maxseg_ \in Nat /\ w * maxseg_ >= maxseg_
  <2>1. PICK v \in Nat : w = v + 1
    <3>1. w - 1 \in Nat /\ w = (w - 1) + 1
      BY <1>2
    <3> QED BY <3>1
  <2>2. v * maxseg_ \in Nat
    BY <1>2
  <2>3. w * maxseg_ = v * maxseg_ + maxseg_
    BY <1>2, <2>1
  <2> QED BY <1>2, <2>2, <2>3
<1> QED BY <1>1, <1>3

\* A packet in flight stays true.
LEMMA HeardStays ==
    ASSUME NEW e, NEW c \in ControlBlock, NEW x \in ControlBlock, NEW h \in Nat, NEW k \in Nat,
           Moved(e, c, h, x, k), NEW p, Heard(p, e, c, h)
    PROVE  Heard(p, e, x, k)
<1>1. CASE WasReset(e, x, k)
  BY <1>1 DEF Heard
<1>2. CASE Grows(c, h, x, k) /\ ~WasReset(e, c, h)
  <2>1. PacketOK(p, c, h)
    BY <1>2 DEF Heard
  <2>2. PacketOK(p, x, k)
    BY <1>2, <2>1, PacketStays
  <2> QED BY <2>2 DEF Heard
<1> QED BY <1>1, <1>2 DEF Moved

\* The packets in flight after a handler are among the old and the new ones.
LEMMA NetHas ==
    ASSUME NEW N, NEW T, NEW S
    PROVE  DOMAIN ((N (-) SetToBag(T)) (+) S) \subseteq (DOMAIN N) \cup (DOMAIN S)
<1>1. DOMAIN (N (-) SetToBag(T)) \subseteq DOMAIN N
  BY DEF (-), SetToBag
<1> QED BY <1>1 DEF (+)

\* What the handler has sent is forgotten.
LEMMA OutCleared ==
    ASSUME NEW e, NEW c \in ControlBlock, NEW h \in Nat, NEW f, NEW d, NEW g,
           NEW x, NEW k \in Nat, Settled(e, c, h, f, d, g, x, k)
    PROVE  LET z == [x EXCEPT !.out = <<>>]
           IN  /\ z \in ControlBlock /\ Quiet(z) /\ World(e, z, k, f, d, g)
               /\ Moved(e, c, h, z, k)
               /\ x.out \in Seq(Packet)
               /\ \A i \in DOMAIN x.out : Heard(x.out[i], e, z, k)
<1> DEFINE z == [x EXCEPT !.out = <<>>]
<1>1. x \in ControlBlock /\ OutOK(x, k) /\ World(e, x, k, f, d, g) /\ x.out \in Seq(Packet)
      /\ x.maxseq \in Int
  BY DEF Settled, World, BlockOK, ControlBlock
<1>2. z \in ControlBlock /\ Same(x, z) /\ z.out = <<>>
  <2>1. <<>> \in Seq(Packet)
    OBVIOUS
  <2> QED BY <1>1, <2>1 DEF ControlBlock, Same
<1> HIDE DEF z
<1>3. OutOK(z, k)
  BY <1>2 DEF OutOK
<1>4. /\ World(e, z, k, f, d, g) /\ Grows(x, k, z, k) /\ Moved(e, x, k, z, k)
      /\ WasReset(e, z, k) <=> WasReset(e, x, k)
  BY <1>1, <1>2, <1>3, Alike
<1>5. Moved(e, c, h, z, k)
  BY <1>1, <1>2, <1>4, MovedOn DEF Settled
<1>6. Quiet(z)
  BY <1>2 DEF Quiet, Same, Settled
<1>7. ASSUME NEW i \in DOMAIN x.out PROVE Heard(x.out[i], e, z, k)
  <2>1. x.out[i] \in Packet
    BY <1>1, <1>7
  <2>2. CASE WasReset(e, x, k)
    BY <1>4, <2>1, <2>2 DEF Heard
  <2>3. CASE ~WasReset(e, x, k)
    <3>1. x.maxseq >= 1
      <4> SUFFICES ASSUME x.maxseq < 1 PROVE FALSE
        BY <1>1
      <4>1. x.out = <<>>
        BY <2>3 DEF Settled
      <4> QED BY <1>7, <4>1
    <3>2. PacketOK(x.out[i], x, k)
      BY <1>1, <1>7, <3>1 DEF OutOK
    <3>3. PacketOK(x.out[i], z, k)
      BY <1>1, <1>2, <1>4, <3>2, PacketStays
    <3> QED BY <2>1, <3>3 DEF Heard
  <2> QED BY <2>2, <2>3
<1> QED BY <1>1, <1>2, <1>4, <1>5, <1>6, <1>7 DEF z

\* The end of a handler keeps the invariant.
LEMMA DoneKeeps ==
    ASSUME ConnectionInv, NEW e \in Ends, NEW x, NEW taken, Done(e, x, taken),
           NEW k \in Nat, handed' = [handed EXCEPT ![e] = k], left' \in [Ends -> Seq(Message)],
           Settled(e, agent[e], handed[e], Peer(e), agent[Peer(e)], handed[Peer(e)], x, k)
    PROVE  ConnectionInv'
<1> DEFINE f == Peer(e)
           z == [x EXCEPT !.out = <<>>]
           to(m) == [to |-> f, pkt |-> m]
<1>0. /\ agent \in [Ends -> ControlBlock] /\ handed \in [Ends -> Nat] /\ losses \in 0 .. MaxLoss
      /\ f \in Ends /\ f # e /\ Peer(f) = e /\ Ends = {e, f}
  BY Peers DEF ConnectionInv
<1>1. PICK lost \in SUBSET DOMAIN x.out :
        LET kept == DOMAIN x.out \ lost
            sent == [m \in {to(x.out[i]) : i \in kept} |->
                       Cardinality({i \in kept : to(x.out[i]) = m})]
        IN /\ losses + Cardinality(lost) <= MaxLoss
           /\ losses' = losses + Cardinality(lost)
           /\ net' = (net (-) SetToBag(taken)) (+) sent
           /\ agent' = [agent EXCEPT ![e] = z]
  BY DEF Done
<1> DEFINE kept == DOMAIN x.out \ lost
           sent == [m \in {to(x.out[i]) : i \in kept} |->
                      Cardinality({i \in kept : to(x.out[i]) = m})]
<1>2. /\ z \in ControlBlock /\ Quiet(z) /\ World(e, z, k, f, agent[f], handed[f])
      /\ Moved(e, agent[e], handed[e], z, k)
      /\ x.out \in Seq(Packet)
      /\ \A i \in DOMAIN x.out : Heard(x.out[i], e, z, k)
  <2>1. agent[e] \in ControlBlock /\ handed[e] \in Nat
    BY <1>0
  <2> QED BY <2>1, OutCleared
<1> HIDE DEF z, f
<1>3. /\ agent' \in [Ends -> ControlBlock] /\ handed' \in [Ends -> Nat]
      /\ agent'[e] = z /\ agent'[f] = agent[f] /\ handed'[e] = k /\ handed'[f] = handed[f]
  BY <1>0, <1>1, <1>2
<1>4. losses' \in 0 .. MaxLoss
  <2>1. IsFiniteSet(DOMAIN x.out)
    <3>1. DOMAIN x.out = 1 .. Len(x.out) /\ Len(x.out) \in Nat
      BY <1>2
    <3>2. IsFiniteSet(1 .. Len(x.out))
      <4>1. 1 \in Int /\ Len(x.out) \in Int
        BY <3>1
      <4> QED BY <4>1, FS_Interval, Zenon
    <3> QED BY <3>1, <3>2
  <2>2. Cardinality(lost) \in Nat
    BY <2>1, FS_Subset, FS_CardinalityType
  <2>3. losses' = losses + Cardinality(lost) /\ losses + Cardinality(lost) <= MaxLoss
    BY <1>1
  <2>4. MaxLoss \in Nat
    BY ConnectionAssumption
  <2> QED BY <1>0, <2>2, <2>3, <2>4
<1>5. Quiet(z) /\ Quiet(agent[f])
  BY <1>0, <1>2 DEF ConnectionInv
<1>6. World(f, agent[f], handed[f], e, z, k)
  BY <1>2 DEF World
<1>7. ASSUME NEW b \in Ends
      PROVE  /\ Quiet(agent'[b])
             /\ World(b, agent'[b], handed'[b], Peer(b), agent'[Peer(b)], handed'[Peer(b)])
  <2>1. CASE b = e
    <3>1. Peer(b) = f
      BY <2>1 DEF f
    <3> QED BY <1>2, <1>3, <1>5, <2>1, <3>1
  <2>2. CASE b = f
    <3>1. Peer(b) = e
      BY <1>0, <2>2
    <3> QED BY <1>3, <1>5, <1>6, <2>2, <3>1
  <2> QED BY <1>0, <2>1, <2>2
<1>8. ASSUME NEW m \in DOMAIN net'
      PROVE  /\ m.to \in Ends
             /\ Heard(m.pkt, Peer(m.to), agent'[Peer(m.to)], handed'[Peer(m.to)])
  <2>1. m \in DOMAIN net \/ m \in DOMAIN sent
    <3>1. net' = (net (-) SetToBag(taken)) (+) sent
      BY <1>1
    <3> HIDE DEF sent
    <3>2. DOMAIN net' \subseteq (DOMAIN net) \cup (DOMAIN sent)
      BY <3>1, NetHas
    <3> QED BY <1>8, <3>2
  <2>2. CASE m \in DOMAIN net
    <3>1. m.to \in Ends /\ Heard(m.pkt, Peer(m.to), agent[Peer(m.to)], handed[Peer(m.to)])
      BY <2>2 DEF ConnectionInv
    <3>2. CASE m.to = e
      <4>1. Peer(m.to) = f
        BY <3>2 DEF f
      <4> QED BY <1>3, <3>1, <4>1
    <3>3. CASE m.to = f
      <4>1. Peer(m.to) = e
        BY <1>0, <3>3
      <4>2. Heard(m.pkt, e, agent[e], handed[e]) /\ agent[e] \in ControlBlock /\ handed[e] \in Nat
        BY <1>0, <3>1, <4>1
      <4>3. Heard(m.pkt, e, z, k)
        BY <1>2, <4>2, HeardStays
      <4> QED BY <1>3, <3>1, <4>1, <4>3
    <3> QED BY <1>0, <3>1, <3>2, <3>3
  <2>3. CASE m \in DOMAIN sent
    <3>1. PICK i \in DOMAIN x.out : m = to(x.out[i])
      BY <2>3
    <3>2. m.to = f /\ m.pkt = x.out[i]
      BY <3>1
    <3>3. Peer(m.to) = e
      BY <1>0, <3>2
    <3>4. Heard(m.pkt, e, z, k)
      BY <1>2, <3>2
    <3> QED BY <1>0, <1>3, <3>2, <3>3, <3>4
  <2> QED BY <2>1, <2>2, <2>3
<1> QED BY <1>3, <1>4, <1>7, <1>8 DEF ConnectionInv

\* The invariant, at one end.
LEMMA InvAt ==
    ASSUME ConnectionInv, NEW e \in Ends
    PROVE  /\ Quiet(agent[e]) /\ agent[e] \in ControlBlock /\ handed[e] \in Nat
           /\ World(e, agent[e], handed[e], Peer(e), agent[Peer(e)], handed[Peer(e)])
           /\ left \in [Ends -> Seq(Message)]
           /\ handed = [handed EXCEPT ![e] = handed[e]]
  BY DEF ConnectionInv

\* The application hands a message over.
LEMMA SendmsgStep ==
    ASSUME ConnectionInv, NEW e \in Ends, sendmsg(e)
    PROVE  ConnectionInv'
<1> DEFINE c == agent[e]
           msg == Head(left[e])
           eof == c.close_on_empty \/ msg.eof
           k == handed[e] + msg.len
<1>0. /\ Quiet(c) /\ handed[e] \in Nat /\ left \in [Ends -> Seq(Message)]
      /\ World(e, c, handed[e], Peer(e), agent[Peer(e)], handed[Peer(e)])
  BY InvAt
<1>1. /\ left[e] \in Seq(Message) /\ left[e] # <<>>
      /\ \/ c.state \in {"LISTEN", "SYN_SENT", "SYN_RECEIVED", "ESTABLISHED"}
         \/ c.state = "CLOSED" /\ e = "A" /\ handed[e] = 0
  BY <1>0 DEF sendmsg, CanSend
<1>2. msg \in Message /\ Tail(left[e]) \in Seq(Message)
  BY <1>1
<1>3. msg.len \in Nat /\ msg.len > 0 /\ eof \in BOOLEAN /\ k \in Nat
  <2> HIDE DEF msg
  <2> QED BY <1>0, <1>2 DEF Message
<1>4. /\ left' = [left EXCEPT ![e] = Tail(@)]
      /\ handed' = [handed EXCEPT ![e] = k]
  BY DEF sendmsg
<1>5. PICK win \in Windows :
        Done(e, advance_bytes([c EXCEPT !.close_on_empty = eof], msg.len, win), {})
  BY DEF sendmsg
<1>6. left' \in [Ends -> Seq(Message)]
  BY <1>0, <1>2, <1>4
<1>7. win \in Nat
  BY WindowsAre
<1> HIDE DEF eof, msg, c
<1>8. Settled(e, c, handed[e], Peer(e), agent[Peer(e)], handed[Peer(e)],
              advance_bytes([c EXCEPT !.close_on_empty = eof], msg.len, win), k)
  BY <1>0, <1>1, <1>3, <1>7, SendmsgKeeps
<1> HIDE DEF k
<1> QED BY <1>3, <1>4, <1>5, <1>6, <1>8, DoneKeeps DEF c

\* The application closes.
LEMMA CloseStep ==
    ASSUME ConnectionInv, NEW e \in Ends, Close(e)
    PROVE  ConnectionInv'
<1> DEFINE c == agent[e]
           h == handed[e]
<1>0. /\ Quiet(c) /\ h \in Nat /\ left \in [Ends -> Seq(Message)] /\ c \in ControlBlock
      /\ World(e, c, h, Peer(e), agent[Peer(e)], handed[Peer(e)])
      /\ handed = [handed EXCEPT ![e] = h]
  BY InvAt
<1>1. c.state = "ESTABLISHED" /\ c.maxseq = c.curseq + 1
  BY DEF Close, AllSent
<1>2. PICK win \in Windows : Done(e, usrclosed(c, win), {})
  BY DEF Close
<1>3. left' = left /\ handed' = handed
  BY DEF Close
<1>4. win \in Nat
  BY WindowsAre
<1>5. c.curseq = h
  BY <1>0, <1>1 DEF World, BlockOK, Shape, Open
<1> DEFINE u == usrclosed(c, win)
<1> HIDE DEF c, h
<1>6. /\ World(e, u, h, Peer(e), agent[Peer(e)], handed[Peer(e)]) /\ Moved(e, c, h, u, h)
      /\ u.state \in {"FIN_WAIT_1", "LAST_ACK"}
  BY <1>0, <1>1, <1>4, <1>5, CloseKeeps
<1> HIDE DEF u
<1>7. u.maxseq < 1 => WasReset(e, u, h)
  <2>1. BlockOK(e, u, h)
    BY <1>6 DEF World
  <2>2. Opened(e, h)
    BY <1>6, <2>1 DEF BlockOK
  <2> QED BY <1>6, <2>1, <2>2, Rests
<1>8. Settled(e, c, h, Peer(e), agent[Peer(e)], handed[Peer(e)], u, h)
  BY <1>6, <1>7 DEF Settled
<1>9. Done(e, u, {})
  BY <1>2 DEF u
<1> QED BY <1>0, <1>3, <1>8, <1>9, DoneKeeps DEF c, h

\* The retransmission timer expires.
LEMMA TimeoutStep ==
    ASSUME ConnectionInv, NEW e \in Ends, timeout(e)
    PROVE  ConnectionInv'
<1> DEFINE c == agent[e]
           h == handed[e]
<1>0. /\ Quiet(c) /\ h \in Nat /\ left \in [Ends -> Seq(Message)] /\ c \in ControlBlock
      /\ World(e, c, h, Peer(e), agent[Peer(e)], handed[Peer(e)])
      /\ handed = [handed EXCEPT ![e] = h]
  BY InvAt
<1>1. c.rtx /\ left' = left /\ handed' = handed
  BY DEF timeout, TimerRuns
<1>2. PICK win \in Windows : Done(e, send_much([c EXCEPT !.t_seqno = Unacked(c)], TRUE, win), {})
  BY DEF timeout
<1>3. win \in Nat
  BY WindowsAre
<1> HIDE DEF c, h
<1>4. Settled(e, c, h, Peer(e), agent[Peer(e)], handed[Peer(e)],
              send_much([c EXCEPT !.t_seqno = Unacked(c)], TRUE, win), h)
  BY <1>0, <1>1, <1>3, TimeoutKeeps
<1> QED BY <1>0, <1>1, <1>2, <1>4, DoneKeeps DEF c, h

\* A packet arrives; any part of what is sent in answer may be lost.
LEMMA RecvStep ==
    ASSUME ConnectionInv, NEW e \in Ends, NEW m \in Arriving(e), recv(e, m)
    PROVE  ConnectionInv'
<1> DEFINE c == agent[e]
           h == handed[e]
           p == m.pkt
           f == Peer(e)
           d == agent[f]
           g == handed[f]
           r == Received(c, p)
<1>0. /\ Quiet(c) /\ h \in Nat /\ left \in [Ends -> Seq(Message)] /\ c \in ControlBlock
      /\ World(e, c, h, f, d, g)
      /\ handed = [handed EXCEPT ![e] = h]
  BY InvAt
<1>1. m \in DOMAIN net /\ m.to = e
  BY DEF Arriving, BagToSet
<1>2. Heard(p, f, d, g)
  BY <1>1 DEF ConnectionInv
<1>3. left' = left /\ handed' = handed
  BY DEF recv
<1>4. PICK win \in Windows : Done(e, Finish(r, win), {m})
  BY DEF recv
<1>5. win \in Nat /\ win >= maxseg_
  BY WindowsAre
<1> HIDE DEF c, h, p, f, d, g
<1>6. Result(e, c, h, f, d, g, r) \/ Answer(e, c, h, f, d, g, r)
  BY <1>0, <1>2, ReceivedKeeps
<1> HIDE DEF r
<1>7. Settled(e, c, h, f, d, g, Finish(r, win), h)
  BY <1>0, <1>5, <1>6, FinishKeeps, FinishAnswers
<1> QED BY <1>0, <1>3, <1>4, <1>7, DoneKeeps DEF c, h, f, d, g

\* B listens, A is closed, and nothing is in flight.
LEMMA InitConnection ==
    ASSUME Init
    PROVE  ConnectionInv
<1>1. /\ left \in Messages /\ losses = 0 /\ net = EmptyBag
      /\ handed = [e \in Ends |-> 0]
      /\ agent = [e \in Ends |-> Fresh(IF e = "A" THEN "CLOSED" ELSE "LISTEN", 0)]
  BY DEF Init
<1>2. ASSUME NEW e \in Ends
      PROVE  /\ agent[e] \in ControlBlock /\ Idle(agent[e]) /\ agent[e].delivered = 0
             /\ agent[e].out = <<>> /\ agent[e].maxseq = -1 /\ handed[e] = 0
             /\ agent[e].state = IF e = "A" THEN "CLOSED" ELSE "LISTEN"
  <2> DEFINE s == IF e = "A" THEN "CLOSED" ELSE "LISTEN"
  <2>1. s \in States /\ 0 \in Nat
    BY DEF States
  <2>2. agent[e] = Fresh(s, 0) /\ handed[e] = 0
    BY <1>1, <1>2
  <2> HIDE DEF s
  <2>3. /\ Fresh(s, 0) \in ControlBlock /\ Idle(Fresh(s, 0)) /\ Fresh(s, 0).state = s
        /\ Fresh(s, 0).delivered = 0 /\ Fresh(s, 0).out = <<>> /\ Fresh(s, 0).maxseq = -1
    BY <2>1, FreshIs, Zenon
  <2> QED BY <2>2, <2>3 DEF s
<1>3. ASSUME NEW e \in Ends
      PROVE  /\ BlockOK(e, agent[e], handed[e]) /\ agent[e].rq.nxt = -1
             /\ agent[e].highest_ack = -1 /\ agent[e].delivered = 0
             /\ ~WasReset(e, agent[e], handed[e]) /\ ~SeesFin(e, agent[e], handed[e])
             /\ ~Passive(e, agent[e], handed[e])
  <2> DEFINE c == agent[e]
             h == handed[e]
  <2>1. /\ c \in ControlBlock /\ Idle(c) /\ c.delivered = 0 /\ c.maxseq = -1 /\ h = 0
        /\ c.state = IF e = "A" THEN "CLOSED" ELSE "LISTEN"
    BY <1>2, <1>3
  <2> HIDE DEF c, h
  <2>2. c.state = "CLOSED" => ~Opened(e, h)
    BY <2>1 DEF Opened
  <2>3. BlockOK(e, c, h)
    BY <2>1 DEF BlockOK, Shape, OutOK
  <2>4. ~WasReset(e, c, h) /\ ~SeesFin(e, c, h) /\ ~Passive(e, c, h)
    BY <2>1, <2>2 DEF WasReset, SeesFin, Passive
  <2> QED BY <2>1, <2>3, <2>4 DEF Idle, c, h
<1>4. ASSUME NEW e \in Ends
      PROVE  Linked(e, agent[e], handed[e], Peer(e), agent[Peer(e)], handed[Peer(e)])
  <2> DEFINE f == Peer(e)
             c == agent[e]
             h == handed[e]
             d == agent[f]
             g == handed[f]
  <2>1. /\ d.rq.nxt = -1 /\ c.highest_ack = -1 /\ d.delivered = 0
        /\ ~WasReset(e, c, h) /\ ~SeesFin(f, d, g) /\ ~Passive(e, c, h)
    BY <1>3, <1>4, Peers
  <2> HIDE DEF c, d, f, g, h
  <2>2. Linked(e, c, h, f, d, g)
    BY <2>1 DEF Linked, Numbers, Stream, Endings
  <2> QED BY <2>2 DEF c, d, f, g, h
<1>5. ASSUME NEW e \in Ends
      PROVE  /\ Quiet(agent[e])
             /\ World(e, agent[e], handed[e], Peer(e), agent[Peer(e)], handed[Peer(e)])
  <2>1. /\ BlockOK(Peer(e), agent[Peer(e)], handed[Peer(e)])
        /\ Linked(Peer(e), agent[Peer(e)], handed[Peer(e)], e, agent[e], handed[e])
    BY <1>3, <1>4, <1>5, Peers
  <2>2. Quiet(agent[e])
    BY <1>2, <1>5 DEF Quiet
  <2> QED BY <1>3, <1>4, <1>5, <2>1, <2>2 DEF World
<1>6. agent \in [Ends -> ControlBlock] /\ handed \in [Ends -> Nat]
  BY <1>1, <1>2
<1>7. left \in [Ends -> Seq(Message)] /\ losses \in 0 .. MaxLoss
  BY <1>1, ConnectionAssumption DEF Message
<1>8. DOMAIN net = {}
  BY <1>1 DEF EmptyBag, SetToBag
<1> QED BY <1>5, <1>6, <1>7, <1>8 DEF ConnectionInv

\* The control blocks of two FullTcpAgents and the packets between them always fit
\* together, whatever is lost, reordered or sent again.
THEOREM ConnectionCorrect == Spec => []ConnectionInv
<1>1. Init => ConnectionInv
  BY InitConnection
<1>2. ConnectionInv /\ [Next]_vars => ConnectionInv'
  <2> SUFFICES ASSUME ConnectionInv, [Next]_vars PROVE ConnectionInv'
    OBVIOUS
  <2>1. CASE Next
    <3>1. PICK e \in Ends : sendmsg(e) \/ Close(e) \/ timeout(e) \/ Recv(e)
      BY <2>1 DEF Next
    <3>2. CASE sendmsg(e)
      BY <3>2, SendmsgStep
    <3>3. CASE Close(e)
      BY <3>3, CloseStep
    <3>4. CASE timeout(e)
      BY <3>4, TimeoutStep
    <3>5. CASE Recv(e)
      BY <3>5, RecvStep DEF Recv
    <3> QED BY <3>1, <3>2, <3>3, <3>4, <3>5
  <2>2. CASE UNCHANGED vars
    BY <2>2 DEF vars, ConnectionInv
  <2> QED BY <2>1, <2>2
<1> QED BY <1>1, <1>2, PTL DEF Spec

\* The properties' name for an end that has seen the FIN.
LEMMA SawFinIs ==
    ASSUME NEW e \in Ends
    PROVE  SawFin(e) <=> SeesFin(e, agent[e], handed[e])
  BY DEF SawFin, SeesFin, Opened

\* No agent delivers more than its peer's application has handed over.
LEMMA DeliveredOfHanded ==
    ASSUME NEW e, NEW c, NEW h, NEW f, NEW d, NEW g, World(e, c, h, f, d, g)
    PROVE  d.delivered \in 0 .. h
<1>0. /\ c \in ControlBlock /\ h \in Nat /\ d \in ControlBlock /\ Shape(c, h)
      /\ Stream(e, c, h, f, d, g) /\ Numbers(e, c, h, f, d, g)
  BY DEF World, BlockOK, Linked
<1>1. /\ d.delivered \in Nat /\ d.rq.nxt \in Int /\ c.maxseq \in Int /\ Top(c, h) \in Int
  BY <1>0, BlockTypes
<1>2. CASE SeesFin(f, d, g)
  BY <1>0, <1>1, <1>2 DEF Stream
<1>3. CASE ~SeesFin(f, d, g) /\ ~(d.rq.nxt >= 1)
  BY <1>0, <1>1, <1>3 DEF Stream
<1>4. CASE ~SeesFin(f, d, g) /\ d.rq.nxt >= 1
  <2>1. d.delivered = d.rq.nxt - 1
    BY <1>0, <1>4 DEF Stream
  <2>2. d.rq.nxt <= Top(c, h)
    BY <1>0, <1>4 DEF Stream, Waiting
  <2>3. Top(c, h) <= h + 1
    <3>1. CASE c.state \in FinStates
      BY <1>0, <3>1 DEF Top
    <3>2. CASE c.state \notin FinStates
      <4>1. Top(c, h) = c.maxseq
        BY <3>2 DEF Top
      <4>2. c.maxseq <= h + 1
        <5>1. CASE Idle(c)
          BY <1>0, <1>1, <5>1 DEF Idle
        <5>2. CASE c.maxseq = 1
          BY <1>0, <5>2
        <5>3. CASE Open(c, h)
          BY <5>3 DEF Open
        <5> QED BY <1>0, <3>2, <5>1, <5>2, <5>3 DEF Shape, FinStates
      <4> QED BY <4>1, <4>2
    <3> QED BY <3>1, <3>2
  <2> QED BY <1>0, <1>1, <2>1, <2>2, <2>3
<1> QED BY <1>2, <1>3, <1>4

\* Neither FullTcpAgent has a highest_ack_ above what the other has received, nor
\* a rcv_nxt_ above what the other has sent, although foutput counts SYN and FIN
\* and timeout_action goes back to highest_ack_.
THEOREM EndsSynchronized == Spec => []Synchronized
<1>1. ConnectionInv => Synchronized
  <2> SUFFICES ASSUME ConnectionInv PROVE Synchronized
    OBVIOUS
  <2>1. TypeOK
    <3>1. ASSUME NEW e \in Ends
          PROVE  /\ agent[e].state \in States /\ agent[e].rq \in QueueType
                 /\ agent[e].delivered \in 0 .. handed[Peer(e)]
      <4>1. World(Peer(e), agent[Peer(e)], handed[Peer(e)], e, agent[e], handed[e])
        BY Peers, InvAt
      <4>2. agent[e].delivered \in 0 .. handed[Peer(e)]
        BY <4>1, DeliveredOfHanded
      <4>3. agent[e] \in ControlBlock /\ handed[e] \in Nat
        BY InvAt
      <4> QED BY <4>2, <4>3, BlockTypes
    <3> QED BY <3>1 DEF TypeOK, ConnectionInv
  <2>2. ASSUME NEW e \in Ends, agent[e].maxseq > 0, agent[Peer(e)].rq.nxt > 0
        PROVE  /\ agent[e].highest_ack <= agent[Peer(e)].rq.nxt
               /\ agent[Peer(e)].rq.nxt <= agent[e].maxseq
    <3>1. World(e, agent[e], handed[e], Peer(e), agent[Peer(e)], handed[Peer(e)])
      BY InvAt
    <3>2. agent[e] \in ControlBlock /\ agent[Peer(e)] \in ControlBlock /\ 0 \in Nat
      BY Peers, InvAt
    <3>3. agent[e].maxseq \in Int /\ agent[Peer(e)].rq.nxt \in Int
      BY <3>2, BlockTypes
    <3>4. agent[e].maxseq >= 1 /\ agent[Peer(e)].rq.nxt >= 1
      BY <2>2, <3>3
    <3> QED BY <3>1, <3>4, PeerHas
  <2> QED BY <2>1, <2>2 DEF Synchronized
<1> QED BY <1>1, ConnectionCorrect, PTL

\* An agent whose recv has processed the FIN has delivered everything that its
\* peer's application handed over, whether MSG_EOF, usrclosed or the passive
\* close at the end of recv sent that FIN.
THEOREM NothingIsLost == Spec => []NothingLost
<1>1. ConnectionInv => NothingLost
  <2> SUFFICES ASSUME ConnectionInv, NEW e \in Ends, SawFin(e)
               PROVE  agent[e].delivered = handed[Peer(e)]
    BY DEF NothingLost
  <2>1. SeesFin(e, agent[e], handed[e])
    BY SawFinIs
  <2>2. World(Peer(e), agent[Peer(e)], handed[Peer(e)], e, agent[e], handed[e])
    BY Peers, InvAt
  <2> QED BY <2>1, <2>2 DEF World, Linked, Stream
<1> QED BY <1>1, ConnectionCorrect, PTL

\* An agent whose FIN went out enters FIN_WAIT_2 only when its peer has processed
\* it: no ACK of data is taken for its ACK (tcp-full.cc:2470).
THEOREM FinWasSeen == Spec => []FinIsSeen
<1>1. ConnectionInv => FinIsSeen
  <2> SUFFICES ASSUME ConnectionInv, NEW e \in Ends, agent[e].state = "FIN_WAIT_2",
                      FinWentOut(e)
               PROVE  SawFin(Peer(e))
    BY DEF FinIsSeen
  <2> DEFINE c == agent[e]
             h == handed[e]
             f == Peer(e)
             d == agent[f]
             g == handed[f]
  <2>1. World(e, c, h, f, d, g) /\ f \in Ends
    BY Peers, InvAt
  <2>2. c \in ControlBlock /\ h \in Nat /\ d \in ControlBlock /\ Shape(c, h)
    BY <2>1 DEF World, BlockOK
  <2> HIDE DEF c, h, f, d, g
  <2>3. c.highest_ack = h + 2 /\ c.maxseq = h + 2 /\ c.state = "FIN_WAIT_2"
    <3>1. c.state = "FIN_WAIT_2" /\ c.maxseq = c.curseq + 2
      BY DEF FinWentOut, c
    <3> QED BY <2>2, <3>1 DEF Shape, Over
  <2>4. d.rq.nxt \in Int /\ c.highest_ack >= 1 /\ c.maxseq >= 1
    BY <2>2, <2>3, BlockTypes
  <2>5. SeesFin(f, d, g)
    <3>1. CASE WasReset(f, d, g)
      BY <3>1 DEF WasReset, SeesFin
    <3>2. CASE ~WasReset(f, d, g)
      <4>1. d.rq.nxt >= 1
        BY <2>1, <2>4, <3>2 DEF World, Linked, Numbers
      <4>2. /\ c.highest_ack <= d.rq.nxt
            /\ ~SeesFin(f, d, g) => d.rq.nxt <= Top(c, h)
        BY <2>1, <2>4, <4>1, PeerHas
      <4>3. Top(c, h) = h + 1
        BY <2>3 DEF Top, FinStates
      <4> QED BY <2>2, <2>3, <2>4, <4>2, <4>3
    <3> QED BY <3>1, <3>2
  <2> QED BY <2>1, <2>5, SawFinIs DEF f, d, g
<1> QED BY <1>1, ConnectionCorrect, PTL

-----------------------------------------------------------------------------
(* The receiving half by itself: module Reassembly, for a stream of any length, *)
(* cut into segments that arrive in any order, any number of times             *)

\* Until the FIN has been seen, the blocks lie behind the gap at rcv_nxt_ and
\* only one that ends behind the last byte has a FIN.
StreamOpen ==
    ~finrcvd => /\ Waiting(rq_, Last + 1)
                /\ FinAt(rq_.blocks, Last + 1)
                /\ HasFin(rq_.blocks) => gotfin

\* The inductive invariant.
StreamInv == QueueHoldsRest /\ DeliversPrefix /\ FinIsLast /\ StreamOpen

\* The invariant gives what the lemmas on queues need.
LEMMA StreamGood ==
    ASSUME QueueHoldsRest
    PROVE  /\ rq_.blocks \subseteq Block
           /\ Good(rq_.blocks, Last + 1)
  BY LastAssumption DEF QueueHoldsRest, StreamTypeOK, Good

\* Nothing has arrived yet.
LEMMA StreamInitInv == StreamInit => StreamInv
<1> SUFFICES ASSUME StreamInit PROVE StreamInv
  OBVIOUS
<1>0. rq_.blocks = {} /\ rq_.total = 0 /\ rq_.nxt = 1 /\ finrcvd = FALSE /\ got = {} /\ gotfin = FALSE
  BY DEF StreamInit
<1>1. rq_ \in QueueType
  BY DEF StreamInit, QueueType
<1>2. BytesOf({}) = {} /\ Cardinality({}) = 0
  BY FS_EmptySet DEF BytesOf
<1>3. InOrder = 1
  BY <1>0 DEF InOrder
<1>4. StreamTypeOK
  <2>1. 0 \in 0 .. Last /\ 1 \in 1 .. (Last + 2)
    BY LastAssumption
  <2> QED BY <1>0, <2>1 DEF StreamTypeOK
<1>5. QueueHoldsRest /\ DeliversPrefix
  BY <1>0, <1>2, <1>3, <1>4 DEF QueueHoldsRest, DeliversPrefix, Separated
<1>6. FinIsLast /\ StreamOpen
  BY <1>0, <1>1, LastAssumption DEF FinIsLast, StreamOpen, Waiting, Good, Separated, FinAt, HasFin
<1> QED BY <1>5, <1>6 DEF StreamInv

\* A segment after the FIN changes nothing but the history.
LEMMA SegmentAfterFin ==
    ASSUME StreamInv, finrcvd, NEW start \in 1 .. (Last + 1), NEW end \in 1 .. (Last + 1),
           NEW fin \in BOOLEAN, RecvSegment(start, end, fin)
    PROVE  StreamInv'
<1>1. rq_' = rq_ /\ finrcvd' = finrcvd
  BY DEF RecvSegment
<1>2. got' = got \cup (start .. (end - 1)) /\ gotfin' = (gotfin \/ fin)
  BY DEF RecvSegment
<1>3. InOrder = Last + 1 /\ InOrder' = InOrder /\ gotfin
  BY <1>1 DEF StreamInv, FinIsLast, InOrder
<1>4. StreamTypeOK /\ 1 .. Last \subseteq got /\ got \subseteq 1 .. Last /\ start .. (end - 1) \subseteq 1 .. Last
  BY <1>3, LastAssumption DEF StreamInv, QueueHoldsRest, DeliversPrefix, StreamTypeOK
<1>5. got' = got
  BY <1>2, <1>4
<1>6. StreamTypeOK'
  BY <1>1, <1>2, <1>3, <1>4, <1>5 DEF StreamTypeOK
<1>7. QueueHoldsRest' /\ DeliversPrefix'
  BY <1>1, <1>3, <1>5, <1>6 DEF StreamInv, QueueHoldsRest, DeliversPrefix
<1>8. FinIsLast' /\ StreamOpen'
  BY <1>1, <1>2, <1>3 DEF FinIsLast, StreamOpen
<1> QED BY <1>7, <1>8 DEF StreamInv

\* A segment before the FIN has been seen.
LEMMA SegmentBeforeFin ==
    ASSUME StreamInv, ~finrcvd, NEW start \in 1 .. (Last + 1), NEW end \in 1 .. (Last + 1),
           NEW fin \in BOOLEAN, start < end \/ (start = end /\ fin), fin => end = Last + 1,
           RecvSegment(start, end, fin)
    PROVE  StreamInv'
<1> DEFINE n == Last + 1
           res == Accept(rq_, start, end, fin)
           B == rq_.blocks
           C == res.rq.blocks
           nxt == rq_.nxt
           nxt2 == res.rq.nxt
<1>0. n \in Nat /\ start \in Nat /\ end \in Nat /\ start >= 1 /\ end <= n
  BY LastAssumption
<1>1. /\ rq_' = [res.rq EXCEPT !.nxt = IF res.flags THEN @ + 1 ELSE @]
      /\ finrcvd' = res.flags
      /\ got' = got \cup (start .. (end - 1)) /\ gotfin' = (gotfin \/ fin)
  BY DEF RecvSegment
<1>2. Waiting(rq_, n) /\ FinAt(B, n) /\ (HasFin(B) => gotfin)
  BY DEF StreamInv, StreamOpen
<1>3. Accepts(rq_, res, start, end, fin, n)
  <2>1. start < end \/ (start = end /\ end = n)
    OBVIOUS
  <2> HIDE DEF n
  <2>2. fin => end = n
    BY DEF n
  <2> QED BY <2>1, <2>2, <1>0, <1>2, AcceptAccepts
<1> HIDE DEF res, n
<1>4. /\ Waiting(res.rq, n) /\ res.flags \in BOOLEAN /\ nxt <= nxt2
      /\ BytesOf(C) \cup (nxt .. (nxt2 - 1)) =
            BytesOf(B) \cup {x \in start .. (end - 1) : x >= nxt}
      /\ Counted(rq_) => Counted(res.rq)
      /\ FinAt(C, n) /\ (res.flags => nxt2 = n)
      /\ HasFin(C) \/ res.flags => gotfin \/ fin
  BY <1>2, <1>3 DEF Accepts
<1>5. /\ StreamTypeOK /\ nxt \in Nat /\ nxt >= 1
      /\ 1 .. (nxt - 1) \subseteq got /\ nxt \notin got
      /\ BytesOf(B) = got \ (1 .. (nxt - 1))
      /\ got \subseteq 1 .. Last /\ Counted(rq_) /\ gotfin \in BOOLEAN
  BY DEF StreamInv, QueueHoldsRest, DeliversPrefix, InOrder, StreamTypeOK, Counted
<1>6. /\ res.rq \in QueueType /\ Good(C, n) /\ nxt2 \in Nat /\ nxt2 <= n
      /\ \A c \in C : nxt2 < c.s
      /\ C \subseteq Block
      /\ \A c \in C : c.s \in Nat /\ c.e \in Nat /\ c.s <= c.e /\ c.e <= n
  BY <1>4 DEF Waiting, Good, Block
<1>7. /\ rq_'.blocks = C /\ rq_'.total = res.rq.total
      /\ rq_'.nxt = IF res.flags THEN nxt2 + 1 ELSE nxt2
  <2>1. res.rq \in [blocks : SUBSET Block, total : Int, nxt : Int]
    BY <1>6 DEF QueueType
  <2> QED BY <1>1, <2>1
<1>8. InOrder' = nxt2
  BY <1>1, <1>4, <1>6, <1>7 DEF InOrder
<1>9. \A x \in BytesOf(C) : x \in Nat /\ nxt2 < x /\ x < n
  <2> SUFFICES ASSUME NEW x \in BytesOf(C) PROVE x \in Nat /\ nxt2 < x /\ x < n
    OBVIOUS
  <2>1. x \in Nat /\ \E c \in C : c.s <= x /\ x < c.e
    BY <1>6, InBytes
  <2> QED BY <2>1, <1>0, <1>6
<1> HIDE DEF C, B, nxt, nxt2
\* The bytes that have arrived are those in order and those in the queue.
<1>10. \A x \in Nat : x >= 1 => (x \in got' <=> x < nxt2 \/ x \in BytesOf(C))
  <2> SUFFICES ASSUME NEW x \in Nat, x >= 1 PROVE x \in got' <=> x < nxt2 \/ x \in BytesOf(C)
    OBVIOUS
  <2>1. x \in got' <=> x \in got \/ x \in start .. (end - 1)
    BY <1>1
  <2>2. CASE x < nxt
    BY <2>1, <2>2, <1>4, <1>5, <1>6
  <2>3. CASE x >= nxt
    <3>1. x \in got' <=> x \in BytesOf(B) \cup {y \in start .. (end - 1) : y >= nxt}
      BY <2>1, <2>3, <1>5
    <3>2. x \in got' <=> x \in BytesOf(C) \/ x \in nxt .. (nxt2 - 1)
      BY <3>1, <1>4
    <3>3. x \in nxt .. (nxt2 - 1) <=> x < nxt2
      BY <2>3, <1>5, <1>6
    <3> QED BY <3>2, <3>3
  <2> QED BY <2>2, <2>3, <1>5
<1>11. got' \subseteq 1 .. Last
  BY <1>0, <1>1, <1>5, LastAssumption DEF n
<1>12. DeliversPrefix'
  <2>1. nxt2 \notin got'
    BY <1>4, <1>5, <1>6, <1>9, <1>10
  <2>2. 1 .. (nxt2 - 1) \subseteq got'
    BY <1>6, <1>10
  <2> QED BY <2>1, <2>2, <1>8 DEF DeliversPrefix
<1>13. BytesOf(C) = got' \ (1 .. (nxt2 - 1))
  <2>1. ASSUME NEW x \in BytesOf(C) PROVE x \in got' /\ x \notin 1 .. (nxt2 - 1)
    <3>1. x \in Nat /\ nxt2 < x /\ x >= 1
      BY <1>6, <1>9
    <3> QED BY <3>1, <1>6, <1>10
  <2>2. ASSUME NEW x \in got', x \notin 1 .. (nxt2 - 1) PROVE x \in BytesOf(C)
    <3>1. x \in Nat /\ x >= 1
      BY <1>11, LastAssumption
    <3> QED BY <2>2, <3>1, <1>6, <1>10
  <2> QED BY <2>1, <2>2
<1>14. Counted(res.rq) /\ Cardinality(BytesOf(C)) \in 0 .. Last
  <2>1. Counted(res.rq)
    BY <1>4, <1>5
  <2>2. BytesOf(C) \subseteq 1 .. Last
    BY <1>11, <1>13
  <2>3. IsFiniteSet(1 .. Last) /\ Cardinality(1 .. Last) = Last
    <3>1. 1 \in Int /\ Last \in Int /\ (IF 1 > Last THEN 0 ELSE Last - 1 + 1) = Last
      BY LastAssumption
    <3> QED BY <3>1, FS_Interval
  <2>4. Cardinality(BytesOf(C)) <= Last
    BY <2>2, <2>3, FS_Subset
  <2>5. Cardinality(BytesOf(C)) \in Nat
    BY <2>2, <2>3, FS_Subset, FS_CardinalityType
  <2> QED BY <2>1, <2>4, <2>5, LastAssumption
<1>15. StreamTypeOK'
  <2>1. \A c \in C : 1 <= c.s /\ c.s <= c.e /\ c.e <= Last + 1
    BY <1>4, <1>5, <1>6 DEF n
  <2>2. rq_'.total \in 0 .. Last
    BY <1>7, <1>14 DEF Counted, C
  <2>3. rq_'.nxt \in 1 .. (Last + 2)
    BY <1>4, <1>5, <1>6, <1>7, LastAssumption DEF n
  <2>4. finrcvd' \in BOOLEAN /\ gotfin' \in BOOLEAN
    BY <1>1, <1>4
  <2> QED BY <2>1, <2>2, <2>3, <2>4, <1>6, <1>7, <1>11 DEF StreamTypeOK
<1>16. QueueHoldsRest'
  BY <1>6, <1>7, <1>8, <1>13, <1>14, <1>15 DEF QueueHoldsRest, Counted, Good, C
<1>17. FinIsLast'
  BY <1>1, <1>4, <1>8 DEF FinIsLast, n
<1>18. StreamOpen'
  <2> SUFFICES ASSUME ~finrcvd'
               PROVE  (Waiting(rq_, Last + 1) /\ FinAt(rq_.blocks, Last + 1)
                         /\ (HasFin(rq_.blocks) => gotfin))'
    BY DEF StreamOpen
  <2>1. rq_' = res.rq
    <3>1. rq_' = [res.rq EXCEPT !.nxt = res.rq.nxt]
      BY <1>1
    <3> QED BY <3>1, <1>6 DEF QueueType
  <2>2. HasFin(C) => gotfin'
    BY <1>1, <1>4
  <2> QED BY <2>1, <2>2, <1>4 DEF n, C
<1> QED BY <1>12, <1>16, <1>17, <1>18 DEF StreamInv

\* Every segment keeps the invariant.
LEMMA StreamNextInv == StreamInv /\ [StreamNext]_streamVars => StreamInv'
<1> SUFFICES ASSUME StreamInv, [StreamNext]_streamVars PROVE StreamInv'
  OBVIOUS
<1>1. CASE StreamNext
  <2>1. PICK start \in 1 .. (Last + 1), end \in 1 .. (Last + 1), fin \in BOOLEAN :
           /\ start < end \/ (start = end /\ fin)
           /\ fin => end = Last + 1
           /\ RecvSegment(start, end, fin)
    BY <1>1 DEF StreamNext
  <2> QED BY <2>1, SegmentAfterFin, SegmentBeforeFin
<1>2. CASE UNCHANGED streamVars
  BY <1>2 DEF streamVars, StreamInv, QueueHoldsRest, StreamTypeOK, DeliversPrefix,
              FinIsLast, StreamOpen, InOrder, Waiting
<1> QED BY <1>1, <1>2

\* StreamInv is an invariant.
THEOREM ReassemblyInvariant == StreamSpec => []StreamInv
  BY StreamInitInv, StreamNextInv, PTL DEF StreamSpec

\* rcv_nxt_ names the first byte that has not arrived, whatever the order in
\* which FullTcpAgent::recv gets the segments, and however they overlap.
THEOREM PrefixDelivered == StreamSpec => []DeliversPrefix
<1>1. StreamInv => DeliversPrefix
  BY DEF StreamInv
<1> QED BY <1>1, ReassemblyInvariant, PTL

\* rq_ holds exactly the bytes that arrived out of order, in maximal blocks,
\* and total_ counts them.
THEOREM RestIsQueued == StreamSpec => []QueueHoldsRest
<1>1. StreamInv => QueueHoldsRest
  BY DEF StreamInv
<1> QED BY <1>1, ReassemblyInvariant, PTL

\* The connection sees the FIN only after all the data, though add() drops the
\* flags of a block that it joins on the right.
THEOREM FinComesLast == StreamSpec => []FinIsLast
<1>1. StreamInv => FinIsLast
  BY DEF StreamInv
<1> QED BY <1>1, ReassemblyInvariant, PTL

\* nexthole() finds the first byte missing in rq_ at or above any sequence
\* number, and counts the bytes above it.
THEOREM HolesFound == StreamSpec => []HolesAreFound
<1>1. StreamInv => HolesAreFound
  <2> SUFFICES ASSUME StreamInv, NEW seq \in 1 .. (Last + 1)
               PROVE  LET have  == BytesOf(rq_.blocks)
                          hole  == nexthole(rq_, seq)
                          above == {x \in have : x > hole.seq}
                      IN IF hole.seq = -1 THEN have \cap (seq .. Last) = {}
                         ELSE /\ hole.seq >= seq
                              /\ hole.seq \notin have
                              /\ seq .. (hole.seq - 1) \subseteq have
                              /\ IF above = {} THEN hole.bytes <= 0
                                 ELSE hole.bytes = Cardinality(above)
    BY DEF HolesAreFound
  <2> DEFINE hole == nexthole(rq_, seq)
  <2>1. QueueHoldsRest
    BY DEF StreamInv
  <2>2. Last + 1 \in Nat /\ seq \in Nat /\ Good(rq_.blocks, Last + 1)
    BY <2>1, StreamGood, LastAssumption
  <2>3. Hole(rq_, hole, seq)
    BY <2>2, NextholeFinds
  <2>4. BytesOf(rq_.blocks) \subseteq Nat
    BY <2>2, InBytes DEF Good
  <2> HIDE DEF hole
  <2> QED BY <2>2, <2>3, <2>4, LastAssumption DEF Hole, hole
<1> QED BY <1>1, ReassemblyInvariant, PTL
=============================================================================
