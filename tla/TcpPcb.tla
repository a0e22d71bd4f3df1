------------------------------- MODULE TcpPcb -------------------------------
(***************************************************************************)
(* What the TCP code does to one protocol control block: tcp_enqueue and   *)
(* tcp_output (core/tcp_out.c), tcp_process and tcp_receive                *)
(* (core/tcp_in.c), timers and removal (core/tcp.c), as operators from one *)
(* pcb record to the next.                                                 *)
(*                                                                         *)
(* The scale: mss is 2, and the application writes whole segments, so that *)
(* windows and ssthresh can be halved but no segment is cut or joined      *)
(* (module TcpOoseq is about that).  SYN and FIN take 1.  Sequence numbers *)
(* start at 0 with the SYN.  Time is left out: whether a timer has run out *)
(* is the caller's choice, so the round-trip estimate does not appear.     *)
(*                                                                         *)
(* "sent", "data" and "events" are not fields of struct tcp_pcb.  They     *)
(* gather what one call hands to ip_output and to the application, and are *)
(* empty between calls.                                                    *)
(***************************************************************************)
EXTENDS Integers, Sequences, FiniteSets, SequencesExt

CONSTANTS TCP_WND, TCP_SND_BUF, TCP_SND_QUEUELEN, TCP_MAXRTX, TCP_SYNMAXRTX

ASSUME TcpAssumption ==
    /\ TCP_WND \in Nat \ {0} /\ TCP_SND_BUF \in Nat \ {0}
    /\ TCP_SND_QUEUELEN \in Nat \ {0}
    /\ TCP_MAXRTX \in Nat \ {0} /\ TCP_SYNMAXRTX \in Nat \ {0}

mss == 2
U16(n) == n % 65536
AtMost(n, bound) == IF n > bound THEN bound ELSE n
AtLeast(n, bound) == IF n < bound THEN bound ELSE n

(* A cwnd or ssthresh above both the window and two segments acts like     *)
(* this one. *)
EnoughWnd == AtLeast(TCP_WND, 2 * mss)
Window(n) == AtMost(n, EnoughWnd)

(* The one member of a set: The({Op(x) : x \in {e}}) is Op(e), with e     *)
(* worked out once. *)
The(S) == CHOOSE x \in S : TRUE

(* How many there are at the front of a queue before the first that is not *)
(* at one of the places. *)
FrontLen(queue, places) ==
    CHOOSE n \in 0 .. Len(queue) : 1 .. n \subseteq places /\ n + 1 \notin places
Behind(queue, n) == SubSeq(queue, n + 1, Len(queue))

States == {"CLOSED", "SYN_SENT", "SYN_RCVD", "ESTABLISHED", "FIN_WAIT_1",
           "FIN_WAIT_2", "CLOSE_WAIT", "CLOSING", "LAST_ACK", "TIME_WAIT"}

(* A freed pcb, or one that was never allocated. *)
NoPcb == [state |-> "CLOSED", unsent |-> <<>>, unacked |-> <<>>, ooseq |-> {},
          snd_nxt |-> 0, snd_max |-> 0, snd_lbb |-> 0, lastack |-> 0,
          snd_wnd |-> 0, snd_wl1 |-> 0, snd_wl2 |-> 0, snd_buf |-> 0,
          cwnd |-> 0, ssthresh |-> 0, dupacks |-> 0, nrtx |-> 0,
          rcv_nxt |-> 0, rcv_wnd |-> 0, flags |-> {},
          sent |-> {}, data |-> <<>>, events |-> {}]

(* tcp_alloc: cwnd is one byte until the connection is set up. *)
tcp_alloc == [NoPcb EXCEPT !.snd_buf = TCP_SND_BUF, !.rcv_wnd = TCP_WND,
                           !.cwnd = 1]

----------------------------------------------------------------------------
(* A queued segment is [seqno, flags, data]; ACK, ackno and wnd are filled *)
(* in when it is sent.  One element of data fills a segment. *)
SegLen(s) == mss * Len(s.data)
TCP_TCPLEN(s) == SegLen(s) + (IF s.flags \cap {"SYN", "FIN"} # {} THEN 1 ELSE 0)
After(s) == s.seqno + TCP_TCPLEN(s)

Queued(p) == Len(p.unsent) + Len(p.unacked)

(* tcp_enqueue: one segment of data, or a SYN, or a FIN. *)
CanEnqueue(p, data) == mss * Len(data) <= p.snd_buf /\ Queued(p) < TCP_SND_QUEUELEN

(* A mutant: only the data is taken off snd_buf. *)
EnqueueUncounted(p, flags, data) ==
    LET s == [seqno |-> p.snd_lbb, flags |-> flags, data |-> data] IN
    [p EXCEPT !.unsent  = Append(@, s),
              !.snd_lbb = After(s),
              !.snd_buf = U16(@ - SegLen(s))]

(* A whole segment is not joined to the last one of unsent. *)
PutUnsent(p, s) == [p EXCEPT !.unsent = Append(@, s)]

(* A SYN or FIN counts as a byte. *)
TakesSpace(p, s) == [p EXCEPT !.snd_lbb = After(s), !.snd_buf = U16(@ - TCP_TCPLEN(s))]

tcp_enqueue(p, flags, data) ==
    LET s == [seqno |-> p.snd_lbb, flags |-> flags, data |-> data]
    IN  TakesSpace(PutUnsent(p, s), s)

(* The window test of tcp_output.  The subtraction is unsigned: a segment  *)
(* below lastack never fits. *)
Fits(p, s) == /\ s.seqno >= p.lastack
              /\ s.seqno - p.lastack + SegLen(s) <= AtMost(p.cwnd, p.snd_wnd)

(* A segment sent again goes to the head of unacked, a new one to the end. *)
PutUnacked(queue, s) ==
    IF queue # <<>> /\ s.seqno < Last(queue).seqno THEN <<s>> \o queue
    ELSE Append(queue, s)

EmptyAck(p) == [seqno |-> p.snd_nxt, ackno |-> p.rcv_nxt, wnd |-> p.rcv_wnd,
                flags |-> {"ACK"}, data |-> <<>>]

(* tcp_output_segment, with its silly window avoidance. *)
tcp_output_segment(p, s) ==
    [seqno |-> s.seqno, data |-> s.data,
     ackno |-> p.rcv_nxt,
     wnd   |-> IF p.rcv_wnd < mss THEN 0 ELSE p.rcv_wnd,
     flags |-> s.flags \cup IF p.state = "SYN_SENT" THEN {} ELSE {"ACK"}]

AckFlags == {"ACK_DELAY", "ACK_NOW"}

(* How many segments tcp_output sends: those before the first that does    *)
(* not fit. *)
Sendable(p) == FrontLen(p.unsent, {i \in DOMAIN p.unsent : Fits(p, p.unsent[i])})

SendFirst(p, n) ==
    LET out == SubSeq(p.unsent, 1, n) IN
    [p EXCEPT !.unsent  = Behind(@, n),
              !.unacked = FoldLeft(PutUnacked, @, out),
              !.snd_nxt = After(out[n]),
              !.snd_max = AtLeast(@, After(out[n])),
              !.flags   = IF p.state = "SYN_SENT" THEN @ ELSE @ \ AckFlags,
              !.sent    = @ \cup {tcp_output_segment(p, out[i]) : i \in 1 .. n}]

Output(p) ==
    IF p.unsent # <<>> /\ Fits(p, Head(p.unsent)) THEN SendFirst(p, Sendable(p))
    ELSE IF "ACK_NOW" \in p.flags
    THEN [p EXCEPT !.flags = @ \ AckFlags, !.sent = @ \cup {EmptyAck(p)}]
    ELSE p

tcp_output(p) == The({Output(q) : q \in {p}})

(* tcp_ack and tcp_ack_now end in tcp_output, which does nothing while     *)
(* tcp_input works on the pcb: these are what they do then. *)
AckNow(p) == [p EXCEPT !.flags = @ \cup {"ACK_NOW"}]
Ack(p) ==
    IF "ACK_DELAY" \in p.flags
    THEN [p EXCEPT !.flags = (@ \ {"ACK_DELAY"}) \cup {"ACK_NOW"}]
    ELSE [p EXCEPT !.flags = @ \cup {"ACK_DELAY"}]

(* ... and this is what they do elsewhere. *)
tcp_ack_now(p) == tcp_output(AckNow(p))
tcp_ack(p) == IF "ACK_DELAY" \in p.flags THEN tcp_output(Ack(p)) ELSE Ack(p)

----------------------------------------------------------------------------
(* A mutant: ... behind what has not been sent yet. *)
RequeuedBehind(p, n) ==
    LET again == SubSeq(p.unacked, 1, n) IN
    [p EXCEPT !.unsent  = @ \o again,
              !.unacked = Behind(@, n),
              !.snd_nxt = Head(again).seqno,
              !.nrtx    = AtMost(@ + 1, TCP_MAXRTX + 2)]

(* Retransmission: the first segment, or all, go back to unsent.  nrtx is  *)
(* counted as far as it matters. *)
Requeued(p, n) ==
    LET again == SubSeq(p.unacked, 1, n) IN
    [p EXCEPT !.unsent  = again \o @,
              !.unacked = Behind(@, n),
              !.snd_nxt = Head(again).seqno,
              !.nrtx    = AtMost(@ + 1, TCP_MAXRTX + 2)]

(* tcp_rexmit, which only tcp_receive calls: its tcp_output does nothing. *)
tcp_rexmit(p) == Requeued(p, 1)

tcp_rexmit_rto(p) == tcp_output(Requeued(p, Len(p.unacked)))

(* tcp_receive, the acknowledgement. *)
UpdateWindow(p, s) ==
    IF \/ p.snd_wl1 < s.seqno
       \/ p.snd_wl1 = s.seqno /\ p.snd_wl2 < s.ackno
       \/ p.snd_wl2 = s.ackno /\ s.wnd > p.snd_wnd
    THEN [p EXCEPT !.snd_wnd = s.wnd, !.snd_wl1 = s.seqno, !.snd_wl2 = s.ackno]
    ELSE p

HalfWindow(p) == AtMost(p.cwnd, p.snd_wnd) \div 2

(* dupacks is counted as far as it matters. *)
DupAck(p) ==
    LET q == [p EXCEPT !.dupacks = AtMost(@ + 1, 3)] IN
    IF q.dupacks < 3 \/ q.unacked = <<>> THEN q
    ELSE IF "INFR" \in q.flags THEN [q EXCEPT !.cwnd = Window(@ + mss)]
    ELSE [tcp_rexmit(q) EXCEPT !.ssthresh = HalfWindow(p),
                               !.cwnd     = Window(HalfWindow(p) + 3 * mss),
                               !.flags    = @ \cup {"INFR"}]

(* Slow start and congestion avoidance.  The division is by zero when cwnd *)
(* is; an ARM core then yields zero. *)
Grown(cwnd, ssthresh) ==
    IF cwnd < ssthresh THEN Window(cwnd + mss)
    ELSE IF cwnd = 0 THEN 0
    ELSE Window(cwnd + (mss * mss) \div cwnd)

NewAck(p, ackno) ==
    LET cwnd == IF "INFR" \in p.flags THEN p.ssthresh ELSE p.cwnd IN
    [p EXCEPT !.flags   = @ \ {"INFR"},
              !.cwnd    = Grown(cwnd, p.ssthresh),
              !.nrtx    = 0,
              !.dupacks = 0,
              !.snd_buf = U16(@ + ackno - p.lastack),
              !.lastack = ackno,
              !.unacked = Behind(@, FrontLen(@, {i \in DOMAIN @ : After(@[i]) <= ackno}))]

(* Segments put back for retransmission that the ACK covers after all.     *)
(* snd_nxt follows the head of unsent, but not past its end. *)
DropAckedUnsent(p, ackno) ==
    LET n == FrontLen(p.unsent, {i \in DOMAIN p.unsent :
                                 After(p.unsent[i]) <= ackno /\ ackno <= p.snd_max})
        k == AtMost(n + 1, Len(p.unsent))
    IN  [p EXCEPT !.unsent  = Behind(@, n),
                  !.snd_nxt = IF n > 0 /\ k > 1 THEN p.unsent[k].seqno ELSE @]

ReceiveAck(p, s) ==
    LET Counted(q) ==
            IF s.ackno = q.lastack
            THEN IF q.snd_wl1 + q.snd_wnd = p.snd_wl1 + p.snd_wnd THEN DupAck(q) ELSE q
            ELSE IF q.lastack < s.ackno /\ s.ackno <= q.snd_max THEN NewAck(q, s.ackno)
            ELSE q
        Dropped(q) == DropAckedUnsent(q, s.ackno)
    IN  The({Dropped(q) : q \in {Counted(r) : r \in {UpdateWindow(p, s)}}})

(* tcp_receive, the data.  ooseq holds [seqno, flags, data] with at most   *)
(* the FIN in flags. *)
InWindow(p, seqno) == p.rcv_nxt <= seqno /\ seqno < p.rcv_nxt + p.rcv_wnd

Bare(s) == [seqno |-> s.seqno, flags |-> s.flags \cap {"FIN"}, data |-> s.data]

(* A mutant: the FIN is forgotten. *)
EndOfData(p, s) == s.seqno + SegLen(s)

(* Where the in-sequence data ends once s has arrived. *)
EndOfRun(p, s) ==
    LET ends == {After(s)} \cup {After(o) : o \in p.ooseq}
    IN  CHOOSE e \in ends :
            /\ e >= After(s) /\ \A o \in p.ooseq : o.seqno # e
            /\ \A f \in ends : f >= After(s) /\ f < e => \E o \in p.ooseq : o.seqno = f

InSequence(p, s) ==
    LET end == EndOfRun(p, s)
        run == {Bare(s)} \cup {o \in p.ooseq : o.seqno < end}
        row == SetToSortSeq(run, LAMBDA a, b : a.seqno < b.seqno)
    IN  Ack([p EXCEPT
            !.rcv_nxt = end,
            !.rcv_wnd = AtLeast(@ - (end - p.rcv_nxt), 0),
            !.ooseq   = @ \ run,
            !.data    = FlattenSeq([i \in 1 .. Len(row) |-> row[i].data]),
            !.events  = @ \cup IF \E o \in run : "FIN" \in o.flags THEN {"FIN"} ELSE {}])

OutOfSequence(p, s) ==
    AckNow(IF \E o \in p.ooseq : o.seqno = s.seqno THEN p
           ELSE [p EXCEPT !.ooseq = @ \cup {Bare(s)}])

(* A mutant: what is old is taken as what comes next. *)
ReceiveOld(p, s) ==
    IF TCP_TCPLEN(s) = 0 THEN p
    ELSE IF s.seqno <= p.rcv_nxt THEN InSequence(p, s)
    ELSE OutOfSequence(p, s)

ReceiveData(p, s) ==
    IF ~InWindow(p, s.seqno) THEN AckNow(p)
    ELSE IF TCP_TCPLEN(s) = 0 THEN p
    ELSE IF s.seqno = p.rcv_nxt THEN InSequence(p, s)
    ELSE OutOfSequence(p, s)

tcp_receive(p, s) ==
    The({ReceiveData(q, s) : q \in {IF "ACK" \in s.flags THEN ReceiveAck(p, s) ELSE p}})

----------------------------------------------------------------------------
(* Removal.  purge skips a pcb that is already CLOSED or in TIME_WAIT;     *)
(* what its queues still hold when it is freed is lost to the pools. *)
tcp_pcb_purge(p) ==
    IF p.state \in {"CLOSED", "TIME_WAIT"} THEN p
    ELSE [p EXCEPT !.unsent = <<>>, !.unacked = <<>>, !.ooseq = {}]

Freed(p) ==
    [NoPcb EXCEPT
        !.sent   = p.sent,
        !.events = p.events \cup
                   IF Queued(p) = 0 /\ p.ooseq = {} THEN {} ELSE {"LEAK"}]

(* tcp_pcb_remove and memp_free, outside tcp_input's work on the pcb. *)
tcp_pcb_remove(p) ==
    LET q == tcp_pcb_purge(p) IN
    Freed(IF q.state # "TIME_WAIT" /\ "ACK_DELAY" \in q.flags
          THEN tcp_output(AckNow(q)) ELSE q)

Rst(seqno, ackno) == [seqno |-> seqno, ackno |-> ackno, wnd |-> TCP_WND,
                      flags |-> {"RST", "ACK"}, data |-> <<>>]

(* tcp_abort of an active pcb.  "in_input": from the accept callback. *)
tcp_abort(p, in_input) ==
    [(IF in_input THEN Freed(tcp_pcb_purge(p)) ELSE tcp_pcb_remove(p)) EXCEPT
        !.sent = @ \cup {Rst(p.snd_nxt, p.rcv_nxt)},
        !.events = @ \cup {"ABRT"}]

TimeWait(p) == [tcp_pcb_purge(AckNow(p)) EXCEPT !.state = "TIME_WAIT"]

----------------------------------------------------------------------------
(* A FIN takes an open connection to CLOSE_WAIT, whether or not tcp_receive *)
(* could take it.  A mutant: and it is announced from there. *)
AnnouncedCloseWait(q) == [AckNow(q) EXCEPT !.state = "CLOSE_WAIT", !.events = @ \cup {"FIN"}]
CloseWait(q) == [AckNow(q) EXCEPT !.state = "CLOSE_WAIT"]

(* tcp_process.  "accept" is what the accept callback answers. *)
AcceptableRst(p, s) ==
    IF p.state = "SYN_SENT" THEN s.ackno = p.snd_nxt
    ELSE p.rcv_nxt <= s.seqno /\ s.seqno <= p.rcv_nxt + p.rcv_wnd

InSynSent(p, s) ==
    IF {"SYN", "ACK"} \subseteq s.flags /\ s.ackno = Head(p.unacked).seqno + 1
    THEN Ack([p EXCEPT !.state   = "ESTABLISHED",
                       !.snd_buf = U16(@ + 1),
                       !.rcv_nxt = s.seqno + 1,
                       !.lastack = s.ackno,
                       !.snd_wnd = s.wnd,
                       !.snd_wl1 = s.seqno - 1,
                       !.cwnd    = mss,
                       !.unacked = Tail(@),
                       !.events  = @ \cup {"CONNECTED"}])
    ELSE p

InSynRcvd(p, s, accept) ==
    IF ~("ACK" \in s.flags /\ p.lastack < s.ackno /\ s.ackno <= p.snd_nxt) THEN p
    ELSE IF ~accept
         THEN tcp_abort([p EXCEPT !.state = "ESTABLISHED"], TRUE)
         ELSE [tcp_receive([p EXCEPT !.state = "ESTABLISHED"], s) EXCEPT
                  !.cwnd = mss, !.events = @ \cup {"ACCEPTED"}]

(* The other states: q is the pcb after tcp_receive. *)
Fin(s) == "FIN" \in s.flags
(* A mutant: the FIN is counted twice. *)
AcksMore(q, s) == "ACK" \in s.flags /\ s.ackno = q.snd_nxt + 1

AcksAll(q, s) == "ACK" \in s.flags /\ s.ackno = q.snd_nxt

AfterReceive(q, s) ==
    CASE q.state \in {"ESTABLISHED", "CLOSE_WAIT"} /\ Fin(s) -> CloseWait(q)
      [] q.state = "FIN_WAIT_1" /\ Fin(s) /\ AcksAll(q, s)  -> TimeWait(q)
      [] q.state = "FIN_WAIT_1" /\ Fin(s) /\ ~AcksAll(q, s) ->
            [AckNow(q) EXCEPT !.state = "CLOSING"]
      [] q.state = "FIN_WAIT_1" /\ ~Fin(s) /\ AcksAll(q, s) ->
            [q EXCEPT !.state = "FIN_WAIT_2"]
      [] q.state = "FIN_WAIT_2" /\ Fin(s) -> TimeWait(q)
      [] q.state = "CLOSING" /\ AcksAll(q, s) -> TimeWait(q)
      [] q.state = "LAST_ACK" /\ AcksAll(q, s) ->
            [q EXCEPT !.state = "CLOSED", !.events = @ \cup {"CLOSED"}]
      [] OTHER -> q

tcp_process(p, s, accept) ==
    CASE "RST" \in s.flags -> IF AcceptableRst(p, s)
                              THEN [p EXCEPT !.flags = @ \ {"ACK_DELAY"},
                                             !.events = @ \cup {"RESET"}]
                              ELSE p
      [] "RST" \notin s.flags /\ p.state = "SYN_SENT" -> InSynSent(p, s)
      [] "RST" \notin s.flags /\ p.state = "SYN_RCVD" -> InSynRcvd(p, s, accept)
      [] OTHER -> The({AfterReceive(q, s) : q \in {tcp_receive(p, s)}})

(* A pcb that ends hands over neither recv_data, whose buffer is not freed *)
(* either, nor the end of the stream. *)
Ended(q) ==
    [tcp_pcb_remove(q) EXCEPT !.data   = <<>>,
                              !.events = (@ \ {"FIN"}) \cup (IF q.data # <<>> THEN {"LEAK"} ELSE {})]

(* tcp_input, once the segment has found an active pcb. *)
Concluded(q) ==
    CASE "ABRT" \in q.events -> q
      [] q.events \cap {"RESET", "CLOSED"} # {} -> Ended(q)
      [] OTHER -> tcp_output(q)

InputActive(p, s, accept) == The({Concluded(q) : q \in {tcp_process(p, s, accept)}})

tcp_timewait_input(p, s) ==
    LET q == [p EXCEPT !.rcv_nxt = AtLeast(@, After(s))]
    IN  tcp_output(IF TCP_TCPLEN(s) > 0 THEN AckNow(q) ELSE q)

(* tcp_listen_input, for a SYN.  "room": whether memory is found for the   *)
(* SYN|ACK; the result of tcp_enqueue is not looked at. *)
SynReceived(s, room) ==
    LET p == [tcp_alloc EXCEPT !.state = "SYN_RCVD", !.rcv_nxt = s.seqno + 1,
                               !.snd_wnd = s.wnd, !.ssthresh = Window(s.wnd),
                               !.snd_wl1 = s.seqno - 1]
    IN  tcp_output(IF room THEN tcp_enqueue(p, {"SYN", "ACK"}, <<>>) ELSE p)

----------------------------------------------------------------------------
(* Calls of the application, and timers. *)
tcp_connect(room) ==
    LET p == [tcp_alloc EXCEPT !.state = "SYN_SENT", !.snd_nxt = 1,
                               !.snd_wnd = TCP_WND, !.ssthresh = EnoughWnd]
    IN  IF room THEN tcp_output(tcp_enqueue(p, {"SYN"}, <<>>)) ELSE p

Writable == {"ESTABLISHED", "CLOSE_WAIT", "SYN_SENT", "SYN_RCVD"}
tcp_write(p, data) == tcp_enqueue(p, {}, data)

(* Mutants: the window opens only when no ACK is due; nobody is told. *)
RecvedLate(p, len) ==
    IF p.flags \cap AckFlags = {}
    THEN tcp_ack([p EXCEPT !.rcv_wnd = AtMost(@ + len, TCP_WND)]) ELSE p
RecvedSilently(p, len) == [p EXCEPT !.rcv_wnd = AtMost(@ + len, TCP_WND)]

tcp_recved(p, len) ==
    LET q == [p EXCEPT !.rcv_wnd = AtMost(@ + len, TCP_WND)] IN
    IF q.flags \cap AckFlags = {} THEN tcp_ack(q)
    ELSE IF "ACK_DELAY" \in q.flags /\ q.rcv_wnd >= TCP_WND \div 2 THEN tcp_ack_now(q)
    ELSE q

(* tcp_close, when memory is found for the FIN it may have to send. *)
NeedsFin == {"SYN_RCVD", "ESTABLISHED", "CLOSE_WAIT"}
tcp_close(p) ==
    IF p.state \in NeedsFin
    THEN tcp_output([tcp_enqueue(p, {"FIN"}, <<>>) EXCEPT
            !.state = IF p.state = "CLOSE_WAIT" THEN "LAST_ACK" ELSE "FIN_WAIT_1"])
    ELSE IF p.state = "SYN_SENT" THEN tcp_pcb_remove(p)
    ELSE p

tcp_fasttmr(p) ==
    IF "ACK_DELAY" \in p.flags THEN [tcp_ack_now(p) EXCEPT !.flags = @ \ AckFlags] ELSE p

(* tcp_slowtmr: given up, or the retransmission timer has run out. *)
GivesUp(p) == \/ p.state = "SYN_SENT" /\ p.nrtx = TCP_SYNMAXRTX
              \/ p.nrtx = TCP_MAXRTX

TimedOut(p) ==
    [Freed(tcp_pcb_purge(p)) EXCEPT !.events = @ \cup {"ABRT"}]

RtoExpired(p) ==
    tcp_rexmit_rto([p EXCEPT
        !.ssthresh = IF HalfWindow(p) < mss THEN 2 * mss ELSE HalfWindow(p),
        !.cwnd     = mss])

(* What has run out is in "due": the retransmission timer, the twenty      *)
(* seconds of FIN_WAIT_2 and SYN_RCVD, the patience with ooseq, the poll   *)
(* interval. *)
Retransmitted(p, due) ==
    IF "RTO" \in due /\ p.unacked # <<>> /\ ~GivesUp(p) THEN RtoExpired(p) ELSE p

tcp_slowtmr(p, due) ==
    LET Rest(q) ==
            LET r == IF "OOSEQ" \in due THEN [q EXCEPT !.ooseq = {}] ELSE q
            IN  IF GivesUp(p) \/ ("STUCK" \in due /\ q.state \in {"FIN_WAIT_2", "SYN_RCVD"})
                THEN TimedOut(r)
                ELSE IF "POLL" \in due THEN tcp_output(r) ELSE r
    IN  The({Rest(q) : q \in {Retransmitted(p, due)}})
=============================================================================
