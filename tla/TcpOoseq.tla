------------------------------ MODULE TcpOoseq ------------------------------
(***************************************************************************)
(* How tcp_receive (core/tcp_in.c) puts a stream together from segments of *)
(* any size: trimming at both edges, the ooseq queue, and what is then in  *)
(* sequence.  The other side is any correct sender: it may cut the same    *)
(* stream another way when it sends it again.                              *)
(*                                                                         *)
(* The bytes of the stream are the numbers 1 .. StreamLen, and byte n has  *)
(* sequence number n; the FIN has StreamLen + 1.  The application reads at *)
(* once, so the window is always ReceiveWindow, which is TCP_WND.          *)
(***************************************************************************)
EXTENDS Integers, Sequences, FiniteSets, SequencesExt

CONSTANTS StreamLen, ReceiveWindow,
          MEMP_NUM_TCP_SEG,
          Arriving     \* what may arrive: [seqno, len, fin]

U16_MAX == 65535

ASSUME OoseqAssumption ==
    /\ StreamLen \in Nat \ {0} /\ ReceiveWindow \in Nat \ {0}
    /\ MEMP_NUM_TCP_SEG \in Nat
    /\ \A s \in Arriving : /\ s.seqno \in Nat \ {0} /\ s.fin \in BOOLEAN
                           /\ s.len \in Nat /\ s.len < U16_MAX     \* a datagram has less
                           /\ s.seqno + s.len <= StreamLen + 1
                           /\ s.fin => s.seqno + s.len = StreamLen + 1
                           /\ s.len > 0 \/ s.fin

VARIABLES rcv_nxt,
          ooseq,       \* struct tcp_seg: [seqno, len, fin], and "data", its pbuf
          delivered,   \* the bytes handed to the application
          eof,         \* TF_GOT_FIN has been handed to it
          held,        \* how many tcp_segs the pcb has taken from the pool
          lost,        \* how many of these a longer one has replaced
          overlapped   \* one has reached into the next, or kept a FIN that is not its

ooseqVars == <<rcv_nxt, ooseq, delivered, eof, held, lost, overlapped>>

OoseqInit == /\ rcv_nxt = 1 /\ ooseq = <<>>
             /\ delivered = <<>> /\ eof = FALSE
             /\ held = 0 /\ lost = 0 /\ overlapped = FALSE

----------------------------------------------------------------------------
U16Len(n) == n % (U16_MAX + 1)
Stream(first, len) == [i \in 1 .. len |-> first + i - 1]
TcpLen(s) == s.len + (IF s.fin THEN 1 ELSE 0)

(* A segment cut to a new length, as a u16_t.  pbuf_realloc cannot grow.   *)
Cut(s, len) ==
    [seqno |-> s.seqno, len |-> U16Len(len), fin |-> s.fin,
     data |-> IF U16Len(len) < Len(s.data) THEN SubSeq(s.data, 1, U16Len(len)) ELSE s.data]

(* A mutant: the header only is changed. *)
TrimHeader(s) ==
    IF s.seqno < rcv_nxt /\ rcv_nxt <= s.seqno + TcpLen(s) - 1
    THEN [s EXCEPT !.seqno = rcv_nxt, !.len = @ - (rcv_nxt - s.seqno)]
    ELSE s

(* What is below rcv_nxt goes off the front. *)
TrimFront(s) ==
    IF s.seqno < rcv_nxt /\ rcv_nxt <= s.seqno + TcpLen(s) - 1
    THEN [seqno |-> rcv_nxt, len |-> s.len - (rcv_nxt - s.seqno), fin |-> s.fin,
          data |-> SubSeq(s.data, rcv_nxt - s.seqno + 1, Len(s.data))]
    ELSE s

(* A mutant: one off at the lower edge. *)
BehindEdge(s) == rcv_nxt < s.seqno /\ s.seqno < rcv_nxt + ReceiveWindow

StartsInWindow(s) == rcv_nxt <= s.seqno /\ s.seqno < rcv_nxt + ReceiveWindow

(* A mutant: the FIN is not counted. *)
TakeBytes(run, s) ==
    [run EXCEPT !.rcv_nxt = @ + s.len, !.data = @ \o s.data, !.fin = @ \/ s.fin]

(* Adds a segment to the run that goes to the application. *)
Take(run, s) ==
    [run EXCEPT !.rcv_nxt = @ + U16Len(TcpLen(s)),
                !.data    = @ \o s.data,
                !.fin     = @ \/ s.fin]

(* A mutant: the FIN of a segment is noticed before its place is. *)
OrLeaveNoticed(run, o) ==
    IF run.left = <<>> /\ o.seqno = run.rcv_nxt THEN Take(run, o)
    ELSE [run EXCEPT !.left = Append(@, o), !.fin = @ \/ o.fin]

TakeOrLeave(run, o) ==
    IF run.left = <<>> /\ o.seqno = run.rcv_nxt THEN Take(run, o)
    ELSE [run EXCEPT !.left = Append(@, o)]

(* The front of ooseq, as long as it goes on where the run ends. *)
Drain(run, queue) ==
    LET upTo[k \in 0 .. Len(queue)] == IF k = 0 THEN run ELSE TakeOrLeave(upTo[k - 1], queue[k])
    IN  upTo[Len(queue)]

(* A FIN is still on a segment that no longer reaches to the end. *)
Misplaced(s) == s.fin /\ s.seqno + s.len # StreamLen + 1

Joins(s) ==
    LET cut == IF ooseq # <<>> /\ Head(ooseq).seqno <= s.seqno + s.len
               THEN Cut(s, Head(ooseq).seqno - s.seqno) ELSE s
        run == Drain(Take([rcv_nxt |-> rcv_nxt, data |-> <<>>, fin |-> FALSE,
                           left |-> <<>>], cut), ooseq)
    IN  /\ rcv_nxt' = run.rcv_nxt
        /\ delivered' = delivered \o run.data
        /\ eof' = (eof \/ run.fin)
        /\ ooseq' = run.left
        /\ held' = held - (Len(ooseq) - Len(run.left))
        /\ overlapped' = (overlapped \/ Misplaced(cut))
        /\ UNCHANGED lost

(* Where the walk along ooseq stops: at a segment that starts with s, at   *)
(* the first that starts behind it, or at the last. *)
Stops(s) == {i \in DOMAIN ooseq :
    \/ ooseq[i].seqno = s.seqno
    \/ s.seqno < ooseq[i].seqno /\ (i = 1 \/ ooseq[i - 1].seqno < s.seqno)
    \/ i = Len(ooseq) /\ s.seqno > ooseq[i].seqno}
Stop(s) == CHOOSE i \in Stops(s) : \A j \in Stops(s) : i <= j

CutBefore(s, next) == IF s.seqno + s.len > next THEN Cut(s, next - s.seqno) ELSE s

(* A mutant: the segment before is not cut. *)
InsertUncut(s, i) == InsertAt(ooseq, i, CutBefore(s, ooseq[i].seqno))

(* The segment goes in front of ooseq[i]: it, and the one before it, are   *)
(* cut where the next begins. *)
Insert(s, i) ==
    LET before == IF i = 1 THEN ooseq ELSE [ooseq EXCEPT ![i - 1] = CutBefore(@, s.seqno)]
    IN  InsertAt(before, i, CutBefore(s, ooseq[i].seqno))

(* Of two that start alike the longer one stays: it is not cut, and the    *)
(* other is not freed. *)
Replaces(s) == \E i \in DOMAIN ooseq : ooseq[i].seqno = s.seqno /\ ooseq[i].len < s.len
ReachesOver(s) == \E i \in DOMAIN ooseq : s.seqno < ooseq[i].seqno /\ ooseq[i].seqno < s.seqno + s.len

(* The queue with the segment at its place. *)
Placed(s) ==
    IF ooseq = <<>> THEN <<s>>
    ELSE LET i == Stop(s)
             o == ooseq[i]
         IN  IF o.seqno = s.seqno THEN (IF s.len > o.len THEN [ooseq EXCEPT ![i] = s] ELSE ooseq)
             ELSE IF s.seqno < o.seqno THEN Insert(s, i)
             ELSE Append([ooseq EXCEPT ![i] = CutBefore(@, s.seqno)], s)

(* "room": whether the other users of the pool leave tcp_seg_copy one. *)
Waits(s, room) ==
    /\ IF room /\ held < MEMP_NUM_TCP_SEG
       THEN /\ ooseq' = Placed(s)
            /\ held' = held + (IF ooseq' = ooseq THEN 0 ELSE 1)
            /\ lost' = lost + (IF Replaces(s) THEN 1 ELSE 0)
            /\ overlapped' = \/ overlapped
                             \/ Replaces(s) /\ ReachesOver(s)
                             \/ \E i \in DOMAIN ooseq' : Misplaced(ooseq'[i])
       ELSE UNCHANGED <<ooseq, held, lost, overlapped>>
    /\ UNCHANGED <<rcv_nxt, delivered, eof>>

(* A segment arrives. *)
tcp_receive_ooseq(segment, room) ==
    LET s == TrimFront([seqno |-> segment.seqno, len |-> segment.len, fin |-> segment.fin,
                        data |-> Stream(segment.seqno, segment.len)])
    IN  IF ~StartsInWindow(s) THEN UNCHANGED ooseqVars
        ELSE IF s.seqno = rcv_nxt THEN Joins(s)
        ELSE Waits(s, room)

(* A mutant: the queue is only forgotten. *)
ForgetOoseq ==
    /\ ooseq # <<>>
    /\ ooseq' = <<>>
    /\ UNCHANGED <<rcv_nxt, delivered, eof, held, lost, overlapped>>

(* tcp_slowtmr: nothing has arrived for too long. *)
DropOoseq ==
    /\ ooseq # <<>>
    /\ ooseq' = <<>> /\ held' = held - Len(ooseq)
    /\ UNCHANGED <<rcv_nxt, delivered, eof, lost, overlapped>>

(* Bound: a stream that has become longer than it was sent is not followed. *)
Arrives(s, room) == Len(delivered) <= StreamLen /\ tcp_receive_ooseq(s, room)

OoseqNext == \/ \E s \in Arriving, room \in BOOLEAN : Arrives(s, room)
             \/ DropOoseq

OoseqSpec == OoseqInit /\ [][OoseqNext]_ooseqVars

(* The first byte that is not acknowledged is sent again, in one segment   *)
(* or another.  The pool owes nothing. *)
Resent == \E s \in Arriving, room \in BOOLEAN :
              s.seqno <= rcv_nxt /\ Arrives(s, room)
FairOoseq == WF_ooseqVars(rcv_nxt # StreamLen + 2 /\ Resent)

----------------------------------------------------------------------------
(* Until a longer segment has taken a place it reaches beyond, or one that *)
(* was cut has kept its FIN, the queue holds segments of the stream that   *)
(* start behind rcv_nxt as long as there is more to come, in order, none   *)
(* reaching into the next: what makes its head the only segment that can   *)
(* be in sequence, and every subtraction of sequence numbers fit sixteen   *)
(* bits. *)
QueueIsOrdered ==
    ~overlapped =>
        \A i \in DOMAIN ooseq : LET o == ooseq[i] IN
            /\ ~eof => o.seqno > rcv_nxt
            /\ o.data = Stream(o.seqno, o.len)
            /\ i > 1 => ooseq[i - 1].seqno + ooseq[i - 1].len <= o.seqno

(* The application gets the stream: each byte once, in order. *)
DeliveredIsWhole == ~overlapped => \E n \in 0 .. StreamLen : delivered = Stream(1, n)

(* What is acknowledged is what the application has been given. *)
AcksWhatIsDelivered ==
    ~overlapped => rcv_nxt = Len(delivered) + 1 + (IF eof THEN 1 ELSE 0)

(* The end is announced after the last byte. *)
EndIsLast == ~overlapped => (eof => Len(delivered) = StreamLen)

(* The pool gets back every tcp_seg that is neither on the queue nor one   *)
(* that was replaced. *)
SegsAreReturned == held = Len(ooseq) + lost

(* The receiver's half of a connection: the queue, the stream, what is     *)
(* acknowledged of it, its end, and the pool.                              *)
ReassemblyIsSound ==
    /\ QueueIsOrdered /\ DeliveredIsWhole /\ AcksWhatIsDelivered
    /\ EndIsLast /\ SegsAreReturned

(* With segments sent again and again the stream arrives as a whole, even  *)
(* when replaced segments have used up the pool. *)
AllArrived == overlapped \/ (eof /\ Len(delivered) = StreamLen)

=============================================================================
