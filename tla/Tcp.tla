-------------------------------- MODULE Tcp --------------------------------
(***************************************************************************)
(* One TCP connection between two hosts that both run this code, from the  *)
(* active open to the last freed pcb.  Every action is one call into the   *)
(* stack, made by its only thread: a segment taken by tcp_input, a timer   *)
(* tick for one pcb, or a request of the application (api/api_msg.c, or    *)
(* the callback interface of core/tcp.c that it is built on).              *)
(*                                                                         *)
(* The network delays; it loses, duplicates and reorders as often as the   *)
(* budget allows.  A timer that waits for an answer may run out when no    *)
(* segment is left on the way, and, as often as "early" allows, before.    *)
(***************************************************************************)
EXTENDS TcpPcb

CONSTANTS Client, Server,
          Plans        \* what may be going to happen: a set of records

Hosts == {Client, Server}
Peer(h) == IF h = Client THEN Server ELSE Client

(* A plan: how many segments of data each application has, which of them   *)
(* call tcp_close and go on reading, which close only after the other side *)
(* has closed, and the bounds on what goes wrong on the way. *)
Faults == {"losses", "copies", "overtakes", "early", "shortages"}
ASSUME PlansAssumption ==
    \A plan \in Plans : /\ plan.toWrite \in [Hosts -> Nat]
                         /\ plan.halfCloses \subseteq Hosts /\ plan.patient \subseteq Hosts
                         /\ plan.budget \in [Faults -> Nat]

VARIABLES plan,        \* the one of Plans that is followed
          pcb,         \* the connection's pcb on each host
          net,         \* for each host, the segments on the way to it, oldest first
          app,         \* what each application has done and seen
          served,      \* the listening pcb has made the one pcb it finds memory for
          budget,      \* what is left of the plan's budget
          leaked       \* hosts that have freed a pcb with segments on its queues

vars == <<plan, pcb, net, app, served, budget, leaked>>

ToWrite == plan.toWrite
HalfCloses == plan.halfCloses
Patient == plan.patient

Init == /\ plan \in Plans
        /\ pcb = [h \in Hosts |-> NoPcb]
        /\ net = [h \in Hosts |-> <<>>]
        /\ app = [h \in Hosts |->
                    [using |-> "nothing", written |-> 0, got |-> <<>>, unread |-> 0,
                     eof |-> FALSE, err |-> FALSE]]
        /\ served = FALSE
        /\ budget = plan.budget
        /\ leaked = {}

----------------------------------------------------------------------------
(* The callbacks, as far as they are still set: sent to a netconn that has *)
(* been deleted, or to a pcb that was never accepted, nothing arrives, and *)
(* TF_CLOSED has no callback. *)
Notified(a, q) ==
    LET opened == q.events \cap {"CONNECTED", "ACCEPTED"} # {}
        b == IF opened THEN [a EXCEPT !.using = "pcb"] ELSE a
    IN  IF b.using \in {"nothing", "deleted"} THEN b
        ELSE [b EXCEPT !.got    = @ \o q.data,
                       !.unread = @ + Len(q.data),
                       !.eof    = @ \/ "FIN" \in q.events,
                       !.err    = @ \/ q.events \cap {"RESET", "ABRT"} # {}]

(* One call sends data in the order of its sequence numbers, then a reset. *)
InOrder(sent) == SetToSortSeq(sent, LAMBDA s, t :
    IF "RST" \in s.flags THEN FALSE ELSE "RST" \in t.flags \/ s.seqno < t.seqno)

AtRest(q) == [q EXCEPT !.sent = {}, !.data = <<>>, !.events = {}]

(* One call on h's pcb has a result.  "a" is h's application before   *)
(* the callbacks, "nets" the network before the call sends anything. *)
Call(h, result, a, nets) ==
    \E q \in {result} :
        /\ pcb' = [pcb EXCEPT ![h] = AtRest(q)]
        /\ net' = [nets EXCEPT ![Peer(h)] = @ \o InOrder(q.sent)]
        /\ app' = [app EXCEPT ![h] = Notified(a, q)]
        /\ leaked' = IF "LEAK" \in q.events THEN leaked \cup {h} ELSE leaked
        /\ served' = (served \/ q.state = "SYN_RCVD")
        /\ UNCHANGED plan

Spend(what) == /\ budget[what] > 0
               /\ budget' = [budget EXCEPT ![what] = @ - 1]

(* A choice that is free one way and costs a shortage of memory the other. *)
Room(room) == IF room THEN UNCHANGED budget ELSE Spend("shortages")

Active(h) == pcb[h].state \notin {"CLOSED", "TIME_WAIT"}
Owned(h) == app[h].using = "pcb" /\ Active(h)

----------------------------------------------------------------------------
(* The application. *)
Connect ==
    /\ app[Client].using = "nothing" /\ pcb[Client] = NoPcb
    /\ \E room \in BOOLEAN :
        /\ Room(room)
        /\ Call(Client, tcp_connect(room), [app[Client] EXCEPT !.using = "pcb"], net)

(* do_write: with Nagle's algorithm.  A write that fails changes nothing. *)
Write(h) ==
    LET p == pcb[h]
        data == <<app[h].written + 1>>
        q == tcp_write(p, data)
    IN  /\ Owned(h) /\ p.state \in Writable \ {"SYN_SENT"}
        /\ app[h].written < ToWrite[h]
        /\ CanEnqueue(p, data)
        /\ Call(h, IF p.unacked = <<>> THEN tcp_output(q) ELSE q,
                [app[h] EXCEPT !.written = @ + 1], net)
        /\ UNCHANGED budget

(* do_recv *)
Read(h) ==
    /\ app[h].using \in {"pcb", "half_closed"} /\ pcb[h] # NoPcb
    /\ \E n \in 1 .. app[h].unread :
        Call(h, tcp_recved(pcb[h], n * mss), [app[h] EXCEPT !.unread = @ - n], net)
    /\ UNCHANGED budget

(* An application closes once it has written all it has. *)
WantsToClose(h) ==
    /\ Owned(h)
    /\ \/ pcb[h].state = "SYN_SENT"
       \/ pcb[h].state \in NeedsFin /\ app[h].written = ToWrite[h]
    /\ h \in Patient => app[h].eof

(* tcp_close by an application that goes on reading; one that fails may be *)
(* tried again. *)
HalfClose(h) ==
    /\ h \in HalfCloses /\ WantsToClose(h)
    /\ pcb[h].state \in NeedsFin => CanEnqueue(pcb[h], <<>>)
    /\ Call(h, tcp_close(pcb[h]), [app[h] EXCEPT !.using = "half_closed"], net)
    /\ UNCHANGED budget

(* do_delconn: the callbacks are taken away first, and a tcp_close that    *)
(* fails is followed by tcp_abort. *)
Delete(h) ==
    LET p == pcb[h]
        gone == [app[h] EXCEPT !.using = "deleted"]
    IN  /\ h \notin HalfCloses /\ WantsToClose(h)
        /\ IF p.state \in NeedsFin
           THEN \E room \in BOOLEAN :
                    /\ Room(room)
                    /\ Call(h, IF room /\ CanEnqueue(p, <<>>) THEN tcp_close(p)
                               ELSE tcp_abort(p, FALSE), gone, net)
           ELSE Call(h, tcp_close(p), gone, net) /\ UNCHANGED budget

----------------------------------------------------------------------------
(* tcp_input: the i-th segment on the way to h arrives, or a copy of it.   *)
Overtaken(i) == IF i = 1 THEN UNCHANGED budget ELSE Spend("overtakes")
Without(h, i) == [net EXCEPT ![h] = RemoveAt(@, i)]

InputOne(h, i, q) ==
    \/ Call(h, q, app[h], Without(h, i)) /\ Overtaken(i)
    \/ Call(h, q, app[h], net) /\ i = 1 /\ Spend("copies")

ToActivePcb(h) ==
    /\ Active(h)
    /\ \E i \in DOMAIN net[h] : InputOne(h, i, InputActive(pcb[h], net[h][i], TRUE))

(* The accept callback finds no memory for a netconn. *)
Refuse ==
    /\ pcb[Server].state = "SYN_RCVD"
    /\ Spend("shortages")
    /\ net[Server] # <<>>
    /\ LET q == InputActive(pcb[Server], Head(net[Server]), FALSE) IN
        /\ "ABRT" \in q.events
        /\ Call(Server, q, app[Server], Without(Server, 1))

ToTimeWaitPcb(h) ==
    /\ pcb[h].state = "TIME_WAIT"
    /\ \E i \in DOMAIN net[h] : InputOne(h, i, tcp_timewait_input(pcb[h], net[h][i]))

(* The application closes its listening pcb once it has accepted its one   *)
(* connection. *)
Listens(h) == h = Server /\ app[h].using = "nothing"

(* tcp_listen_input.  A SYN that finds no memory for a pcb is dropped: that *)
(* is also how a second SYN fares, which bounds the model. *)
ToListenPcb ==
    /\ pcb[Server].state = "CLOSED" /\ Listens(Server) /\ net[Server] # <<>>
    /\ LET s == Head(net[Server])
           after == Without(Server, 1)
       IN \/ /\ "ACK" \in s.flags
             /\ Call(Server, [NoPcb EXCEPT !.sent = {Rst(s.ackno + 1, After(s))}],
                     app[Server], after)
             /\ UNCHANGED budget
          \/ /\ "ACK" \notin s.flags /\ "SYN" \in s.flags
             /\ \E room \in BOOLEAN :
                  /\ Room(room)
                  /\ Call(Server, IF served THEN NoPcb ELSE SynReceived(s, room),
                          app[Server], after)

(* No pcb: a reset is answered by nothing, anything else by a reset. *)
ToNoPcb(h) ==
    /\ pcb[h].state = "CLOSED" /\ ~Listens(h)
    /\ \E i \in DOMAIN net[h] : LET s == net[h][i] IN
        InputOne(h, i, IF "RST" \in s.flags THEN NoPcb
                       ELSE [NoPcb EXCEPT !.sent = {Rst(s.ackno, After(s))}])

Lose(h) ==
    /\ \E i \in DOMAIN net[h] : net' = Without(h, i)
    /\ Spend("losses")
    /\ UNCHANGED <<plan, pcb, app, served, leaked>>

----------------------------------------------------------------------------
(* Timers.  No answer is due any more when nothing is on the way and no    *)
(* delayed ACK waits; applications read before a sender has only one more  *)
(* retransmission, and in less than the twenty seconds that end an idle    *)
(* connection, which are also enough for a retransmission. *)
Quiet == \A h \in Hosts : /\ net[h] = <<>>
                          /\ Active(h) => "ACK_DELAY" \notin pcb[h].flags
AllRead == \A h \in Hosts : Owned(h) => app[h].unread = 0
Idle == Quiet /\ AllRead /\ \A h \in Hosts : pcb[h].unacked = <<>>

OnTime(expected) == IF expected THEN UNCHANGED budget ELSE Spend("early")

FastTimer(h) ==
    /\ Active(h) /\ "ACK_DELAY" \in pcb[h].flags
    /\ Call(h, tcp_fasttmr(pcb[h]), app[h], net)
    /\ UNCHANGED budget

(* tcp_slowtmr on an active pcb: it is given up, or one of its timers has  *)
(* run out, or the application is polled. *)
SlowTimer(h) ==
    LET p == pcb[h]
        Tick(due) == Call(h, tcp_slowtmr(p, due), app[h], net)
    IN  /\ Active(h)
        /\ \/ GivesUp(p) /\ Tick({}) /\ OnTime(Quiet)
           \/ /\ ~GivesUp(p)
              /\ \/ /\ p.unacked # <<>> /\ Tick({"RTO"})
                    /\ OnTime(Quiet /\ (p.nrtx + 1 < TCP_MAXRTX \/ AllRead))
                 \/ p.ooseq # {} /\ Tick({"OOSEQ"}) /\ OnTime(Quiet)
                 \/ p.state \in {"FIN_WAIT_2", "SYN_RCVD"} /\ Tick({"STUCK"}) /\ OnTime(Idle)
                 \/ p.unsent # <<>> /\ Tick({"POLL"}) /\ UNCHANGED budget

(* After twice the lifetime of a segment none is left. *)
TimeWaitOver(h) ==
    /\ pcb[h].state = "TIME_WAIT" /\ Quiet
    /\ Call(h, Freed(tcp_pcb_purge(pcb[h])), app[h], net)
    /\ UNCHANGED budget

----------------------------------------------------------------------------
(* Both ends have finished, and nothing is left on the way. *)
Finished ==
    /\ \A h \in Hosts : pcb[h] = NoPcb
    /\ app[Client].using # "nothing" /\ Quiet
    /\ UNCHANGED vars

Requests(h) == Write(h) \/ Read(h) \/ HalfClose(h) \/ Delete(h)
Segments(h) == ToActivePcb(h) \/ ToTimeWaitPcb(h) \/ ToNoPcb(h)
Timers(h) == FastTimer(h) \/ SlowTimer(h) \/ TimeWaitOver(h)

Next == \/ Connect \/ Refuse \/ ToListenPcb \/ Finished
        \/ \E h \in Hosts : Requests(h) \/ Segments(h) \/ Timers(h) \/ Lose(h)

Spec == Init /\ [][Next]_vars

(* Where nothing goes wrong, the tcpip thread takes what arrives and its    *)
(* timer goes on ticking whatever else it is asked, and the applications   *)
(* go on. *)
Undisturbed == \A f \in Faults : plan.budget[f] = 0
Fairness ==
    /\ WF_vars(Undisturbed /\ (Connect \/ ToListenPcb))
    /\ \A h \in Hosts : /\ WF_vars(Undisturbed /\ Requests(h))
                        /\ WF_vars(Undisturbed /\ Segments(h))
                        /\ WF_vars(Undisturbed /\ Timers(h))

FairSpec == Spec /\ Fairness

----------------------------------------------------------------------------
(* tcp_receive hands an application exactly the beginning of what the      *)
(* other side wrote: nothing twice, nothing missing, nothing out of order, *)
(* whatever the network does. *)
DeliveredInOrder ==
    \A h \in Hosts : \E n \in 0 .. app[Peer(h)].written :
        app[h].got = [i \in 1 .. n |-> i]

(* TF_GOT_FIN tells the application that the other side has closed: only   *)
(* once everything it wrote has been handed over. *)
EofIsComplete ==
    \A h \in Hosts : app[h].eof =>
        /\ app[Peer(h)].using \in {"half_closed", "deleted"}
        /\ Len(app[h].got) = app[Peer(h)].written

(* What is acknowledged has been handed to the application: rcv_nxt counts *)
(* the SYN, the data and the FIN. *)
AckedIsDelivered ==
    \A h \in Hosts :
        app[h].using = "pcb" /\ Active(h) /\ pcb[h].state # "SYN_SENT" =>
            pcb[h].rcv_nxt = 1 + mss * Len(app[h].got) + (IF app[h].eof THEN 1 ELSE 0)

(* The window that is announced is what the application has not yet left   *)
(* unread: no byte of it is lost for good. *)
WindowIsFree ==
    \A h \in Hosts :
        app[h].using = "pcb" /\ Active(h) =>
            pcb[h].rcv_wnd + mss * app[h].unread \in {TCP_WND, TCP_WND - 1}

(* The application sees the stream that the other side wrote, and its end  *)
(* when it is over; and the receiver tells the sender the truth about it.  *)
StreamIsWhole == DeliveredInOrder /\ EofIsComplete /\ AckedIsDelivered /\ WindowIsFree

(* Every byte from lastack to snd_lbb, SYN and FIN included, is in exactly *)
(* one segment of unsent and unacked, however often segments moved between *)
(* the two, and each queue is ordered. *)
Outstanding(p) == ToSet(p.unacked) \cup ToSet(p.unsent)
Ordered(q) == \A i, j \in DOMAIN q : i < j => q[i].seqno < q[j].seqno
Bytes(s) == s.seqno .. After(s) - 1
QueuesHoldTheRest ==
    \A h \in Hosts : LET p == pcb[h] IN
        Active(h) =>
            /\ UNION {Bytes(s) : s \in Outstanding(p)} = p.lastack .. p.snd_lbb - 1
            /\ \A s, t \in Outstanding(p) : s # t => Bytes(s) \cap Bytes(t) = {}
            /\ Cardinality(Outstanding(p)) = Queued(p)
            /\ Ordered(p.unsent) /\ Ordered(p.unacked)

(* snd_buf is what the queues leave of TCP_SND_BUF, in sixteen bits: the   *)
(* FIN is let in even when nothing is left. *)
SendBufferAccounts ==
    \A h \in Hosts : Active(h) =>
        pcb[h].snd_buf = U16(TCP_SND_BUF - (pcb[h].snd_lbb - pcb[h].lastack))

(* The bookkeeping of the sender: queues and buffer agree. *)
SenderAccounts == QueuesHoldTheRest /\ SendBufferAccounts

(* Undisturbed, both pcbs are given back in the end, whatever became of    *)
(* the connection, and what the client has written has then reached the    *)
(* server's application, and so has the end of it. *)
Completed ==
    Undisturbed =>
        /\ \A h \in Hosts : pcb[h] = NoPcb
        /\ app[Client].written = ToWrite[Client] =>
               app[Server].eof /\ Len(app[Server].got) = ToWrite[Client]

(* No segment is lost to the pools when a pcb is freed. *)
NothingLeaks == leaked = {}

=============================================================================
