------------------------------ MODULE Datagram ------------------------------
(***************************************************************************)
(* Datagrams from socket to socket: programs that use the calls of         *)
(* api/sockets.c for UDP and raw sockets, the tcpip thread of each host    *)
(* with the code of Ip, the driver's task of arch/FreeRTOS/ethernetif.c    *)
(* and an Ethernet that loses, doubles, swaps and damages packets.         *)
(*                                                                         *)
(* A program has one socket and carries out a script.  A call of the       *)
(* socket layer is a sequence of calls of api/api_lib.c; each is a message *)
(* for the tcpip thread and an answer.                                     *)
(***************************************************************************)
EXTENDS Ip

CONSTANTS Programs, Plans

(* A plan: on what host each program is and its script; whether addresses  *)
(* are known; how many netbufs there are and how many messages for the     *)
(* tcpip thread; what may go wrong, and how often; which hosts lose their  *)
(* link. *)
VARIABLES plan, host, wire, prog, faults

vars == <<plan, host, wire, prog, faults>>
Hosts == DOMAIN plan.resolved

(* A program: where it is in its script; the calls that are left of the    *)
(* step, and how far the first of them is; the pbuf it sends; the netbuf   *)
(* it has read in part, and how much of it; how many bytes of that have    *)
(* been written to its memory. *)
Nothing == [p |-> NIL, k |-> Whole(Zeros)]
NewProgram == [at |-> 1, todo |-> <<>>, state |-> "idle", p |-> NIL,
               lastdata |-> Nothing, lastoffset |-> 0, got |-> 0]

Init ==
    /\ plan \in Plans
    /\ host = [h \in Hosts |-> NewHost({a \in Programs : plan.on[a] = h}, plan.netbufs, plan.resolved[h])]
    /\ wire = [h \in Hosts |-> <<>>]
    /\ prog = [a \in Programs |-> NewProgram]
    /\ faults = plan.faults

Host(a) == host[plan.on[a]]
Op(a) == plan.script[a][prog[a].at]
Busy(a) == prog[a].at <= Len(plan.script[a])
Number(a) == 10 * a + prog[a].at

----------------------------------------------------------------------------
(* The socket layer. *)

Call(c) == [call |-> c, to |-> NIL, port |-> 0, len |-> 0]
CONNECT(to, port) == [Call("CONNECT") EXCEPT !.to = to, !.port = port]
SEND(len) == [Call("SEND") EXCEPT !.len = len]

(* A socket that sends to somebody is connected to it meanwhile. *)
lwip_sendto(a, op) ==
    LET peer == Host(a).pcb[a]
    IN  <<CONNECT(op.to, op.port), SEND(op.len),
          IF Host(a).conn[a].type = "UDP" /\ peer.connected
          THEN CONNECT(peer.rip, peer.rport) ELSE Call("DISCONNECT")>>

Calls(a, op) ==
    CASE op.op = "socket"  -> <<[Call("NEWCONN") EXCEPT !.to = op.type]>>
      [] op.op = "bind"    -> <<[Call("BIND") EXCEPT !.port = op.port]>>
      [] op.op = "connect" -> <<CONNECT(op.to, op.port)>>
      [] op.op = "disconnect" -> <<Call("DISCONNECT")>>
      [] op.op = "send"    -> <<SEND(op.len)>>
      [] op.op = "sendto"  -> lwip_sendto(a, op)
      [] op.op = "close"   -> <<Call("DELCONN")>>

(* A program that waits until another one has come to some place. *)
Meet(a) ==
    /\ Busy(a) /\ Op(a).op = "meet" /\ prog[Op(a).who].at >= Op(a).place
    /\ prog' = [prog EXCEPT ![a].at = @ + 1]
    /\ UNCHANGED <<plan, host, wire, faults>>

(* The calls that are left of the step a program is at. *)
Left(a) == IF prog[a].todo = <<>> THEN Calls(a, Op(a)) ELSE prog[a].todo

(* What a call does before it posts its message: a mailbox for what comes, *)
(* a netbuf that refers to what is sent. *)
Prepared(H, a, c) ==
    CASE c.call = "NEWCONN" -> [H EXCEPT !.conn[a] = [NoConn EXCEPT !.type = c.to]]
      [] c.call \in {"BIND", "CONNECT"} -> [H EXCEPT !.conn[a].open = TRUE]
      [] c.call = "SEND" -> [H EXCEPT !.netbufs = @ - 1, !.b = pbuf_alloc(@, "TRANSPORT", c.len, "REF").b]
      [] OTHER -> H

NextCall(P) == [P EXCEPT !.state = "idle", !.p = NIL, !.todo = Tail(@),
                         !.at = IF Len(P.todo) = 1 THEN @ + 1 ELSE @]
Post(H, a) == [H EXCEPT !.mbox = Append(@, [type |-> "API", a |-> a, p |-> NIL, k |-> Whole(Zeros)])]

Ask(a) ==
    LET c == Head(Left(a))
        P == [prog[a] EXCEPT !.todo = Left(a)]
        ref == pbuf_alloc(Host(a).b, "TRANSPORT", c.len, "REF").p
    IN  /\ Busy(a) /\ Op(a).op \notin {"meet", "recvfrom"} /\ prog[a].state = "idle"
        /\ IF c.call = "SEND" /\ Host(a).netbufs = 0
           THEN prog' = [prog EXCEPT ![a] = NextCall(P)] /\ UNCHANGED host
           ELSE /\ host' = [host EXCEPT ![plan.on[a]] = Post(Prepared(@, a, c), a)]
                /\ prog' = [prog EXCEPT ![a] = [P EXCEPT !.state = "asked",
                                                !.p = IF c.call = "SEND" THEN ref ELSE NIL]]
        /\ UNCHANGED <<plan, wire, faults>>

(* netbuf_delete *)
Deleted(H, p) == [Frees(H, p) EXCEPT !.netbufs = @ + 1]

(* What is left when a socket is closed: the netbufs nobody has read. *)
Closed(H, a) ==
    LET c == H.conn[a]
        emptied == FoldLeft(LAMBDA G, e : Deleted(G, e.p), H, c.recvmbox)
        rest == IF prog[a].lastdata.p = NIL THEN emptied ELSE Deleted(emptied, prog[a].lastdata.p)
    IN  [rest EXCEPT !.conn[a] = NoConn]

(* The answer has come. *)
Return(a) ==
    LET c == Head(prog[a].todo)
    IN  /\ prog[a].state = "answered"
        /\ host' = [host EXCEPT ![plan.on[a]] =
               CASE c.call = "SEND" -> Deleted(@, prog[a].p)
                 [] c.call = "DELCONN" -> Closed(@, a)
                 [] OTHER -> @]
        /\ prog' = [prog EXCEPT ![a] = [NextCall(@) EXCEPT
               !.lastdata = IF c.call = "DELCONN" THEN Nothing ELSE @,
               !.lastoffset = IF c.call = "DELCONN" THEN 0 ELSE @,
               !.got = IF c.call = "DELCONN" THEN 0 ELSE @]]
        /\ UNCHANGED <<plan, wire, faults>>

(* How many bytes of a chain lie from "offset" on, up to len of them, pbuf *)
(* by pbuf: those that end before the offset are passed over. *)
netbuf_copy_partial(b, p, len, from) ==
    LET c == Chain(b, p)
        lens == Lens(b, c)
        Of(i) == LET skip == from - Upto(lens, i - 1)
                 IN  Max({0, lens[i] - Max({0, skip})})
    IN  Min({len, FoldLeft(LAMBDA x, i : x + Of(i), 0, [i \in DOMAIN c |-> i])})

(* A part of the datagram, or all of it: what is left is kept for the next *)
(* call. *)
lwip_recvfrom(a) ==
    LET fresh == prog[a].lastdata = Nothing
        c == Host(a).conn[a]
        buf == IF fresh THEN Head(c.recvmbox) ELSE prog[a].lastdata
        buflen == Host(a).b[buf.p].tot_len - prog[a].lastoffset
        copylen == Min({Op(a).len, buflen})
        taken == IF fresh THEN [Host(a) EXCEPT !.conn[a].recvmbox = Tail(@),
                                               !.conn[a].recv_avail = @ - Host(a).b[buf.p].tot_len]
                 ELSE Host(a)
        copied == netbuf_copy_partial(Host(a).b, buf.p, copylen, prog[a].lastoffset)
        more == buflen > copylen
    IN  /\ Busy(a) /\ Op(a).op = "recvfrom"
        /\ c.open /\ (fresh => c.recvmbox # <<>>)
        /\ host' = [host EXCEPT ![plan.on[a]] = IF more THEN taken ELSE Deleted(taken, buf.p)]
        /\ prog' = [prog EXCEPT ![a] =
               [@ EXCEPT !.lastdata = IF more THEN buf ELSE Nothing,
                         !.lastoffset = IF more THEN @ + copylen ELSE 0,
                         !.got = IF more THEN @ + copied ELSE 0,
                         !.at = @ + 1]]
        /\ UNCHANGED <<plan, wire, faults>>

----------------------------------------------------------------------------
(* The tcpip thread. *)

AutoPort(H) == Min({port \in 4096 .. 4096 + Cardinality(Programs) :
                       \A s \in ToSet(H.udp_pcbs) : H.pcb[s].lport # port})

(* Any port will do for any number of sockets. *)
udp_bind(H, s, port) ==
    [H EXCEPT !.pcb[s].lport = IF port = 0 THEN AutoPort(H) ELSE port,
              !.udp_pcbs = IF s \in ToSet(@) THEN @ ELSE <<s>> \o @]

udp_connect(H, s, to, port) ==
    LET bound == IF H.pcb[s].lport = 0 THEN udp_bind(H, s, 0) ELSE H
    IN  [bound EXCEPT !.pcb[s] = [@ EXCEPT !.rip = to, !.rport = port, !.connected = TRUE]]

udp_disconnect(H, s) ==
    [H EXCEPT !.pcb[s] = [@ EXCEPT !.rip = NIL, !.rport = 0, !.connected = FALSE]]

udp_remove(H, s) == [H EXCEPT !.udp_pcbs = SelectSeq(@, LAMBDA x : x # s), !.pcb[s] = NoPcb]
raw_remove(H, s) == [H EXCEPT !.raw_pcbs = SelectSeq(@, LAMBDA x : x # s), !.pcb[s] = NoPcb]
raw_new(H, s) == [H EXCEPT !.raw_pcbs = <<s>> \o @]
raw_send(H, p, m) == raw_sendto(H, p, m)
raw_connect(H, s, to) == [H EXCEPT !.pcb[s].rip = to]

Message(h, H, a, c) ==
    LET udp == H.conn[a].type = "UDP"
    IN  [src |-> h, dst |-> H.pcb[a].rip, proto |-> IF udp THEN "UDP" ELSE "ECHO",
         sport |-> H.pcb[a].lport, dport |-> H.pcb[a].rport,
         len |-> c.len + IF udp THEN UDP_HLEN ELSE 0, n |-> Number(a)]

do_newconn(H, a) == IF H.conn[a].type = "UDP" THEN H ELSE raw_new(H, a)
do_delconn(H, a) == IF H.conn[a].type = "UDP" THEN udp_remove(H, a) ELSE raw_remove(H, a)
do_bind(H, a, c) == IF H.conn[a].type = "UDP" THEN udp_bind(H, a, c.port) ELSE H
do_connect(H, a, c) == IF H.conn[a].type = "UDP" THEN udp_connect(H, a, c.to, c.port)
                       ELSE raw_connect(H, a, c.to)
do_disconnect(H, a) == IF H.conn[a].type = "UDP" THEN udp_disconnect(H, a) ELSE H
do_send(h, H, a, c) ==
    LET bound == IF H.conn[a].type = "UDP" /\ H.pcb[a].lport = 0 THEN udp_bind(H, a, 0) ELSE H
        m == Message(h, bound, a, c)
    IN  IF H.conn[a].type = "UDP" THEN udp_send(bound, prog[a].p, m) ELSE raw_send(H, prog[a].p, m)

api_msg_input(h, H, a) ==
    LET c == Head(prog[a].todo)
    IN  CASE c.call = "NEWCONN"    -> do_newconn(H, a)
          [] c.call = "DELCONN"    -> do_delconn(H, a)
          [] c.call = "BIND"       -> do_bind(H, a, c)
          [] c.call = "CONNECT"    -> do_connect(H, a, c)
          [] c.call = "DISCONNECT" -> do_disconnect(H, a)
          [] c.call = "SEND"       -> do_send(h, H, a, c)

(* What a host has sent is on the wire to the hosts it is for. *)
OnWire(w, H) == [h \in Hosts |-> w[h] \o SelectSeq(H.sent, LAMBDA k : k.msg.dst = h)]
Becomes(h, H) ==
    /\ host' = [host EXCEPT ![h] = [H EXCEPT !.sent = <<>>]]
    /\ wire' = OnWire(wire, H)

tcpip_thread(h) ==
    LET msg == Head(host[h].mbox)
        H == [host[h] EXCEPT !.mbox = Tail(@)]
    IN  /\ host[h].mbox # <<>>
        /\ IF msg.type = "API"
           THEN /\ Becomes(h, api_msg_input(h, H, msg.a))
                /\ prog' = [prog EXCEPT ![msg.a].state = "answered"]
           ELSE Becomes(h, ip_input(H, msg.p, msg.k)) /\ UNCHANGED prog
        /\ UNCHANGED <<plan, faults>>

(* The thread's timer for the reassembly.  That a packet takes longer than *)
(* one period of it is a fault. *)
UnderWay(h) == wire[h] # <<>> \/ \E i \in DOMAIN host[h].mbox : host[h].mbox[i].type = "INPUT"
Late(h) == IF UnderWay(h) THEN "delay" \in plan.kinds /\ faults > 0 /\ faults' = faults - 1
           ELSE UNCHANGED faults
ReassTimer(h) ==
    /\ host[h].reass.tmr > 0
    /\ Late(h)
    /\ host' = [host EXCEPT ![h] = ip_reass_timer(@)]
    /\ UNCHANGED <<plan, wire, prog>>

(* Mutant of Sent: what has waited is forgotten. *)
Forgotten(H) ==
    Frees([H EXCEPT !.resolved = TRUE, !.waiting = Nothing], H.waiting.p)

(* The address of the neighbour becomes known, or it does not answer. *)
Sent(H) ==
    LET w == H.waiting
    IN  Frees([H EXCEPT !.resolved = TRUE, !.waiting = Nothing, !.sent = IF w.p = NIL THEN @ ELSE Append(@, w.k)], w.p)
Resolve(h) ==
    /\ host[h].waiting.p # NIL
    /\ Becomes(h, Sent(host[h]))
    /\ UNCHANGED <<plan, prog, faults>>

Fault(kind) == kind \in plan.kinds /\ faults > 0 /\ faults' = faults - 1

Unanswered(h) ==
    /\ host[h].waiting.p # NIL /\ Fault("silence")
    /\ host' = [host EXCEPT ![h] = Frees([@ EXCEPT !.waiting = Nothing], @.waiting.p)]
    /\ UNCHANGED <<plan, wire, prog>>

----------------------------------------------------------------------------
(* The driver's task: a frame has sixty bytes at least. *)
FrameLen(k) == Max({60, ETH_HLEN + IP_HLEN + k.len})
prvLowLevelInput(b, k) == pbuf_alloc(b, "RAW", FrameLen(k), "POOL")

tcpip_input(H, p, k) ==
    IF Len(H.mbox) >= plan.tcpipmsgs THEN Frees(H, p)
    ELSE [H EXCEPT !.mbox = Append(@, [type |-> "INPUT", a |-> 0, p |-> p, k |-> k])]

Driver(h) ==
    LET k == Head(wire[h])
        q == prvLowLevelInput(host[h].b, k)
    IN  /\ wire[h] # <<>>
        /\ host' = IF q.p = NIL THEN host
                   ELSE [host EXCEPT ![h] = tcpip_input(Moves([@ EXCEPT !.b = q.b], q.p, -ETH_HLEN), q.p, k)]
        /\ wire' = [wire EXCEPT ![h] = Tail(@)]
        /\ UNCHANGED <<plan, prog, faults>>

Link(h) ==
    /\ h \in plan.unplugged /\ Fault("link")
    /\ host' = [host EXCEPT ![h].up = ~@]
    /\ UNCHANGED <<plan, wire, prog>>

Lose(h) == Fault("loss") /\ wire' = [wire EXCEPT ![h] = Tail(@)]
Double(h) == Fault("copy") /\ wire' = [wire EXCEPT ![h] = Append(@, Head(@))]
Overtake(h) == Len(wire[h]) > 1 /\ Fault("order")
               /\ wire' = [wire EXCEPT ![h] = <<@[2], @[1]>> \o SubSeq(@, 3, Len(@))]
Damage(h) == Fault("damage") /\ wire' = [wire EXCEPT ![h][1].whole = FALSE]
Ethernet(h) ==
    /\ wire[h] # <<>>
    /\ Lose(h) \/ Double(h) \/ Overtake(h) \/ Damage(h)
    /\ UNCHANGED <<plan, host, prog>>

Program(a) == Meet(a) \/ Ask(a) \/ Return(a) \/ lwip_recvfrom(a)
System(h) == tcpip_thread(h) \/ ReassTimer(h) \/ Resolve(h) \/ Driver(h)
Next ==
    \/ \E a \in Programs : Program(a)
    \/ \E h \in Hosts : System(h) \/ Unanswered(h) \/ Link(h) \/ Ethernet(h)

Spec == Init /\ [][Next]_vars

(* Tasks run; the stack's timers run in the tcpip thread; a neighbour that *)
(* is asked answers.  Nothing more is asked for than that plans in which   *)
(* packets are lost at most go on. *)
AllHosts == UNION {DOMAIN q.resolved : q \in Plans}
Steady == plan.kinds \subseteq {"loss"}
Lives(h) == Steady /\ h \in Hosts
CanGo(a) ==
    /\ Steady /\ Busy(a) /\ prog[a].state # "asked"
    /\ Op(a).op = "meet" => prog[Op(a).who].at >= Op(a).place
    /\ Op(a).op = "recvfrom" => Host(a).conn[a].open
                               /\ (Host(a).conn[a].recvmbox # <<>> \/ prog[a].lastdata # Nothing)
(* Weak fairness of each action, in terms of what enables it and what only *)
(* it does. *)
Fairness ==
    /\ \A a \in Programs : <>[]CanGo(a) => []<><<prog'[a] # prog[a]>>_vars
    /\ \A h \in AllHosts :
        /\ <>[](Lives(h) /\ host[h].mbox # <<>>)
               => []<><<Len(host'[h].mbox) < Len(host[h].mbox)>>_vars
        /\ WF_vars(Lives(h) /\ host[h].reass.tmr > 0 /\ ~UnderWay(h) /\ ReassTimer(h))
        /\ <>[](Lives(h) /\ host[h].waiting.p # NIL)
               => []<><<host'[h].waiting.p = NIL>>_vars
        /\ <>[](Lives(h) /\ wire[h] # <<>>)
               => []<><<Len(wire'[h]) < Len(wire[h])>>_vars
FairSpec == Spec /\ Fairness

----------------------------------------------------------------------------
(* The pbufs of host h are counted right: each has as many references as   *)
(* there are holders of it, the pbuf before it in a chain, a mailbox, a    *)
(* program, the frame that waits; nothing leaks and nothing is freed that  *)
(* somebody has. *)
Holders(h, i) ==
    LET H == host[h]
        here == {a \in Programs : plan.on[a] = h}
    IN  Cardinality({j \in Ids : H.b[j].ref > 0 /\ H.b[j].next = i})
        + Cardinality({j \in DOMAIN H.mbox : H.mbox[j].p = i})
        + Cardinality({<<a, j>> \in UNION {{a} \X DOMAIN H.conn[a].recvmbox : a \in here} :
                           H.conn[a].recvmbox[j].p = i})
        + Cardinality({a \in here : prog[a].lastdata.p = i})
        + Cardinality({a \in here : prog[a].p = i})
        + IF H.waiting.p = i THEN 1 ELSE 0
RefsAreHeld == \A h \in Hosts, i \in Ids : host[h].b[i].ref = Holders(h, i)

(* What a UDP socket is handed is a message that somebody sent to its      *)
(* port, all of it and nothing else, as long as what its chain of pbufs    *)
(* holds; what a program has read in part it has got all of, and all the   *)
(* rest is there; and recv_avail is the length of what waits. *)
Received(a) == LET e == [i \in DOMAIN Host(a).conn[a].recvmbox |-> Host(a).conn[a].recvmbox[i]]
               IN  ToSet(e) \cup ({prog[a].lastdata} \ {Nothing})
IsWhole(a, e) ==
    LET b == Host(a).b
        c == Chain(b, e.p)
    IN  /\ e.k.whole /\ e.k.msg.dst = plan.on[a]
        /\ Host(a).pcb[a].lport \in {0, e.k.msg.dport}
        /\ b[e.p].tot_len = e.k.msg.len - UDP_HLEN
        /\ Upto(Lens(b, c), Len(c)) = b[e.p].tot_len
ReceivedIsWhole ==
    \A a \in Programs : Host(a).conn[a].type = "UDP" =>
        /\ \A e \in Received(a) : IsWhole(a, e)
        /\ prog[a].got = prog[a].lastoffset
        /\ prog[a].got > 0 =>
               netbuf_copy_partial(Host(a).b, prog[a].lastdata.p, 65535, prog[a].got)
                   = prog[a].lastdata.k.msg.len - UDP_HLEN - prog[a].got
        /\ Host(a).conn[a].recv_avail =
               FoldLeft(LAMBDA x, e : x + Host(a).b[e.p].tot_len, 0, Host(a).conn[a].recvmbox)

(* Where nothing goes wrong, programs that wait for each other's datagrams *)
(* get them all, from neighbours that ARP has to ask for as well: nothing  *)
(* that the sockets, UDP, IP's fragments and ARP do to a message on the    *)
(* way loses it.  Two things do, and are left out by what happens: a frame *)
(* for an address that another frame waits for already (the second         *)
(* fragment to somebody unknown), and a fragment that comes while the      *)
(* buffer collects another host's. *)
Calm == plan.faults = 0
Arrives == Calm ~> \/ \A a \in Programs : ~Busy(a)
                   \/ \E h \in Hosts : host[h].missed

(* The buffer for reassembly does not stay with a datagram whose rest is   *)
(* lost. *)
BufferIsFreed == \A h \in AllHosts : (Lives(h) /\ host[h].reass.tmr > 0) ~> (Lives(h) => host[h].reass.tmr = 0)
=============================================================================
