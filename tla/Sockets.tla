------------------------------ MODULE Sockets ------------------------------
(***************************************************************************)
(* The life of the TCP sockets of api/sockets.c: each is a netconn         *)
(* (api/api_lib.c, api/api_msg.c), which has a control block of TCP        *)
(* (TcpPcbs).  There are few of each, so that sockets, netconns and        *)
(* control blocks are given back and handed out again all the time, and    *)
(* programs, segments and the slow timer take them from each other.        *)
(*                                                                         *)
(* A call posts its message and waits: what the tcpip thread does for it   *)
(* is one step, and what the call does afterwards another.  Netconn has    *)
(* the messages, Select what is read and written, Tcp the segments.        *)
(***************************************************************************)
EXTENDS TcpPcbs

CONSTANTS Remotes,     \* addresses and ports of other hosts
          Plans,       \* what the programs and the other hosts do
          MaxLost      \* bound on the mailboxes that get lost

(* A plan: the ports programs bind to (0: any), the addresses, the options *)
(* they set, whom they connect to, who sends segments and which, how a FIN *)
(* may fare, whether windows may be full, whether programs listen, and how *)
(* many sockets are open at once. *)
ASSUME SocketsAssumption ==
    /\ MaxLost \in Nat
    /\ \A plan \in Plans :
        /\ plan.ports \subseteq Nat /\ plan.addrs \subseteq {ANY, ME}
        /\ plan.options \subseteq {"KEEPALIVE", "REUSEADDR", "REUSEPORT", "NODELAY"}
        /\ plan.segs \subseteq {"SYN", "SYNACK", "ACK", "FIN", "FINACK", "RST"}
        /\ plan.servers \subseteq Remotes /\ plan.hosts \subseteq Remotes
        /\ plan.fins \subseteq {"sent", "held", "none"} /\ plan.most \in Nat
        /\ {plan.full, plan.listens} \subseteq BOOLEAN

NUM_SOCKETS == MEMP_NUM_NETCONN

VARIABLES plan,
          w,          \* the world of TcpPcbs
          sockets,    \* socket -> its netconn
          hand,       \* netconns that a thread has made or accepted, with no socket yet
          closing,    \* the socket in lwip_close, whose thread holds socksem
          drained,    \* whether it has found its acceptmbox empty
          lost,       \* history: pcbs, netconns and how many mailboxes nobody has any more
          asked       \* history: the options a program has set on its socket

vars == <<plan, w, sockets, hand, closing, drained, lost, asked>>

Socks == 0 .. NUM_SOCKETS - 1

Init == /\ plan \in Plans /\ w = EmptyWorld
        /\ sockets = [s \in Socks |-> NULL]
        /\ hand = {} /\ closing = NULL /\ drained = FALSE
        /\ lost = [pcbs |-> {}, conns |-> {}, boxes |-> 0]
        /\ asked = [s \in Socks |-> {}]

----------------------------------------------------------------------------
(* A socket its program can use: it is open and not in another call. *)
Usable(s) == sockets[s] # NULL /\ closing # s /\ ~w.conn[sockets[s]].wait
Conn(s) == w.conn[sockets[s]]
Pcb(s) == w.pcb[Conn(s).pcb]
Open == {s \in Socks : sockets[s] # NULL}

(* Mutant of NewConn: the mailbox is freed. *)
NewConnFreed(c, new) ==
    IF new.p = NULL
    THEN [w |-> new.w, hand |-> hand, lost |-> [lost EXCEPT !.boxes = @ + 1]]
    ELSE [w |-> [new.w EXCEPT !.conn[c] = [NoConn EXCEPT !.used = TRUE, !.pcb = new.p], !.boxes = @ + 1,
                              !.pcb[new.p].arg = c, !.pcb[new.p].errf = TRUE],
          hand |-> hand \cup {c}, lost |-> lost]

(* What do_newconn leaves: without a pcb the netconn is freed again, but   *)
(* its mailbox is not. *)
NewConn(c, new) ==
    IF new.p = NULL
    THEN [w |-> [new.w EXCEPT !.boxes = @ + 1], hand |-> hand, lost |-> [lost EXCEPT !.boxes = @ + 1]]
    ELSE [w |-> [new.w EXCEPT !.conn[c] = [NoConn EXCEPT !.used = TRUE, !.pcb = new.p], !.boxes = @ + 1,
                              !.pcb[new.p].arg = c, !.pcb[new.p].errf = TRUE],
          hand |-> hand \cup {c}, lost |-> lost]

(* The first half of lwip_socket. *)
netconn_new ==
    LET c == Min({d \in Conns : ~w.conn[d].used})
        made == NewConn(c, tcp_alloc(w, TCP_PRIO_NORMAL))
    IN  /\ \E d \in Conns : ~w.conn[d].used
        /\ Cardinality(Open) + Cardinality(hand) < plan.most
        /\ made.lost.boxes <= MaxLost
        /\ w' = made.w /\ hand' = made.hand /\ lost' = made.lost
        /\ UNCHANGED <<sockets, closing, drained, asked>>

(* The last part of lwip_socket and lwip_accept, under socksem. *)
alloc_socket(c, fin) ==
    LET free == {s \in Socks : sockets[s] = NULL}
    IN  /\ c \in hand /\ closing = NULL
        /\ hand' = hand \ {c}
        /\ IF free = {} THEN w' = DeletePending(w, c, fin) /\ UNCHANGED <<sockets, asked>>
           ELSE /\ sockets' = [sockets EXCEPT ![Min(free)] = c]
                /\ asked' = [asked EXCEPT ![Min(free)] =
                                 IF w.conn[c].pcb = NULL THEN {} ELSE w.pcb[w.conn[c].pcb].opts]
                /\ UNCHANGED w
        /\ UNCHANGED <<closing, drained, lost>>

(* A connection that was lost gets a new pcb, with none of the options. *)
Renewed(s) ==
    LET new == tcp_alloc(w, TCP_PRIO_NORMAL)
    IN  IF Conn(s).pcb # NULL THEN [w |-> w, p |-> Conn(s).pcb]
        ELSE IF new.p = NULL THEN new
        ELSE [new EXCEPT !.w.conn[sockets[s]].pcb = new.p,
                         !.w.pcb[new.p].arg = sockets[s], !.w.pcb[new.p].errf = TRUE]
Forgets(s) == asked' = [asked EXCEPT ![s] = IF Conn(s).pcb = NULL THEN {} ELSE @]

(* Without a pcb to be had the code would go on with none. *)
lwip_bind(s, addr, port) ==
    /\ Usable(s) /\ (Conn(s).pcb # NULL => Pcb(s).state = "CLOSED")
    /\ Renewed(s).p # NULL
    /\ w' = tcp_bind(Renewed(s).w, Renewed(s).p, addr, port)
    /\ Forgets(s)
    /\ UNCHANGED <<sockets, hand, closing, drained, lost>>

(* The call waits for its connection: its program goes on when do_connected *)
(* or err_tcp has answered. *)
lwip_connect(s, remote) ==
    /\ Usable(s) /\ (Conn(s).pcb # NULL => Pcb(s).state = "CLOSED")
    /\ LET c == sockets[s]
           boxed == [Renewed(s).w EXCEPT !.boxes = IF Conn(s).recv THEN @ ELSE @ + 1,
                                         !.conn[c].recv = TRUE]
       IN  w' = IF Renewed(s).p = NULL THEN boxed
                ELSE tcp_connect([boxed EXCEPT !.conn[c].wait = TRUE], Renewed(s).p, remote)
    /\ Forgets(s)
    /\ UNCHANGED <<sockets, hand, closing, drained, lost>>

(* With no pcb for a listener the one of the socket is lost. *)
do_listen(W, c) ==
    LET new == tcp_listen(W, W.conn[c].pcb)
    IN  IF W.conn[c].pcb = NULL THEN [w |-> W, lost |-> {}]
        ELSE [w |-> [new.w EXCEPT !.conn[c].pcb = new.p],
              lost |-> IF new.p = NULL THEN {W.conn[c].pcb} ELSE {}]

netconn_listen(W, c) ==
    do_listen(IF W.conn[c].acceptmbox # NULL THEN W
              ELSE [W EXCEPT !.boxes = @ + 1, !.conn[c].acceptmbox = <<>>], c)

lwip_listen(s) ==
    /\ Usable(s) /\ (Conn(s).pcb # NULL => Pcb(s).state \in {"CLOSED", "LISTEN"})
    /\ LET r == netconn_listen(w, sockets[s])
       IN  w' = r.w /\ lost' = [lost EXCEPT !.pcbs = @ \cup r.lost]
    /\ asked' = [asked EXCEPT ![s] = @ \ {"NODELAY"}]
    /\ UNCHANGED <<sockets, hand, closing, drained>>

(* A call that finds nothing gives up after 20 ms, and leaves things as    *)
(* they were. *)
netconn_accept(c) ==
    /\ w.conn[c].acceptmbox \notin {NULL, <<>>}
    /\ hand' = hand \cup {Head(w.conn[c].acceptmbox)}
    /\ w' = [w EXCEPT !.conn[c].acceptmbox = Tail(@)]

lwip_accept(s) ==
    /\ Usable(s) /\ netconn_accept(sockets[s])
    /\ UNCHANGED <<sockets, closing, drained, lost, asked>>

(* What the options are to a socket: NODELAY is not looked at on a         *)
(* listener, whose pcb has no room for it. *)
Levels == [SOL_SOCKET |-> {"KEEPALIVE", "REUSEADDR", "REUSEPORT", "ACCEPTCONN"},
           IPPROTO_TCP |-> {"NODELAY"}]
lwip_getsockopt(s, level, opt) ==
    [err |-> IF opt \in Levels[level] THEN 0 ELSE "ENOPROTOOPT", val |-> opt \in Pcb(s).opts]

(* Mutant of lwip_setsockopt: setting one option clears the others. *)
SetOnly(s, opt, on) ==
    /\ Usable(s) /\ Conn(s).pcb # NULL
    /\ opt = "NODELAY" => Pcb(s).state # "LISTEN"
    /\ LET set(old) == IF on THEN old \cup {opt} ELSE old \ {opt}
       IN  /\ w' = [w EXCEPT !.pcb[Conn(s).pcb].opts = IF on THEN {opt} ELSE @ \ {opt}]
           /\ asked' = [asked EXCEPT ![s] = set(@)]
    /\ UNCHANGED <<sockets, hand, closing, drained, lost>>

(* The program must know that there is a pcb, and that it is no listener's *)
(* when it sets NODELAY: the code does not look. *)
lwip_setsockopt(s, opt, on) ==
    /\ Usable(s) /\ Conn(s).pcb # NULL
    /\ opt = "NODELAY" => Pcb(s).state # "LISTEN"
    /\ LET set(old) == IF on THEN old \cup {opt} ELSE old \ {opt}
       IN  /\ w' = [w EXCEPT !.pcb[Conn(s).pcb].opts = set(@)]
           /\ asked' = [asked EXCEPT ![s] = set(@)]
    /\ UNCHANGED <<sockets, hand, closing, drained, lost>>

(* lwip_close, which is lwip_shutdown too, takes socksem: the stack gives  *)
(* up the pcb; then what has been accepted for the socket goes, one after  *)
(* the other, until none is found; then the netconn, and with its          *)
(* acceptmbox whatever has been accepted since. *)
lwip_close(s, fin) ==
    /\ Usable(s) /\ closing = NULL
    /\ closing' = s
    /\ w' = do_delconn(w, sockets[s], fin)
    /\ UNCHANGED <<sockets, hand, drained, lost, asked>>

Drained(fin) ==
    /\ closing # NULL /\ ~drained /\ Conn(closing).acceptmbox \notin {NULL, <<>>}
    /\ w' = DeletePending([w EXCEPT !.conn[sockets[closing]].acceptmbox = Tail(@)],
                          Head(Conn(closing).acceptmbox), fin)
    /\ UNCHANGED <<sockets, hand, closing, drained, lost, asked>>

FoundEmpty ==
    /\ closing # NULL /\ ~drained /\ Conn(closing).acceptmbox = <<>>
    /\ drained' = TRUE
    /\ UNCHANGED <<w, sockets, hand, closing, lost, asked>>

Closed ==
    /\ closing # NULL /\ (drained \/ Conn(closing).acceptmbox = NULL)
    /\ w' = FreeConn(w, sockets[closing])
    /\ sockets' = [sockets EXCEPT ![closing] = NULL]
    /\ closing' = NULL /\ drained' = FALSE
    /\ asked' = [asked EXCEPT ![closing] = {}]
    /\ lost' = [lost EXCEPT !.conns = IF Conn(closing).acceptmbox = NULL THEN @
                                     ELSE @ \cup ToSet(Conn(closing).acceptmbox)]
    /\ UNCHANGED hand

----------------------------------------------------------------------------
(* A segment.  The end of a handshake whose listener is freed is left out: *)
(* the code would call back with the netconn that is not there.            *)
Orphan(p) == w.pcb[p].state = "SYN_RCVD" /\ w.pcb[p].arg = STALE
Comes(port, remote, seg, full) ==
    /\ seg \in plan.segs
    /\ seg \in {"ACK", "FINACK"} =>
         \A i \in DOMAIN Receivers(w, port, remote) : ~Orphan(Receivers(w, port, remote)[i])
    /\ w' = tcp_input(w, port, remote, seg, full) /\ w' # w
    /\ UNCHANGED <<sockets, hand, closing, drained, lost, asked>>

Ports == {w.pcb[p].local_port : p \in Listed(w)}

Slowtmr == w' = tcp_slowtmr(w) /\ UNCHANGED <<sockets, hand, closing, drained, lost, asked>>

Calls == \/ netconn_new
         \/ \E c \in hand, fin \in plan.fins : alloc_socket(c, fin)
         \/ \E s \in Socks :
              \/ \E addr \in plan.addrs, port \in plan.ports : lwip_bind(s, addr, port)
              \/ \E remote \in plan.servers : lwip_connect(s, remote)
              \/ plan.listens /\ lwip_listen(s)
              \/ lwip_accept(s)
              \/ \E opt \in plan.options, on \in BOOLEAN : lwip_setsockopt(s, opt, on)
              \/ \E fin \in plan.fins : lwip_close(s, fin)

Closes == FoundEmpty \/ Closed \/ \E fin \in plan.fins : Drained(fin)

Network == \E port \in Ports, remote \in plan.hosts, seg \in plan.segs, full \in {FALSE, plan.full} :
               Comes(port, remote, seg, full)

Next == (Calls \/ Closes \/ Network \/ Slowtmr) /\ UNCHANGED plan

Spec == Init /\ [][Next]_vars

(* What a tick of the timer looks like: nothing gets younger but what      *)
(* ends.  It says no more than Slowtmr, and is there to be read first. *)
LikeTick == /\ UNCHANGED <<plan, sockets, hand, closing, drained, lost, asked>>
            /\ w'.listen = w.listen /\ w'.port = w.port
            /\ \A p \in Pcbs : w'.pcb[p].state = "FREE" \/ w'.pcb[p].age >= w.pcb[p].age

(* A call goes on, and the timer runs: weak fairness of each, written out  *)
(* (Slowtmr changes something when a pcb is active or in TIME_WAIT and not *)
(* yet as old as it gets). *)
Ticks == \E p \in ToSet(Walked(w)) : GivenUp(w.pcb[p]) \/ Ticked(w.pcb[p]) # w.pcb[p]
FairSpec == /\ Spec
            /\ []<>(closing = NULL) \/ []<><<closing # NULL /\ Closes>>_vars
            /\ []<>~Ticks \/ []<><<LikeTick /\ Slowtmr>>_vars

----------------------------------------------------------------------------
Places(p) == Cardinality({i \in DOMAIN w.active : w.active[i] = p})
             + Cardinality({i \in DOMAIN w.tw : w.tw[i] = p})
             + Cardinality({i \in DOMAIN w.listen : w.listen[i] = p})

(* The axioms of tcp.h: a pcb that is not CLOSED is on one of the lists,   *)
(* on one only, and on that of its state; one that is free is on none.     *)
OnOneList ==
    /\ \A p \in Pcbs \cup Lpcbs : Places(p) = IF w.pcb[p].state \in {"FREE", "CLOSED"} THEN 0 ELSE 1
    /\ \A p \in ToSet(w.listen) : w.pcb[p].state = "LISTEN"
    /\ \A p \in ToSet(w.tw) : w.pcb[p].state = "TIME_WAIT"
    /\ \A p \in ToSet(w.active) : w.pcb[p].state \notin {"LISTEN", "TIME_WAIT"}

(* A netconn and its pcb know each other, until both are gone.  Only a pcb *)
(* whose handshake is under way has its listener's netconn, and it alone   *)
(* may keep it longer than it is there. *)
PointersHold ==
    /\ \A c \in Conns : w.conn[c].pcb # NULL => w.conn[c].pcb # STALE /\ w.pcb[w.conn[c].pcb].arg = c
    /\ \A p \in (Pcbs \cup Lpcbs) \ lost.pcbs : w.pcb[p].arg # NULL =>
         \/ w.pcb[p].state = "SYN_RCVD" /\ ~w.pcb[p].errf
         \/ w.pcb[p].arg # STALE /\ w.conn[w.pcb[p].arg].pcb = p

(* A port that tcp_new_port chose serves one connection with each remote   *)
(* port, those in TIME_WAIT counted: two that are alike have a port that   *)
(* was asked for. *)
TuplesAreDistinct ==
    \A p, q \in ToSet(w.active) \cup ToSet(w.tw) :
        p # q /\ Tuple(w, p) = Tuple(w, q) => w.pcb[p].bound \/ w.pcb[q].bound

(* The three together: the lists, the pointers and the demultiplexing of   *)
(* the control blocks are sound. *)
PcbsAreSound == OnOneList /\ PointersHold /\ TuplesAreDistinct

(* Where a netconn is: in a socket, in a thread's hand, or accepted. *)
Holders(c) == Cardinality({s \in Socks : sockets[s] = c}) + (IF c \in hand THEN 1 ELSE 0)
              + Cardinality({d \in Conns : w.conn[d].acceptmbox # NULL
                                            /\ c \in ToSet(w.conn[d].acceptmbox)})

(* Whatever comes and goes, a netconn has one holder, a pcb is some        *)
(* netconn's or ends by itself, and a mailbox belongs to a netconn: but    *)
(* for the mailbox of a socket that found no pcb, the pcb of one that      *)
(* found none to listen with, and a connection that a listener accepts     *)
(* when its socket's close has looked for the last time. *)
NothingElseIsLost ==
    /\ \A c \in Conns : Holders(c) = IF w.conn[c].used /\ c \notin lost.conns THEN 1 ELSE 0
    /\ \A p \in Pcbs \cup Lpcbs :
         w.pcb[p].state = "CLOSED" => p \in lost.pcbs \/ \E c \in Conns : w.conn[c].pcb = p
    /\ w.boxes = lost.boxes + MapThenSumSet(LAMBDA c : BoxesOf(w.conn[c]), Conns)

(* A socket's options are those that were set on it, also after it has     *)
(* become a listener; a connection made anew begins without. *)
OptionsHold ==
    \A s \in Socks : Usable(s) /\ Conn(s).pcb # NULL =>
        \A level \in DOMAIN Levels : \A opt \in plan.options \cap Levels[level] :
            lwip_getsockopt(s, level, opt).val = (opt \in asked[s])

(* A connection is given up for another only when a program asks for one,  *)
(* when there is nothing in TIME_WAIT to give up and nothing free, and it  *)
(* is the one that has been quiet longest: a stranger's SYN never ends it. *)
Gone(p) == p \notin ToSet(w'.active) \/ Tuple(w, p) # Tuple(w', p)
Asked == hand' # hand \/ lost' # lost
GivesWay ==
    [][\A p \in ToSet(w.active) : Gone(p) =>
           /\ Asked => w.tw = <<>> /\ FreeIn(w, Pcbs) = {} /\ p = Quietest(w, w.active)
           /\ \A q \in Pcbs : Tuple(w, q) = Tuple(w', q) \/ w'.pcb[q].state # "SYN_RCVD"]_vars

(* A pcb no timer looks after: nothing it sent is under way, so that       *)
(* nothing is sent again and it is not given up.  Its FIN waits for a      *)
(* window, and there is no persist timer; or a timeout has taken snd_nxt   *)
(* back for good and no ACK is the one it waits for. *)
Unattended(p) == w.pcb[p].state \in Waiting /\ w.pcb[p].fin # "sent"

(* Programs that have no socket get everything back, but for what is lost, *)
(* whatever the other hosts do: unless one goes on sending to a connection *)
(* that waits for its FIN, and but for the pcbs that are unattended. *)
Heard(p) == w.pcb[p].state = "FIN_WAIT_2" /\ w.pcb[p].age = 0
Kept(p) == p \in lost.pcbs \/ w.pcb[p].arg \in lost.conns \/ Unattended(p)
AllComesBack ==
    []<>(\/ Open # {} \/ hand # {} \/ \E p \in Pcbs : Heard(p)
         \/ /\ \A p \in Pcbs \cup Lpcbs : w.pcb[p].state = "FREE" \/ Kept(p)
            /\ \A c \in Conns : w.conn[c].used => c \in lost.conns)

(* With SO_KEEPALIVE a peer that is silent does not stay: it is heard      *)
(* again, or the connection ends. *)
Silent(p) == /\ w.pcb[p].state \in {"ESTABLISHED", "CLOSE_WAIT"}
             /\ "KEEPALIVE" \in w.pcb[p].opts /\ w.pcb[p].age > 0
SilenceEnds == \A p \in Pcbs : []<>~Silent(p)

(* Both. *)
EndsAreReached == AllComesBack /\ SilenceEnds
=============================================================================
