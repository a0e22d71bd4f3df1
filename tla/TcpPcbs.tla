------------------------------ MODULE TcpPcbs ------------------------------
(***************************************************************************)
(* The control blocks of TCP, core/tcp.c: the two pools they come from,    *)
(* the three lists they are on, how they are bound, and who has to give    *)
(* way when there are none left.  What a segment does to one (core/        *)
(* tcp_in.c) is here as far as its state and its lists go, and so are the  *)
(* callbacks of api/api_msg.c, which tell the connection it belongs to.    *)
(*                                                                         *)
(* The operators work on a world w, a record of                            *)
(*   pcb      number -> control block; the first MEMP_NUM_TCP_PCB are      *)
(*            those of MEMP_TCP_PCB, the others of MEMP_TCP_PCB_LISTEN     *)
(*   active, tw, listen   the lists                                        *)
(*   port     what tcp_new_port gave last                                  *)
(*   conn     number -> netconn                                            *)
(*   boxes    how many mailboxes there are.                                *)
(* STALE is not the program's: it stands for a pointer to what is freed.   *)
(***************************************************************************)
EXTENDS Naturals, Sequences, FiniteSets, SequencesExt, FiniteSetsExt

CONSTANTS MEMP_NUM_TCP_PCB, MEMP_NUM_TCP_PCB_LISTEN, MEMP_NUM_NETCONN,
          TCP_LOCAL_PORT_RANGE_START, TCP_LOCAL_PORT_RANGE_END,
          TCP_SYNMAXRTX, TCP_MAXRTX,
          TCP_FIN_WAIT_TIMEOUT, TCP_SYN_RCVD_TIMEOUT, TCP_MSL,   \* in slow ticks
          TCP_KEEPDEFAULT, TCP_KEEPINTVL, TCP_KEEPCNT,           \* in slow ticks
          NULL, STALE, ANY, ME    \* no pointer, a bad one; addresses

ASSUME TcpPcbsAssumption ==
    /\ MEMP_NUM_TCP_PCB \in Nat \ {0} /\ MEMP_NUM_TCP_PCB_LISTEN \in Nat \ {0}
    /\ MEMP_NUM_NETCONN \in Nat \ {0}
    /\ TCP_LOCAL_PORT_RANGE_END - TCP_LOCAL_PORT_RANGE_START + 1
         >= MEMP_NUM_TCP_PCB + MEMP_NUM_TCP_PCB_LISTEN
    /\ {TCP_SYNMAXRTX, TCP_MAXRTX, TCP_FIN_WAIT_TIMEOUT, TCP_SYN_RCVD_TIMEOUT,
        TCP_MSL, TCP_KEEPDEFAULT, TCP_KEEPINTVL, TCP_KEEPCNT} \subseteq Nat

Pcbs == 1 .. MEMP_NUM_TCP_PCB
Lpcbs == MEMP_NUM_TCP_PCB + 1 .. MEMP_NUM_TCP_PCB + MEMP_NUM_TCP_PCB_LISTEN
Conns == 1 .. MEMP_NUM_NETCONN

(* The longest that anything waits for; "age" stops there. *)
MaxAge == Max({TCP_FIN_WAIT_TIMEOUT, TCP_SYN_RCVD_TIMEOUT, 2 * TCP_MSL,
               TCP_KEEPDEFAULT + TCP_KEEPCNT * TCP_KEEPINTVL})

(* struct tcp_pcb.  "age" is tcp_ticks - tmr, "tries" nrtx, "keep"         *)
(* keep_cnt; "opts" holds so_options and TF_NODELAY; "errf" is whether the *)
(* callbacks of setup_tcp are set.  "bound" remembers that the port was    *)
(* asked for by number.  "fin" is how the end of what it sends stands,     *)
(* while it waits for that to be acknowledged: "sent"; "held" on unsent by *)
(* the other side's window, nothing being under way; "behind" when all is  *)
(* acknowledged and snd_nxt is not there. *)
NoPcb == [state |-> "FREE", local_ip |-> ANY, local_port |-> 0, remote |-> NULL, opts |-> {},
          arg |-> NULL, errf |-> FALSE, age |-> 0, tries |-> 0, keep |-> 0, bound |-> FALSE,
          fin |-> "sent"]

(* struct netconn; "wait" is whether its program waits for a connection,   *)
(* "boxes" the mailboxes it holds. *)
NoConn == [used |-> FALSE, pcb |-> NULL, acceptmbox |-> NULL, recv |-> FALSE, wait |-> FALSE]
BoxesOf(k) == IF k.used THEN 1 + (IF k.recv THEN 1 ELSE 0) + (IF k.acceptmbox = NULL THEN 0 ELSE 1)
              ELSE 0

EmptyWorld == [pcb |-> [p \in Pcbs \cup Lpcbs |-> NoPcb], active |-> <<>>, tw |-> <<>>,
               listen |-> <<>>, port |-> TCP_LOCAL_PORT_RANGE_START,
               conn |-> [c \in Conns |-> NoConn], boxes |-> 0]

FreeIn(w, pool) == {p \in pool : w.pcb[p].state = "FREE"}
Listed(w) == ToSet(w.active) \cup ToSet(w.tw) \cup ToSet(w.listen)

----------------------------------------------------------------------------
(* Lists and pools. *)

TCP_REG(list, p) == <<p>> \o list
TCP_RMV(list, p) == SelectSeq(list, LAMBDA q : q # p)
ToFront(list, p) == TCP_REG(TCP_RMV(list, p), p)

FreePcb(w, p) == [w EXCEPT !.pcb[p] = NoPcb,
                           !.conn = [c \in Conns |-> IF @[c].pcb = p THEN [@[c] EXCEPT !.pcb = STALE]
                                                     ELSE @[c]]]
FreeConn(w, c) == [w EXCEPT !.conn[c] = NoConn, !.boxes = @ - BoxesOf(w.conn[c]),
                            !.pcb = [p \in DOMAIN @ |-> IF @[p].arg = c THEN [@[p] EXCEPT !.arg = STALE]
                                                        ELSE @[p]]]

(* tcp_pcb_remove and memp_free; the pcb is on one list at most. *)
Drop(w, p) == FreePcb([w EXCEPT !.active = TCP_RMV(@, p), !.tw = TCP_RMV(@, p),
                                !.listen = TCP_RMV(@, p)], p)

(* err_tcp, by way of TCP_EVENT_ERR: the answer wakes a connect. *)
err_tcp(w, p) ==
    IF w.pcb[p].errf THEN [w EXCEPT !.conn[w.pcb[p].arg].pcb = NULL,
                                    !.conn[w.pcb[p].arg].wait = FALSE]
    ELSE w

(* The program frees the pcb before it tells the connection. *)
tcp_abort(w, p) == IF w.pcb[p].state = "TIME_WAIT" THEN Drop(w, p) ELSE Drop(err_tcp(w, p), p)

(* The pcb that has been quiet longest, of equals the last on the list. *)
Quietest(w, list) ==
    LET i == CHOOSE i \in DOMAIN list :
               /\ \A j \in DOMAIN list : w.pcb[list[j]].age <= w.pcb[list[i]].age
               /\ \A j \in i + 1 .. Len(list) : w.pcb[list[j]].age < w.pcb[list[i]].age
    IN  list[i]

tcp_kill_timewait(w) == IF w.tw = <<>> THEN w ELSE tcp_abort(w, Quietest(w, w.tw))

(* Every pcb has TCP_PRIO_NORMAL. *)
TCP_PRIO_NORMAL == 64
tcp_kill_prio(w, prio) == IF w.active = <<>> \/ TCP_PRIO_NORMAL > prio THEN w
                          ELSE tcp_abort(w, Quietest(w, w.active))

(* Mutant of MakeRoom: connections go before what is in TIME_WAIT. *)
RoomAtOnce(w, prio) ==
    LET one == tcp_kill_prio(w, prio)
    IN  IF FreeIn(w, Pcbs) # {} THEN w
        ELSE IF FreeIn(one, Pcbs) # {} THEN one ELSE tcp_kill_timewait(one)

MakeRoom(w, prio) ==
    LET one == tcp_kill_timewait(w)
    IN  IF FreeIn(w, Pcbs) # {} THEN w
        ELSE IF FreeIn(one, Pcbs) # {} THEN one ELSE tcp_kill_prio(one, prio)

(* What comes of it: the world, and the pcb or NULL. *)
tcp_alloc(w, prio) ==
    LET room == MakeRoom(w, prio)
        free == FreeIn(room, Pcbs)
    IN  IF free = {} THEN [w |-> room, p |-> NULL]
        ELSE [w |-> [room EXCEPT !.pcb[Min(free)] = [NoPcb EXCEPT !.state = "CLOSED"]],
              p |-> Min(free)]

----------------------------------------------------------------------------
(* Ports and addresses. *)

Ephemeral == TCP_LOCAL_PORT_RANGE_START .. TCP_LOCAL_PORT_RANGE_END
After(port, n) == TCP_LOCAL_PORT_RANGE_START
                  + ((port - TCP_LOCAL_PORT_RANGE_START + n) % Cardinality(Ephemeral))

(* Mutant of PortsInUse: TIME_WAIT is forgotten. *)
PortsActive(w) == {w.pcb[p].local_port : p \in ToSet(w.active) \cup ToSet(w.listen)}

PortsInUse(w) == {w.pcb[p].local_port : p \in Listed(w)}

(* The next one, round the range, that no pcb on a list has. *)
tcp_new_port(w) ==
    After(w.port, Min({n \in 1 .. Cardinality(Ephemeral) : After(w.port, n) \notin PortsInUse(w)}))

(* What tcp_bind, with SO_REUSE, refuses: mine are the options of the pcb, *)
(* q is another one with the same port. *)
Shares(mine, q) == "REUSEPORT" \in mine /\ "REUSEPORT" \in q.opts
Clashes(mine, ipaddr, q) ==
    IF q.local_ip = ipaddr THEN ~Shares(mine, q)
    ELSE ANY \in {q.local_ip, ipaddr} /\ mine \cap {"REUSEADDR", "REUSEPORT"} = {}
ClashesInTw(mine, ipaddr, q) ==
    /\ q.local_ip = ipaddr
    /\ \/ mine \cap {"REUSEADDR", "REUSEPORT"} = {}
       \/ "REUSEPORT" \in mine /\ "REUSEPORT" \notin q.opts

(* 0 asks for any port. *)
tcp_bind(w, p, ipaddr, wanted) ==
    LET port == IF wanted = 0 THEN tcp_new_port(w) ELSE wanted
        mine == w.pcb[p].opts
        with(list) == {w.pcb[q] : q \in {r \in ToSet(list) : w.pcb[r].local_port = port}}
        used == \/ \E q \in with(w.listen) \cup with(w.active) : Clashes(mine, ipaddr, q)
                \/ \E q \in with(w.tw) : ClashesInTw(mine, ipaddr, q)
        now == [w EXCEPT !.port = IF wanted = 0 THEN port ELSE @]
    IN  IF used THEN now
        ELSE [now EXCEPT !.pcb[p].local_port = port, !.pcb[p].bound = TRUE,
                         !.pcb[p].local_ip = IF ipaddr = ANY THEN @ ELSE ipaddr]

(* The pcb is given back for one of the other pool; with none there the    *)
(* caller has lost it. *)
tcp_listen(w, p) ==
    IF w.pcb[p].state = "LISTEN" THEN [w |-> w, p |-> p]
    ELSE IF FreeIn(w, Lpcbs) = {} THEN [w |-> w, p |-> NULL]
    ELSE LET l == Min(FreeIn(w, Lpcbs))
         IN  [w |-> [w EXCEPT !.pcb[l] = [NoPcb EXCEPT !.state = "LISTEN",
                                               !.local_ip = w.pcb[p].local_ip,
                                               !.local_port = w.pcb[p].local_port,
                                               !.opts = (w.pcb[p].opts \ {"NODELAY"}) \cup {"ACCEPTCONN"},
                                               !.arg = w.pcb[p].arg, !.bound = w.pcb[p].bound],
                              !.pcb[p] = NoPcb, !.listen = TCP_REG(@, l)],
              p |-> l]

(* The SYN leaves by the one interface there is. *)
tcp_connect(w, p, remote) ==
    LET port == IF w.pcb[p].local_port = 0 THEN tcp_new_port(w) ELSE w.pcb[p].local_port
    IN  [w EXCEPT !.port = IF w.pcb[p].local_port = 0 THEN port ELSE @,
                  !.pcb[p].local_port = port, !.pcb[p].local_ip = ME,
                  !.pcb[p].remote = remote, !.pcb[p].state = "SYN_SENT", !.pcb[p].tries = 0,
                  !.active = TCP_REG(@, p)]

----------------------------------------------------------------------------
(* Closing. *)

(* Mutant of tcp_close: the other side having closed is forgotten. *)
CloseOneWay(w, p, fin) ==
    CASE w.pcb[p].state \in {"CLOSED", "LISTEN", "SYN_SENT"} -> [w |-> Drop(w, p), ok |-> TRUE]
      [] w.pcb[p].state \in {"SYN_RCVD", "ESTABLISHED"} /\ fin # "none" ->
           [w |-> [w EXCEPT !.pcb[p].state = "FIN_WAIT_1", !.pcb[p].fin = fin], ok |-> TRUE]
      [] w.pcb[p].state \in {"SYN_RCVD", "ESTABLISHED"} /\ fin = "none" -> [w |-> w, ok |-> FALSE]
      [] OTHER -> [w |-> w, ok |-> TRUE]

(* The FIN is sent or held, or there is no memory for one. *)
tcp_close(w, p, fin) ==
    LET state == w.pcb[p].state
        becomes(new) == IF fin = "none" THEN [w |-> w, ok |-> FALSE]
                        ELSE [w |-> [w EXCEPT !.pcb[p].state = new, !.pcb[p].tries = 0,
                                              !.pcb[p].fin = fin], ok |-> TRUE]
    IN  CASE state \in {"CLOSED", "LISTEN", "SYN_SENT"} -> [w |-> Drop(w, p), ok |-> TRUE]
          [] state \in {"SYN_RCVD", "ESTABLISHED"} -> becomes("FIN_WAIT_1")
          [] state = "CLOSE_WAIT" -> becomes("LAST_ACK")
          [] OTHER -> [w |-> w, ok |-> TRUE]

(* Mutant of Disowned: the pcb keeps its connection. *)
StillOwned(w, p) == w

(* What do_delconn sets to NULL. *)
Disowned(w, p) == [w EXCEPT !.pcb[p].arg = NULL, !.pcb[p].errf = FALSE]

do_delconn(w, c, fin) ==
    LET p == w.conn[c].pcb
        gone == Disowned(w, p)
        closed == tcp_close([gone EXCEPT !.conn[c].pcb = NULL], p, fin)
    IN  IF p = NULL THEN w
        ELSE IF closed.ok THEN closed.w ELSE tcp_abort(closed.w, p)

(* netconn_delete of one that has no acceptmbox. *)
DeletePending(w, c, fin) == FreeConn(do_delconn(w, c, fin), c)

----------------------------------------------------------------------------
(* Input, and the callbacks it makes. *)

(* Mutant of ListenerPrio: it is that of the other pcbs. *)
ListenerPrioNormal == TCP_PRIO_NORMAL

(* The priority of a listener is never set: its field is 0 from the start. *)
ListenerPrio == 0

(* A SYN.  The new pcb has the listener's argument, and with it its        *)
(* connection, until accept_function gives it its own. *)
tcp_listen_input(w, l, remote) ==
    LET new == tcp_alloc([w EXCEPT !.listen = ToFront(@, l)], ListenerPrio)
        p == new.p
    IN  IF p = NULL THEN new.w
        ELSE [new.w EXCEPT !.pcb[p] = [@ EXCEPT !.state = "SYN_RCVD", !.local_ip = ME,
                                           !.local_port = w.pcb[l].local_port, !.remote = remote,
                                           !.opts = w.pcb[l].opts \cap {"KEEPALIVE"},
                                           !.arg = w.pcb[l].arg],
                           !.active = TCP_REG(@, p)]

(* The handshake is complete: there is a new connection for the pcb, or    *)
(* the connection is aborted. *)
accept_function(w, p) ==
    LET c == Min({d \in Conns : ~w.conn[d].used})
        new == [NoConn EXCEPT !.used = TRUE, !.pcb = p, !.recv = TRUE]
    IN  IF \A d \in Conns : w.conn[d].used THEN tcp_abort(w, p)
        ELSE [w EXCEPT !.conn = [@ EXCEPT ![c] = new, ![w.pcb[p].arg].acceptmbox = Append(@, c)],
                       !.boxes = @ + BoxesOf(new),
                       !.pcb[p].arg = c, !.pcb[p].errf = TRUE]

(* Mutant of ToTimeWait: the pcb stays on the list of the active ones. *)
AlsoTimeWait(w, p) == [w EXCEPT !.pcb[p].state = "TIME_WAIT", !.tw = TCP_REG(@, p)]

ToTimeWait(w, p) == [w EXCEPT !.pcb[p].state = "TIME_WAIT", !.active = TCP_RMV(@, p),
                              !.tw = TCP_REG(@, p)]

(* What tcp_receive does for one that waits for its FIN's ACK; "full" is   *)
(* that the window keeps segments back.  A window that opens lets a FIN    *)
(* out.  An ACK for all, when a timeout has taken segments back and not    *)
(* all of them have left again, takes them off unsent, and with the last   *)
(* one snd_nxt stays where it was: nothing brings it on any more. *)
Received(q, seg, full) ==
    LET acks == seg \in {"ACK", "FINACK"}
    IN  CASE q.fin = "held" /\ seg = "FIN" /\ ~full -> [q EXCEPT !.fin = "sent", !.tries = 0]
          [] q.fin = "sent" /\ acks /\ full /\ q.tries > 0 -> [q EXCEPT !.fin = "behind", !.tries = 0]
          [] acks -> [q EXCEPT !.tries = 0]
          [] OTHER -> q

(* tcp_process, with what tcp_input does about its flags.  "ACK" is one    *)
(* that acknowledges all that was sent, "FIN" does not, "FINACK" does.     *)
(* The last states end when ackno is snd_nxt. *)
tcp_process(w, p, seg, full) ==
    LET state == w.pcb[p].state
        heard == [w EXCEPT !.pcb[p].age = 0, !.pcb[p].keep = 0]
        acked == [heard EXCEPT !.pcb[p].tries = 0]
        received == [heard EXCEPT !.pcb[p] = Received(@, seg, full)]
        meets == seg \in {"ACK", "FINACK"} /\ received.pcb[p].fin # "behind"
        becomes(v, new) == [v EXCEPT !.pcb[p].state = new]
    IN  CASE seg = "RST" -> Drop(err_tcp(w, p), p)
          [] state = "SYN_SENT" ->
               IF seg # "SYNACK" THEN heard
               ELSE [becomes(acked, "ESTABLISHED") EXCEPT !.conn[w.pcb[p].arg].wait = FALSE]
          [] state = "SYN_RCVD" ->
               IF seg \in {"ACK", "FINACK"} THEN accept_function(becomes(acked, "ESTABLISHED"), p)
               ELSE heard
          [] state = "ESTABLISHED" ->
               IF seg \in {"FIN", "FINACK"} THEN becomes(heard, "CLOSE_WAIT") ELSE heard
          [] state = "FIN_WAIT_1" ->
               CASE seg = "FINACK" /\ meets -> ToTimeWait(received, p)
                 [] seg \in {"FIN", "FINACK"} /\ ~meets -> becomes(received, "CLOSING")
                 [] seg = "ACK" /\ meets -> becomes(received, "FIN_WAIT_2")
                 [] OTHER -> received
          [] state = "FIN_WAIT_2" -> IF seg \in {"FIN", "FINACK"} THEN ToTimeWait(acked, p) ELSE heard
          [] state = "CLOSING" -> IF meets THEN ToTimeWait(received, p) ELSE received
          [] state = "LAST_ACK" -> IF meets THEN Drop(w, p) ELSE received
          [] OTHER -> heard

(* Which pcb a segment is for. *)
Tuple(w, p) == <<w.pcb[p].local_ip, w.pcb[p].local_port, w.pcb[p].remote>>
Matching(w, list, port, remote) ==
    SelectSeq(list, LAMBDA p : Tuple(w, p) = <<ME, port, remote>>)

(* Of the active ones the first, and the next as long as they have         *)
(* SO_REUSEPORT. *)
Receivers(w, port, remote) ==
    LET own == Matching(w, w.active, port, remote)
    IN  SelectSeq(own, LAMBDA p : \A i \in DOMAIN own :
                           own[i] = p => \A j \in 1 .. i - 1 : "REUSEPORT" \in w.pcb[own[j]].opts)

(* An active one is brought to the front; one in TIME_WAIT only answers;   *)
(* then it is for a listener. *)
tcp_input(w, port, remote, seg, full) ==
    LET own == Receivers(w, port, remote)
        mine == SelectSeq(w.listen, LAMBDA l : w.pcb[l].local_port = port)
        one(v, p) == tcp_process([v EXCEPT !.active = ToFront(@, p)], p, seg, full)
    IN  IF own # <<>> THEN FoldLeft(one, w, own)
        ELSE IF Matching(w, w.tw, port, remote) # <<>> \/ mine = <<>> \/ seg # "SYN" THEN w
        ELSE tcp_listen_input(w, Head(mine), remote)

----------------------------------------------------------------------------
(* tcp_slowtmr: each try is one tick here.  Where nothing is under way     *)
(* nothing is tried. *)

Waiting == {"SYN_SENT", "SYN_RCVD", "FIN_WAIT_1", "CLOSING", "LAST_ACK"}

Ticked(q) ==
    LET keeps == "KEEPALIVE" \in q.opts /\ q.state \in {"ESTABLISHED", "CLOSE_WAIT"}
        age == IF q.age = MaxAge THEN q.age ELSE q.age + 1
        asks == keeps /\ age > TCP_KEEPDEFAULT + q.keep * TCP_KEEPINTVL
    IN  [q EXCEPT !.age = age, !.tries = IF q.state \in Waiting /\ q.fin = "sent" THEN @ + 1 ELSE @,
                  !.keep = IF asks /\ @ <= TCP_KEEPCNT THEN @ + 1 ELSE @]

(* Mutant of GivenUp: a peer that does not answer is never given up. *)
GivenUpNoKeep(q) ==
    CASE q.state = "SYN_SENT" -> q.tries = TCP_SYNMAXRTX
      [] q.state = "SYN_RCVD" -> q.tries = TCP_MAXRTX \/ q.age >= TCP_SYN_RCVD_TIMEOUT
      [] q.state = "FIN_WAIT_2" -> q.age >= TCP_FIN_WAIT_TIMEOUT
      [] q.state \in Waiting -> q.tries = TCP_MAXRTX
      [] q.state = "TIME_WAIT" -> q.age >= 2 * TCP_MSL
      [] OTHER -> FALSE

(* Mutant of GivenUp: the other side's FIN is waited for. *)
GivenUpNotFin2(q) ==
    CASE q.state = "SYN_SENT" -> q.tries = TCP_SYNMAXRTX
      [] q.state = "SYN_RCVD" -> q.tries = TCP_MAXRTX \/ q.age >= TCP_SYN_RCVD_TIMEOUT
      [] q.state \in Waiting -> q.tries = TCP_MAXRTX
      [] q.state = "TIME_WAIT" -> q.age >= 2 * TCP_MSL
      [] q.state \in {"ESTABLISHED", "CLOSE_WAIT"} /\ "KEEPALIVE" \in q.opts ->
           q.age >= TCP_KEEPDEFAULT + TCP_KEEPCNT * TCP_KEEPINTVL
      [] OTHER -> FALSE

(* What a tick ends: q is the pcb before it. *)
GivenUp(q) ==
    CASE q.state = "SYN_SENT" -> q.tries = TCP_SYNMAXRTX
      [] q.state = "SYN_RCVD" -> q.tries = TCP_MAXRTX \/ q.age >= TCP_SYN_RCVD_TIMEOUT
      [] q.state = "FIN_WAIT_2" -> q.age >= TCP_FIN_WAIT_TIMEOUT
      [] q.state \in Waiting \ {"SYN_SENT", "SYN_RCVD"} -> q.tries = TCP_MAXRTX
      [] q.state = "TIME_WAIT" -> q.age >= 2 * TCP_MSL
      [] q.state \in {"ESTABLISHED", "CLOSE_WAIT"} /\ "KEEPALIVE" \in q.opts ->
           q.age >= TCP_KEEPDEFAULT + TCP_KEEPCNT * TCP_KEEPINTVL
      [] OTHER -> FALSE

Quiet(q) == q.state \in {"ESTABLISHED", "CLOSE_WAIT"} /\ GivenUp(q)

(* The walk along the active ones stops behind one that does not answer    *)
(* any more, for tcp_abort has cleared its link. *)
Walked(w) ==
    LET quiet == {i \in DOMAIN w.active : Quiet(w.pcb[w.active[i]])}
    IN  (IF quiet = {} THEN w.active ELSE SubSeq(w.active, 1, Min(quiet))) \o w.tw

tcp_slowtmr(w) ==
    LET on == ToSet(Walked(w))
        over == {p \in on : GivenUp(w.pcb[p])}
        end(v, p) == Drop(IF v.pcb[p].state = "TIME_WAIT" THEN v ELSE err_tcp(v, p), p)
        rest == FoldLeft(LAMBDA v, p : IF p \in over THEN end(v, p) ELSE v, w, Walked(w))
    IN  [rest EXCEPT !.pcb = [p \in DOMAIN @ |-> IF p \in on \ over THEN Ticked(@[p]) ELSE @[p]]]
=============================================================================
