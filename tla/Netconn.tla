------------------------------ MODULE Netconn ------------------------------
(***************************************************************************)
(* The calls of api/api_lib.c on TCP connections, the messages they send   *)
(* to the tcpip thread (api/tcpip.c), and what it does with them           *)
(* (api/api_msg.c).  Each connection belongs to one application thread,    *)
(* which is named like it.                                                 *)
(*                                                                         *)
(* The TCP connection itself is what these modules see of it: its state,   *)
(* how much it can take for sending, and its callbacks.  The answers, which *)
(* are NULL messages in the code, carry here the call they answer.         *)
(***************************************************************************)
EXTENDS Integers, Sequences, FiniteSets

CONSTANTS Conns,
          MEMP_NUM_API_MSG,
          MaxInput,    \* bound: packets that wait in the mailbox
          Setups       \* what may be going on: a set of records

(* A setup: the connections that are used, MEMP_NUM_TCPIP_MSG, what the    *)
(* send buffer holds (in units of a write), how much an application writes *)
(* with one call, the calls for which TCP may be out of memory, and the    *)
(* bounds on the calls of one application, on how often TCP is out of      *)
(* memory and on the connections that are reset. *)
ASSUME NetconnAssumption ==
    /\ MEMP_NUM_API_MSG \in Nat /\ MaxInput \in Nat
    /\ \A s \in Setups :
        /\ s.conns \subseteq Conns
        /\ s.sndBuf \in Nat \ {0} /\ s.writeSize \in Nat \ {0}
        /\ s.shortage \subseteq {"NEWCONN", "CONNECT", "WRITE"}
        /\ {s.tcpips, s.maxCalls, s.maxShort, s.maxErrors} \subseteq Nat

VARIABLES setup,         \* the one of Setups that is used
          apis,          \* the pool of API messages
          tcpips,        \* how many tcpip messages are free
          mbox,          \* of the tcpip thread: [msg, type, conn, len]
          handled,       \* the API message it has handled and not yet freed
          conn,          \* struct netconn
          app,           \* the application threads
          calls, short, errors,
          twice          \* history: a write has gone round its loop again

pools == <<apis, tcpips, mbox>>
bounds == <<short, errors>>
vars == <<setup, apis, tcpips, mbox, handled, conn, app, calls, short, errors, twice>>

MEMP_NUM_TCPIP_MSG == setup.tcpips
SndBuf == setup.sndBuf
Shortage == setup.shortage

----------------------------------------------------------------------------
(* One of the fixed pools of core/memp.c: a list of free blocks, linked    *)
(* through the blocks themselves.  A pool is a record [head, next].  The   *)
(* blocks are 1 .. n, and 0 is NULL.                                       *)

NULL == 0

memp_init(n) == [head |-> IF n = 0 THEN NULL ELSE 1,
                 next |-> [b \in 1 .. n |-> IF b = n THEN NULL ELSE b + 1]]

IsEmpty(p) == p.head = NULL

(* The pool without its first block, which is the one given out. *)
Taken(p) == [head |-> p.next[p.head], next |-> [p.next EXCEPT ![p.head] = NULL]]

(* The pool with a block put back, whether or not it is there already. *)
memp_free(p, b) == [head |-> b, next |-> [p.next EXCEPT ![b] = p.head]]

(* A set of blocks that one does not leave along the list. *)
Closed(p, S) == /\ p.head # NULL => p.head \in S
                /\ \A b \in S : p.next[b] # NULL => p.next[b] \in S

(* The blocks on the list: the least such set. *)
Free(p) == {b \in DOMAIN p.next : \A S \in SUBSET DOMAIN p.next : Closed(p, S) => b \in S}

(* The assertion of memp_free: no block is on the list twice, so that it   *)
(* has an end. *)
memp_sanity(p) == IsEmpty(p) \/ \E b \in Free(p) : p.next[b] = NULL

----------------------------------------------------------------------------
(* "sem" is how often it has been signalled, or -1 when there is none;     *)
(* "open" is whether there is a recvmbox.  "owed" is what the application  *)
(* has taken and TCP has not been told of. *)
NewConn == [exists |-> TRUE, pcb |-> "NONE", sndbuf |-> 0, err |-> "OK", state |-> "NONE",
            mbox |-> <<>>, open |-> FALSE, recvmbox |-> <<>>, sem |-> -1, owed |-> 0]

(* What a thread is doing: in a write, its message, what is left and what  *)
(* has been asked for. *)
Idle == [pc |-> "idle", type |-> "NEWCONN", msg |-> NULL, size |-> 0, len |-> 0]

Init == /\ setup \in Setups
        /\ apis = memp_init(MEMP_NUM_API_MSG) /\ tcpips = MEMP_NUM_TCPIP_MSG
        /\ mbox = <<>> /\ handled = NULL
        /\ conn = [c \in Conns |-> [NewConn EXCEPT !.exists = FALSE]]
        /\ app = [c \in Conns |-> Idle]
        /\ calls = [c \in Conns |-> 0] /\ short = 0 /\ errors = 0 /\ twice = FALSE

----------------------------------------------------------------------------
(* Messages to the tcpip thread. *)
Input == [msg |-> NULL, type |-> "INPUT"]

(* Mutant of Post: the block is freed in either case. *)
PostFreeing(c, pool, b, type, len) ==
    /\ apis' = memp_free(pool, b)
    /\ IF tcpips = 0 THEN UNCHANGED <<tcpips, mbox>>
       ELSE /\ tcpips' = tcpips - 1
            /\ mbox' = Append(mbox, [msg |-> b, type |-> type, conn |-> c, len |-> len])

(* tcpip_apimsg, given the pool of API messages: with no tcpip message to  *)
(* carry it, the API message is freed and nobody is told. *)
Post(c, pool, b, type, len) ==
    IF tcpips = 0
    THEN apis' = memp_free(pool, b) /\ UNCHANGED <<tcpips, mbox>>
    ELSE /\ apis' = pool
         /\ tcpips' = tcpips - 1
         /\ mbox' = Append(mbox, [msg |-> b, type |-> type, conn |-> c, len |-> len])

(* The common part of all calls but netconn_write. *)
Send(c, type, len) == Post(c, Taken(apis), apis.head, type, len)

Waits(c, type) == app' = [app EXCEPT ![c] = [Idle EXCEPT !.pc = "waiting", !.type = type]]
Returns(c) == app' = [app EXCEPT ![c] = Idle]

(* tcpip_input, which the driver calls. *)
tcpip_input ==
    /\ tcpips > 0
    /\ Cardinality({i \in DOMAIN mbox : mbox[i] = Input}) < MaxInput
    /\ tcpips' = tcpips - 1
    /\ mbox' = Append(mbox, Input)
    /\ UNCHANGED <<apis, handled, conn, app, calls, bounds>>

----------------------------------------------------------------------------
(* The calls of an application. *)

Begins(c) == /\ app[c].pc = "idle" /\ c \in setup.conns /\ calls[c] < setup.maxCalls
             /\ calls' = [calls EXCEPT ![c] = @ + 1]
             /\ UNCHANGED <<handled, bounds>>

netconn_new(c) ==
    /\ ~conn[c].exists /\ Begins(c)
    /\ IF IsEmpty(apis) THEN UNCHANGED <<pools, conn, app>>
       ELSE /\ conn' = [conn EXCEPT ![c] = NewConn]
            /\ Send(c, "NEWCONN", 0) /\ Waits(c, "NEWCONN")

netconn_connect(c) ==
    /\ conn[c].exists /\ conn[c].pcb = "CLOSED" /\ Begins(c)
    /\ conn' = [conn EXCEPT ![c] = [@ EXCEPT !.open = TRUE]]
    /\ IF IsEmpty(apis) THEN UNCHANGED <<pools, app>>
       ELSE Send(c, "CONNECT", 0) /\ Waits(c, "CONNECT")

netconn_close(c) ==
    /\ conn[c].exists /\ Begins(c)
    /\ IF IsEmpty(apis)
       THEN /\ conn' = [conn EXCEPT ![c] = [@ EXCEPT !.state = "CLOSE", !.err = "MEM"]]
            /\ UNCHANGED <<pools, app>>
       ELSE /\ conn' = [conn EXCEPT ![c] = [@ EXCEPT !.state = "CLOSE"]]
            /\ Send(c, "CLOSE", 0) /\ Waits(c, "CLOSE")

(* Mutant of netconn_delete: it does not wait for the stack. *)
DeleteAtOnce(c) ==
    /\ conn[c].exists /\ Begins(c)
    /\ IF IsEmpty(apis) THEN UNCHANGED <<pools, conn>>
       ELSE Send(c, "DELCONN", 0) /\ conn' = [conn EXCEPT ![c] = [NewConn EXCEPT !.exists = FALSE]]
    /\ UNCHANGED app

netconn_delete(c) ==
    /\ conn[c].exists /\ Begins(c)
    /\ IF IsEmpty(apis) THEN UNCHANGED <<pools, app>>
       ELSE Send(c, "DELCONN", 0) /\ Waits(c, "DELCONN")
    /\ UNCHANGED conn

netconn_recv(c) ==
    /\ conn[c].exists /\ Begins(c)
    /\ IF ~conn[c].open THEN conn' = [conn EXCEPT ![c] = [@ EXCEPT !.err = "CONN"]] /\ UNCHANGED app
       ELSE /\ app' = IF conn[c].err = "OK" THEN [app EXCEPT ![c] = [@ EXCEPT !.pc = "recv"]] ELSE app
            /\ UNCHANGED conn
    /\ UNCHANGED pools

(* It goes on when there is something in recvmbox. *)
Receive(c) ==
    /\ app[c].pc = "recv" /\ conn[c].recvmbox # <<>>
    /\ LET p == Head(conn[c].recvmbox)
           k == [conn[c] EXCEPT !.recvmbox = Tail(@)]
       IN  IF p = "END"
           THEN /\ conn' = [conn EXCEPT ![c] = [k EXCEPT !.open = FALSE, !.recvmbox = <<>>]]
                /\ Returns(c) /\ UNCHANGED pools
           ELSE IF IsEmpty(apis)
           THEN /\ conn' = [conn EXCEPT ![c] = [k EXCEPT !.owed = @ + 1, !.err = "MEM"]]
                /\ Returns(c) /\ UNCHANGED pools
           ELSE /\ conn' = [conn EXCEPT ![c] = [k EXCEPT !.owed = @ + 1]]
                /\ Send(c, "RECV", 1) /\ Waits(c, "RECV")
    /\ UNCHANGED <<handled, calls, bounds>>

(* The message of a write is used for all parts of it. *)
netconn_write(c) ==
    /\ conn[c].exists /\ conn[c].pcb # "CLOSED" /\ conn[c].err = "OK" /\ Begins(c)
    /\ LET k == [conn[c] EXCEPT !.sem = IF @ = -1 THEN 0 ELSE @]
       IN  conn' = [conn EXCEPT ![c] = IF IsEmpty(apis) THEN [k EXCEPT !.err = "MEM"]
                                       ELSE [k EXCEPT !.state = "WRITE"]]
    /\ IF IsEmpty(apis) THEN UNCHANGED <<apis, app>>
       ELSE /\ apis' = Taken(apis)
            /\ app' = [app EXCEPT ![c] = [pc |-> "write", type |-> "WRITE", msg |-> apis.head,
                                          size |-> setup.writeSize, len |-> 0]]
    /\ UNCHANGED <<tcpips, mbox>>

(* What tcp_sndbuf finds; behind a pcb that is gone, anything. *)
Room(c) == IF conn[c].pcb = "NONE" THEN 0 .. SndBuf ELSE {conn[c].sndbuf}

Written(k) == [k EXCEPT !.state = "NONE", !.sem = -1]
EndWrite(c) == Returns(c) /\ conn' = [conn EXCEPT ![c] = Written(@)]

PostWrite(c, room) ==
    LET len == IF app[c].size > room THEN room ELSE app[c].size
    IN  /\ Post(c, apis, app[c].msg, "WRITE", len)
        /\ app' = [app EXCEPT ![c] = [@ EXCEPT !.pc = "waiting", !.len = len]]

(* Round its loop. *)
WriteNext(c) ==
    /\ app[c].pc = "write"
    /\ IF conn[c].err # "OK" \/ app[c].size = 0 THEN EndWrite(c) /\ UNCHANGED pools
       ELSE \E room \in Room(c) :
              IF room = 0 THEN app' = [app EXCEPT ![c] = [@ EXCEPT !.pc = "full"]] /\ UNCHANGED <<pools, conn>>
              ELSE PostWrite(c, room) /\ UNCHANGED conn
    /\ UNCHANGED <<handled, calls, bounds>>

(* The send buffer was full. *)
WriteWoken(c) ==
    /\ app[c].pc = "full" /\ conn[c].sem = 1
    /\ IF conn[c].err # "OK"
       THEN /\ apis' = memp_free(apis, app[c].msg)
            /\ EndWrite(c) /\ UNCHANGED <<tcpips, mbox>>
       ELSE /\ \E room \in Room(c) : PostWrite(c, room)
            /\ conn' = [conn EXCEPT ![c] = [@ EXCEPT !.sem = 0]]
    /\ UNCHANGED <<handled, calls, bounds>>

(* TCP was out of memory: the write goes on with its message, and a close  *)
(* takes a new one. *)
Again(c) ==
    /\ app[c].pc = "again" /\ conn[c].sem = 1
    /\ conn' = [conn EXCEPT ![c] = [@ EXCEPT !.sem = 0]]
    /\ IF app[c].type = "WRITE" THEN app' = [app EXCEPT ![c] = [@ EXCEPT !.pc = "write"]] /\ UNCHANGED pools
       ELSE IF IsEmpty(apis) THEN Returns(c) /\ UNCHANGED pools
       ELSE Send(c, "CLOSE", 0) /\ Waits(c, "CLOSE")
    /\ UNCHANGED <<handled, calls, bounds>>

(* The answer comes: the rest of the call. *)
Deletes(type, k) == type = "DELCONN" \/ (type = "NEWCONN" /\ k.err # "OK")
Retries(type, k) == k.err = "MEM" /\ (type = "WRITE" \/ (type = "CLOSE" /\ k.sem # -1))

After(type, k) ==
    CASE Deletes(type, k) -> [NewConn EXCEPT !.exists = FALSE]
      [] Retries(type, k) -> IF type = "WRITE" THEN [k EXCEPT !.err = "OK"] ELSE k
      [] type = "CLOSE" /\ ~Retries(type, k) -> [k EXCEPT !.state = "NONE"]
      [] type = "WRITE" /\ k.err \notin {"OK", "MEM"} -> Written(k)
      [] OTHER -> k

Answered(c) ==
    /\ app[c].pc = "waiting" /\ conn[c].mbox # <<>>
    /\ LET k == [conn[c] EXCEPT !.mbox = Tail(@)]
           type == app[c].type
       IN  /\ conn' = [conn EXCEPT ![c] = After(type, k)]
           /\ app' = [app EXCEPT ![c] =
                  IF Retries(type, k) THEN [app[c] EXCEPT !.pc = "again"]
                  ELSE IF type = "WRITE" /\ k.err = "OK"
                  THEN [app[c] EXCEPT !.pc = "write", !.size = @ - app[c].len]
                  ELSE Idle]
    /\ UNCHANGED <<pools, handled, calls, bounds>>

----------------------------------------------------------------------------
(* What the tcpip thread does with a message, as changes of a netconn.     *)

Answer(k, type) == IF k.exists THEN [k EXCEPT !.mbox = Append(@, type)] ELSE k
Signal(k) == IF k.sem = -1 THEN k ELSE [k EXCEPT !.sem = 1]

(* What may come of a message: the netconn, and whether TCP was short of   *)
(* memory. *)
Fine(k) == [conn |-> k, short |-> 0]
Short(type, k) == IF type \in Shortage THEN {[conn |-> k, short |-> 1]} ELSE {}

do_newconn(k) ==
    IF k.pcb # "NONE" THEN {Fine(Answer(k, "NEWCONN"))}
    ELSE {Fine(Answer([k EXCEPT !.err = "OK", !.pcb = "CLOSED", !.sndbuf = SndBuf], "NEWCONN"))}
         \cup Short("NEWCONN", Answer([k EXCEPT !.err = "MEM"], "NEWCONN"))

(* Mutant of do_connect: it answers, like the others. *)
ConnectAnswers(k) == {Fine(Answer([k EXCEPT !.pcb = "SYN_SENT"], "CONNECT"))} \cup Short("CONNECT", k)

(* The answer comes when the connection is made or refused: if tcp_connect *)
(* fails, never. *)
do_connect(k) == {Fine([k EXCEPT !.pcb = "SYN_SENT"])} \cup Short("CONNECT", k)

(* tcp_write does not take more than there is room for. *)
do_write(k, len) ==
    IF k.pcb = "NONE" THEN {Fine(Answer(k, "WRITE"))}
    ELSE IF len > k.sndbuf THEN {Fine(Answer([k EXCEPT !.err = "MEM"], "WRITE"))}
    ELSE {Fine(Answer([k EXCEPT !.sndbuf = @ - len, !.err = "OK"], "WRITE"))}
         \cup Short("WRITE", Answer([k EXCEPT !.err = "MEM"], "WRITE"))

do_recv(k) == {Fine(Answer(IF k.pcb = "NONE" THEN k ELSE [k EXCEPT !.owed = @ - 1], "RECV"))}
do_close(k) == {Fine(Answer(IF k.pcb = "NONE" THEN k ELSE [k EXCEPT !.err = "OK"], "CLOSE"))}
do_delconn(k) == {Fine(Answer([k EXCEPT !.pcb = "NONE"], "DELCONN"))}

decode(m, k) == CASE m.type = "NEWCONN" -> do_newconn(k)
                  [] m.type = "CONNECT" -> do_connect(k)
                  [] m.type = "WRITE"   -> do_write(k, m.len)
                  [] m.type = "RECV"    -> do_recv(k)
                  [] m.type = "CLOSE"   -> do_close(k)
                  [] m.type = "DELCONN" -> do_delconn(k)

(* An API message: the answer comes before the blocks are freed. *)
api_msg_input ==
    /\ handled = NULL /\ mbox # <<>> /\ Head(mbox) # Input
    /\ LET m == Head(mbox)
       IN  \E outcome \in decode(m, conn[m.conn]) :
               /\ short + outcome.short <= setup.maxShort
               /\ short' = short + outcome.short
               /\ conn' = [conn EXCEPT ![m.conn] = outcome.conn]
    /\ handled' = Head(mbox).msg /\ mbox' = Tail(mbox)
    /\ UNCHANGED <<apis, tcpips, app, calls, errors>>

(* Mutant of FreeHandled: the tcpip message is forgotten. *)
FreeOne == /\ handled # NULL
           /\ apis' = memp_free(apis, handled)
           /\ handled' = NULL
           /\ UNCHANGED <<tcpips, mbox, conn, app, calls, bounds>>

(* It frees both blocks. *)
FreeHandled ==
    /\ handled # NULL
    /\ apis' = memp_free(apis, handled)
    /\ tcpips' = tcpips + 1
    /\ handled' = NULL
    /\ UNCHANGED <<mbox, conn, app, calls, bounds>>

(* What TCP calls back with.  The conditions on pcb are TCP's. *)
do_connected(k) == Answer([k EXCEPT !.pcb = "ESTABLISHED", !.err = "OK"], "CONNECT")

(* Mutant of err_tcp: a write that waits for room is not woken. *)
ErrSilent(k) ==
    LET gone == [k EXCEPT !.pcb = "NONE", !.err = "ABRT",
                          !.recvmbox = IF k.open THEN Append(@, "END") ELSE @]
    IN  Answer(gone, IF k.pcb = "SYN_SENT" THEN "CONNECT" ELSE "ERROR")

(* While a connection is being made this is the answer; later there is no  *)
(* call that it answers. *)
err_tcp(k) ==
    LET gone == [k EXCEPT !.pcb = "NONE", !.err = "ABRT",
                          !.recvmbox = IF k.open THEN Append(@, "END") ELSE @]
    IN  Signal(Answer(gone, IF k.pcb = "SYN_SENT" THEN "CONNECT" ELSE "ERROR"))

recv_tcp(k, p) == IF k.open THEN [k EXCEPT !.err = "OK", !.recvmbox = Append(@, p)] ELSE k
sent_tcp(k) == Signal([k EXCEPT !.sndbuf = SndBuf])
poll_tcp(k) == IF k.state \in {"WRITE", "CLOSE"} THEN Signal(k) ELSE k

Active(k) == k.pcb \in {"SYN_SENT", "ESTABLISHED", "CLOSE_WAIT"}
Changes(c, new) == conn' = [conn EXCEPT ![c] = new]

Connected(c) == conn[c].pcb = "SYN_SENT" /\ Changes(c, do_connected(conn[c])) /\ UNCHANGED errors
DataComes(c) == /\ conn[c].pcb = "ESTABLISHED" /\ Len(conn[c].recvmbox) + conn[c].owed < 1
                /\ Changes(c, recv_tcp(conn[c], "DATA")) /\ UNCHANGED errors
EndComes(c) == /\ conn[c].pcb = "ESTABLISHED"
               /\ Changes(c, [recv_tcp(conn[c], "END") EXCEPT !.pcb = "CLOSE_WAIT"])
               /\ UNCHANGED errors
AckComes(c) == /\ conn[c].pcb \in {"ESTABLISHED", "CLOSE_WAIT"} /\ conn[c].sndbuf < SndBuf
               /\ Changes(c, sent_tcp(conn[c])) /\ UNCHANGED errors
Fails(c) == /\ Active(conn[c]) /\ errors < setup.maxErrors /\ errors' = errors + 1
            /\ Changes(c, err_tcp(conn[c]))

(* A packet: ip_input, and its block is freed. *)
Packet(event) ==
    /\ handled = NULL /\ mbox # <<>> /\ Head(mbox) = Input
    /\ event
    /\ mbox' = Tail(mbox)
    /\ tcpips' = tcpips + 1
    /\ UNCHANGED <<apis, handled, app, calls, short>>

(* tcp_tmr: a connection is given up, or polled. *)
Timer(event) ==
    /\ handled = NULL
    /\ event
    /\ UNCHANGED <<pools, handled, app, calls, short>>
Polled(c) == /\ conn[c].pcb \in {"ESTABLISHED", "CLOSE_WAIT"}
             /\ Changes(c, poll_tcp(conn[c])) /\ UNCHANGED errors

Calls(c) == \/ netconn_new(c) \/ netconn_connect(c) \/ netconn_write(c) \/ netconn_recv(c)
            \/ netconn_close(c) \/ netconn_delete(c)
GoesOn(c) == WriteNext(c) \/ WriteWoken(c) \/ Again(c) \/ Answered(c) \/ Receive(c)

tcpip_thread ==
    \/ api_msg_input \/ FreeHandled
    \/ Packet(UNCHANGED <<conn, errors>>)
    \/ \E c \in Conns : \/ Packet(Connected(c)) \/ Packet(DataComes(c)) \/ Packet(EndComes(c))
                        \/ Packet(AckComes(c)) \/ Packet(Fails(c))
                        \/ Timer(Fails(c)) \/ Timer(Polled(c))

(* A write that is answered has another part to send, or the same one. *)
GoesRound(c) == /\ app[c].pc = "waiting" /\ app[c].type = "WRITE"
                /\ app'[c].pc = "again" \/ (app'[c].pc = "write" /\ app'[c].size > 0)
Goes == UNCHANGED setup /\ twice' = (twice \/ \E c \in Conns : GoesRound(c))

Next == /\ tcpip_input \/ tcpip_thread \/ \E c \in Conns : Calls(c) \/ GoesOn(c)
        /\ Goes

Spec == Init /\ [][Next]_vars

(* Every thread runs, the driver hands over packets, the other side        *)
(* answers and acknowledges in the end, and the timer runs when the        *)
(* mailbox is empty again and again: sys_wait_multiple asks it first.  It  *)
(* is asked for where there are tcpip messages for everybody. *)
Ample == MEMP_NUM_TCPIP_MSG > MaxInput + Cardinality(setup.conns)
Served(action) == Ample /\ action /\ Goes
FairSpec ==
    /\ Spec /\ WF_vars(Served(tcpip_input))
    /\ WF_vars(Served(api_msg_input)) /\ WF_vars(Served(FreeHandled))
    /\ WF_vars(Served(Packet(UNCHANGED <<conn, errors>>)))
    /\ \A c \in Conns :
        /\ WF_vars(Served(GoesOn(c)))
        /\ SF_vars(Served(Packet(Connected(c)))) /\ SF_vars(Served(Packet(AckComes(c))))
        /\ SF_vars(Served(mbox = <<>> /\ Timer(Polled(c))))

----------------------------------------------------------------------------
(* Each tcpip message is free, in the mailbox or being handled, and a      *)
(* semaphore is signalled once at most. *)
TypeOK ==
    /\ tcpips \in Nat
    /\ tcpips + Len(mbox) + (IF handled = NULL THEN 0 ELSE 1) = MEMP_NUM_TCPIP_MSG
    /\ \A c \in Conns : conn[c].sem \in -1 .. 1 /\ conn[c].sndbuf \in 0 .. SndBuf

(* No API message is on the free list twice: the assertion of memp_free.   *)
MempSanity == memp_sanity(apis)

(* The message a write is going to post. *)
Holds(c) == IF app[c].pc = "full" \/ (app[c].pc = "write" /\ app[c].size > 0)
            THEN {app[c].msg} ELSE {}
OnTheWay == {mbox[i].msg : i \in DOMAIN mbox} \ {NULL}

(* A message on its way, or one that a write is going to post, is not      *)
(* free, and no two threads have the same one: as long as no connection is *)
(* reset and no write goes round its loop again. *)
Whole == errors = 0 /\ ~twice
NotFree == Whole =>
    /\ Free(apis) \cap (OnTheWay \cup {handled} \cup UNION {Holds(c) : c \in Conns}) = {}
    /\ \A c \in Conns : Holds(c) \cap (OnTheWay \cup {handled}) = {}
    /\ \A c, d \in Conns : c # d => Holds(c) \cap Holds(d) = {}

(* As long as no connection is reset, a call returns with the answer to    *)
(* itself, and no answer is left over. *)
AnswersMatch == errors = 0 =>
    \A c \in Conns : conn[c].mbox # <<>> =>
        app[c].pc = "waiting" /\ conn[c].mbox = <<app[c].type>>

(* As long as no connection is reset, a message is handled while its       *)
(* netconn is there. *)
ConnIsThere == errors = 0 =>
    \A i \in DOMAIN mbox : mbox[i] # Input => conn[mbox[i].conn].exists

(* The three together: messages are counted, held by one, and meet the     *)
(* netconn they are for. *)
MessagesAreSound == TypeOK /\ NotFree /\ ConnIsThere

(* With tcpip messages for everybody, every call but one that waits for    *)
(* data returns. *)
Return == Ample => \A c \in Conns : app[c].pc \notin {"idle", "recv"} ~> app[c].pc \in {"idle", "recv"}
=============================================================================
