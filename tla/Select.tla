------------------------------- MODULE Select -------------------------------
(***************************************************************************)
(* lwip_select and what wakes it (api/sockets.c): event_callback, which    *)
(* the tcpip thread and the readers call, and lwip_accept, which gives a   *)
(* connection its socket while data may already be coming.                 *)
(*                                                                         *)
(* What is done between taking selectsem (or socksem) and returning it is  *)
(* one step: nothing waits there.  Connection c, once it has a socket, has *)
(* the socket c.  Data is counted in the buffers the stack passes on, and  *)
(* a read takes a whole one.                                               *)
(***************************************************************************)
EXTENDS Integers, Sequences, FiniteSets, SequencesExt, Lists

CONSTANTS NumSockets,
          Fresh,       \* connections that wait to be accepted
          Apps,        \* the threads of the applications
          Owner,       \* the thread that reads, or accepts, a connection
          Timeouts,    \* the threads whose selects may time out
          MaxEvents    \* bound: events from the stack

Conns == 0 .. NumSockets - 1

ASSUME SelectAssumption ==
    /\ NumSockets \in Nat \ {0} /\ Fresh \subseteq Conns
    /\ Owner \in [Conns -> Apps] /\ Apps \cap {"tcpip", "nobody"} = {}
    /\ Timeouts \subseteq Apps /\ MaxEvents \in Nat

Threads == Apps \cup {"tcpip"}

VARIABLES sockets,     \* struct lwip_socket; rcvevent < 0 stands for a wrapped u16_t
          socket,      \* the socket of a netconn, or -1 less what has come
          recvmbox,    \* how much there is to read of a netconn
          accept,      \* how far its lwip_accept is
          select_cb,   \* of each thread: struct lwip_select_cb, and where it is
          list,        \* select_cb_list
          cb,          \* of each thread: the event_callback it is in
          events

vars == <<sockets, socket, recvmbox, accept, select_cb, list, cb, events>>

NoSelect == [pc |-> "idle", readset |-> {}, writeset |-> {}, sem_signalled |-> 0, sem |-> 0]
(* What a callback knows: its event, the socket it found and the entry of  *)
(* the list it is about to signal. *)
Callback(c, evt) == [pc |-> "begin", conn |-> c, evt |-> evt, s |-> c, scb |-> "nobody"]
NoEvent == [Callback(0, "none") EXCEPT !.pc = "none"]

Init ==
    /\ sockets = [s \in Conns |-> [used |-> s \notin Fresh, rcvevent |-> 0, sendevent |-> 1]]
    /\ socket = [c \in Conns |-> IF c \in Fresh THEN -1 ELSE c]
    /\ recvmbox = [c \in Conns |-> 0]
    /\ accept = [c \in Conns |-> IF c \in Fresh THEN "no" ELSE "done"]
    /\ select_cb = [t \in Apps |-> NoSelect] /\ list = <<>>
    /\ cb = [t \in Threads |-> NoEvent]
    /\ events = 0

----------------------------------------------------------------------------
(* event_callback, which a thread is in from the event on.                 *)

Free(t) == cb[t].pc = "none" /\ (t \in Apps => select_cb[t].pc = "idle")
Event(t, c, evt) == cb' = [cb EXCEPT ![t] = Callback(c, evt)]

(* Its end: recv_tcp then posts the data. *)
Ends(t) ==
    /\ cb' = [cb EXCEPT ![t] = NoEvent]
    /\ recvmbox' = [recvmbox EXCEPT ![cb[t].conn] = IF cb[t].evt = "RCVPLUS" THEN @ + 1 ELSE @]

(* It looks up the socket; another, if there is none of that number. *)
LookUp(t) ==
    /\ cb[t].pc = "begin"
    /\ LET s == socket[cb[t].conn]
       IN  IF s < 0 /\ cb[t].evt = "RCVPLUS"
           THEN cb' = [cb EXCEPT ![t] = [@ EXCEPT !.pc = "count", !.s = s]] /\ UNCHANGED recvmbox
           ELSE IF s < 0 \/ ~sockets[s].used THEN Ends(t)
           ELSE cb' = [cb EXCEPT ![t] = [@ EXCEPT !.pc = "set", !.s = s]] /\ UNCHANGED recvmbox
    /\ UNCHANGED <<sockets, socket, accept, select_cb, list, events>>

(* There is no socket yet.  Whether the decrement reads the number anew is *)
(* the compiler's choice. *)
CountDown(t) ==
    /\ cb[t].pc = "count"
    /\ \E old \in {cb[t].s, socket[cb[t].conn]} :
           socket' = [socket EXCEPT ![cb[t].conn] = old - 1]
    /\ Ends(t)
    /\ UNCHANGED <<sockets, accept, select_cb, list, events>>

(* Mutant of Counted: data is not counted. *)
Flagged(sock, evt) ==
    CASE evt = "RCVPLUS"   -> [sock EXCEPT !.rcvevent = 1]
      [] evt = "RCVMINUS"  -> [sock EXCEPT !.rcvevent = 0]
      [] evt = "SENDPLUS"  -> [sock EXCEPT !.sendevent = 1]
      [] evt = "SENDMINUS" -> [sock EXCEPT !.sendevent = 0]

Counted(sock, evt) ==
    CASE evt = "RCVPLUS"   -> [sock EXCEPT !.rcvevent = @ + 1]
      [] evt = "RCVMINUS"  -> [sock EXCEPT !.rcvevent = @ - 1]
      [] evt = "SENDPLUS"  -> [sock EXCEPT !.sendevent = 1]
      [] evt = "SENDMINUS" -> [sock EXCEPT !.sendevent = 0]

(* The event is set, and the list is then gone through. *)
SetEvent(t) ==
    /\ cb[t].pc = "set"
    /\ sockets' = [sockets EXCEPT ![cb[t].s] = Counted(@, cb[t].evt)]
    /\ cb' = [cb EXCEPT ![t].pc = "loop"]
    /\ UNCHANGED <<socket, recvmbox, accept, select_cb, list, events>>

(* A mutant: one off. *)
ReadyLater(s, a) == \/ s \in select_cb[a].readset /\ sockets[s].rcvevent > 1
                    \/ s \in select_cb[a].writeset /\ sockets[s].sendevent # 0

Ready(s, a) == \/ s \in select_cb[a].readset /\ sockets[s].rcvevent # 0
               \/ s \in select_cb[a].writeset /\ sockets[s].sendevent # 0

(* Mutant of ToWake: every select that names the socket. *)
NamedBy(s, a) == select_cb[a].sem_signalled = 0 /\ s \in select_cb[a].readset \cup select_cb[a].writeset

(* A select that waits for the socket and has not been signalled. *)
ToWake(s, a) == select_cb[a].sem_signalled = 0 /\ Ready(s, a)

(* Mutant of Scan: one round is enough. *)
ScanOnce(t) ==
    /\ cb[t].pc = "loop"
    /\ \/ /\ ~ \E i \in DOMAIN list : ToWake(cb[t].s, list[i])
          /\ Ends(t) /\ UNCHANGED select_cb
       \/ \E i \in DOMAIN list :
             /\ ToWake(cb[t].s, list[i]) /\ \A j \in 1 .. i - 1 : ~ToWake(cb[t].s, list[j])
             /\ select_cb' = [select_cb EXCEPT ![list[i]] = [@ EXCEPT !.sem_signalled = 1, !.sem = 1]]
             /\ Ends(t)
    /\ UNCHANGED <<sockets, socket, accept, list, events>>

(* Mutant of Scan: it does not see who has been signalled. *)
ScanAgain(t) ==
    /\ cb[t].pc = "loop"
    /\ \/ /\ ~ \E i \in DOMAIN list : Ready(cb[t].s, list[i])
          /\ Ends(t) /\ UNCHANGED select_cb
       \/ \E i \in DOMAIN list :
             /\ Ready(cb[t].s, list[i]) /\ \A j \in 1 .. i - 1 : ~Ready(cb[t].s, list[j])
             /\ select_cb' = [select_cb EXCEPT ![list[i]].sem_signalled = 1]
             /\ cb' = [cb EXCEPT ![t] = [@ EXCEPT !.pc = "signal", !.scb = list[i]]]
             /\ UNCHANGED recvmbox
    /\ UNCHANGED <<sockets, socket, accept, list, events>>

(* Once through the list, up to the first to wake: it goes on until there  *)
(* is nobody. *)
Scan(t) ==
    /\ cb[t].pc = "loop"
    /\ \/ /\ ~ \E i \in DOMAIN list : ToWake(cb[t].s, list[i])
          /\ Ends(t) /\ UNCHANGED select_cb
       \/ \E i \in DOMAIN list :
             /\ ToWake(cb[t].s, list[i]) /\ \A j \in 1 .. i - 1 : ~ToWake(cb[t].s, list[j])
             /\ select_cb' = [select_cb EXCEPT ![list[i]].sem_signalled = 1]
             /\ cb' = [cb EXCEPT ![t] = [@ EXCEPT !.pc = "signal", !.scb = list[i]]]
             /\ UNCHANGED recvmbox
    /\ UNCHANGED <<sockets, socket, accept, list, events>>

(* The semaphore of the entry it has found, which is no longer protected:  *)
(* that of the select, or of the thread's next one, or of nobody. *)
SignalSem(t) ==
    /\ cb[t].pc = "signal"
    /\ LET a == cb[t].scb
       IN  select_cb' = IF select_cb[a].pc = "idle" THEN select_cb
                        ELSE [select_cb EXCEPT ![a].sem = 1]
    /\ cb' = [cb EXCEPT ![t].pc = "loop"]
    /\ UNCHANGED <<sockets, socket, recvmbox, accept, list, events>>

event_callback(t) == LookUp(t) \/ CountDown(t) \/ SetEvent(t) \/ Scan(t) \/ SignalSem(t)

----------------------------------------------------------------------------
(* The events.  recv_tcp *)
DataComes(c) ==
    /\ Free("tcpip") /\ events < MaxEvents /\ events' = events + 1
    /\ Event("tcpip", c, "RCVPLUS")
    /\ UNCHANGED <<sockets, socket, recvmbox, accept, select_cb, list>>

(* sent_tcp and do_write, when the send buffer passes TCP_SNDLOWAT. *)
SendBufferChanges(c) ==
    /\ accept[c] = "done" /\ sockets[c].used
    /\ Free("tcpip") /\ events < MaxEvents /\ events' = events + 1
    /\ Event("tcpip", c, IF sockets[c].sendevent = 1 THEN "SENDMINUS" ELSE "SENDPLUS")
    /\ UNCHANGED <<sockets, socket, recvmbox, accept, select_cb, list>>

(* lwip_recvfrom, when it does not have to wait. *)
lwip_recvfrom(t, c) ==
    /\ Owner[c] = t /\ accept[c] = "done" /\ Free(t)
    /\ recvmbox[c] > 0
    /\ recvmbox' = [recvmbox EXCEPT ![c] = @ - 1]
    /\ Event(t, c, "RCVMINUS")
    /\ UNCHANGED <<sockets, socket, accept, select_cb, list, events>>

(* lwip_accept: alloc_socket, *)
Allocate(t, c) ==
    /\ Owner[c] = t /\ accept[c] = "no" /\ Free(t)
    /\ sockets' = [sockets EXCEPT ![c] = [used |-> TRUE, rcvevent |-> 0, sendevent |-> 1]]
    /\ accept' = [accept EXCEPT ![c] = "allocated"]
    /\ UNCHANGED <<socket, recvmbox, select_cb, list, cb, events>>

(* then what has come is counted, *)
TakeOver(t, c) ==
    /\ Owner[c] = t /\ accept[c] = "allocated"
    /\ sockets' = [sockets EXCEPT ![c].rcvevent = @ + (-1 - socket[c])]
    /\ accept' = [accept EXCEPT ![c] = "counted"]
    /\ UNCHANGED <<socket, recvmbox, select_cb, list, cb, events>>

(* and the netconn gets its number. *)
SetSocket(t, c) ==
    /\ Owner[c] = t /\ accept[c] = "counted"
    /\ socket' = [socket EXCEPT ![c] = c]
    /\ accept' = [accept EXCEPT ![c] = "done"]
    /\ UNCHANGED <<sockets, recvmbox, select_cb, list, cb, events>>

----------------------------------------------------------------------------
(* lwip_select with nothing to wait for returns at once; else it waits. *)
lwip_select(t) ==
    /\ Free(t) /\ \A c \in Conns : Owner[c] = t => accept[c] \in {"no", "done"}
    /\ \E R, W \in SUBSET {c \in Conns : accept[c] = "done"} :
           /\ \A s \in R : sockets[s].rcvevent = 0
           /\ \A s \in W : sockets[s].sendevent = 0
           /\ R \cup W # {}
           /\ select_cb' = [select_cb EXCEPT ![t] = [NoSelect EXCEPT !.pc = "wait",
                                                     !.readset = R, !.writeset = W]]
    /\ list' = <<t>> \o list
    /\ UNCHANGED <<sockets, socket, recvmbox, accept, cb, events>>

Woken(t) ==
    /\ select_cb[t].pc = "wait" /\ select_cb[t].sem = 1
    /\ select_cb' = [select_cb EXCEPT ![t] = [@ EXCEPT !.sem = 0, !.pc = "woken"]]
    /\ UNCHANGED <<sockets, socket, recvmbox, accept, list, cb, events>>

TimesOut(t) ==
    /\ t \in Timeouts /\ select_cb[t].pc = "wait"
    /\ select_cb' = [select_cb EXCEPT ![t].pc = "timeout"]
    /\ UNCHANGED <<sockets, socket, recvmbox, accept, list, cb, events>>

(* It is taken off the list, and frees its semaphore. *)
Unlink(t) ==
    /\ select_cb[t].pc \in {"woken", "timeout"} /\ t \in ToSet(list)
    /\ list' = Unlinked(list, t)
    /\ UNCHANGED <<sockets, socket, recvmbox, accept, select_cb, cb, events>>

Return(t) ==
    /\ select_cb[t].pc \in {"woken", "timeout"} /\ t \notin ToSet(list)
    /\ select_cb' = [select_cb EXCEPT ![t] = NoSelect]
    /\ UNCHANGED <<sockets, socket, recvmbox, accept, list, cb, events>>

Runs(t) == Woken(t) \/ Unlink(t) \/ Return(t)

Next == \/ \E c \in Conns : DataComes(c) \/ SendBufferChanges(c)
        \/ \E t \in Threads : event_callback(t)
        \/ \E t \in Apps : \/ lwip_select(t) \/ Runs(t) \/ TimesOut(t)
                           \/ \E c \in Conns : \/ lwip_recvfrom(t, c) \/ Allocate(t, c)
                                               \/ TakeOver(t, c) \/ SetSocket(t, c)

Spec == Init /\ [][Next]_vars

(* A thread that is in a callback, or has been woken, runs on. *)
RunsOn(t) == event_callback(t) \/ (t \in Apps /\ Runs(t))
FairSpec == Spec /\ \A t \in Threads : WF_vars(RunsOn(t))

----------------------------------------------------------------------------
IsIn(t, pcs) == cb[t].pc \in pcs

(* A select waits with nothing ready, or its semaphore has been or is      *)
(* about to be signalled, or the list is about to be gone through for the  *)
(* socket that is ready. *)
NoLostWakeup ==
    \A a \in Apps : select_cb[a].pc = "wait" /\ select_cb[a].sem = 0 =>
        IF select_cb[a].sem_signalled = 1
        THEN \E t \in Threads : IsIn(t, {"signal"}) /\ cb[t].scb = a
        ELSE \A s \in Conns : Ready(s, a) =>
                 \E t \in Threads : IsIn(t, {"loop", "signal"}) /\ cb[t].s = s

(* Each connection that has been accepted has its own socket's number: not *)
(* so when event_callback counts it down while lwip_accept sets it. *)
OwnNumbers == \A c \in Conns : accept[c] = "done" => socket[c] = c

(* What can be read has been counted: select and a read that does not wait *)
(* see it.  Not so for a connection that data reaches while it is accepted, *)
(* or once one has got another's number that way. *)
DataIsSeen == OwnNumbers => \A c \in Conns \ Fresh : recvmbox[c] <= sockets[c].rcvevent

(* A semaphore is signalled while its select is there, if that cannot time *)
(* out: an entry on the list is a local variable of lwip_select. *)
SignalledInTime ==
    \A t \in Threads : IsIn(t, {"signal"}) /\ cb[t].scb \notin Timeouts =>
        cb[t].scb \in ToSet(list)

(* A select that was woken for connections only its own thread reads finds *)
(* something to read, if its selects do not time out and as long as each     *)
(* connection has its own number. *)
WokenFinds ==
    \A a \in Apps :
        /\ a \notin Timeouts /\ OwnNumbers
        /\ select_cb[a].pc = "woken" /\ select_cb[a].writeset = {}
        /\ \A s \in select_cb[a].readset : Owner[s] = a
        => \E s \in select_cb[a].readset : Ready(s, a)

(* The three together: what a select is told is true, and told to one that *)
(* is there. *)
WakeupsAreTrue == DataIsSeen /\ SignalledInTime /\ WokenFinds

(* A select that waits for a connection with data is woken in the end,     *)
(* unless the data is read. *)
DataWakes ==
    \A a \in Apps, c \in Conns \ Fresh :
        select_cb[a].pc = "wait" /\ c \in select_cb[a].readset /\ recvmbox[c] > 0
        ~> select_cb[a].pc # "wait" \/ recvmbox[c] = 0 \/ ~OwnNumbers
=============================================================================
