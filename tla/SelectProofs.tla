---------------------------- MODULE SelectProofs ----------------------------
(***************************************************************************)
(* Proofs about lwip_select and event_callback, for any number of threads, *)
(* sockets and events, and any selects that may time out.                  *)
(***************************************************************************)
EXTENDS Select, TLAPS

Entries == [pc : {"idle", "wait", "woken", "timeout"}, readset : SUBSET Conns,
            writeset : SUBSET Conns, sem_signalled : {0, 1}, sem : {0, 1}]
Callbacks == [pc : {"none", "begin", "count", "set", "loop", "signal"}, conn : Conns,
              evt : {"none", "RCVPLUS", "RCVMINUS", "SENDPLUS", "SENDMINUS"},
              s : Int, scb : Apps \cup {"nobody"}]

SelectTypeOK ==
    /\ sockets \in [Conns -> [used : BOOLEAN, rcvevent : Int, sendevent : {0, 1}]]
    /\ socket \in [Conns -> Int] /\ recvmbox \in [Conns -> Int]
    /\ accept \in [Conns -> {"no", "allocated", "counted", "done"}]
    /\ select_cb \in [Apps -> Entries] /\ list \in Seq(Apps)
    /\ cb \in [Threads -> Callbacks]

(* A callback has an event, and the socket whose event it sets; a netconn  *)
(* may get the number of another socket, but never one that does not exist.*)
CallbackInv ==
    /\ \A c \in Conns : socket[c] < NumSockets
    /\ \A t \in Threads :
         /\ cb[t].pc # "none" => cb[t].evt # "none"
         /\ IsIn(t, {"count"}) => cb[t].s < 0
         /\ IsIn(t, {"set", "loop", "signal"}) => cb[t].s \in Conns
         /\ IsIn(t, {"signal"}) => cb[t].scb \in Apps

(* On the list are, once each, the selects that wait, and otherwise only   *)
(* such as are about to be taken off; they wait for accepted connections.  *)
ListInv ==
    /\ IsInjective(list)
    /\ \A a \in Apps :
         /\ a \in ToSet(list) => select_cb[a].pc # "idle"
         /\ select_cb[a].pc = "wait" => a \in ToSet(list)
         /\ select_cb[a].pc # "idle" =>
              \A s \in select_cb[a].readset \cup select_cb[a].writeset : accept[s] = "done"

SelectInv == SelectTypeOK /\ CallbackInv /\ ListInv

----------------------------------------------------------------------------
(* The parts of a step that several actions have. *)

LEMMA SocketZero == 0 \in Conns /\ Conns \subseteq Int /\ NumSockets \in Nat \ {0}
BY SelectAssumption DEF Conns

LEMMA NoEventType == NoEvent \in Callbacks /\ NoEvent.pc = "none"
BY SocketZero DEF NoEvent, Callback, Callbacks

LEMMA CallbackType ==
    ASSUME NEW c \in Conns, NEW evt \in {"RCVPLUS", "RCVMINUS", "SENDPLUS", "SENDMINUS"}
    PROVE  /\ Callback(c, evt) \in Callbacks /\ Callback(c, evt).pc = "begin"
           /\ Callback(c, evt).evt = evt /\ Callback(c, evt).conn = c
BY SocketZero DEF Callback, Callbacks

(* A thread's callback ends, and data is posted. *)
LEMMA EndsType ==
    ASSUME SelectTypeOK, NEW t \in Threads, Ends(t)
    PROVE  /\ cb' = [cb EXCEPT ![t] = NoEvent] /\ cb' \in [Threads -> Callbacks]
           /\ recvmbox' \in [Conns -> Int]
BY NoEventType DEF Ends, SelectTypeOK, Callbacks

(* The callback of one thread moves on. *)
LEMMA CallbackMoves ==
    ASSUME SelectTypeOK, NEW t \in Threads, NEW r \in Callbacks,
           cb' = [cb EXCEPT ![t] = r]
    PROVE  /\ cb' \in [Threads -> Callbacks] /\ cb'[t] = r
           /\ \A u \in Threads \ {t} : cb'[u] = cb[u]
BY DEF SelectTypeOK

(* The entry of one select changes, but not what it waits for. *)
Changed(new, a, pc, signalled, sem) ==
    /\ new \in [Apps -> Entries]
    /\ \A b \in Apps : /\ new[b].readset = select_cb[b].readset
                       /\ new[b].writeset = select_cb[b].writeset
                       /\ b # a => new[b] = select_cb[b]
    /\ new[a].pc = pc /\ new[a].sem_signalled = signalled /\ new[a].sem = sem

LEMMA EntryChanges ==
    ASSUME SelectTypeOK, NEW a \in Apps
    PROVE  LET e == select_cb[a] IN
           /\ Changed([select_cb EXCEPT ![a].sem_signalled = 1], a, e.pc, 1, e.sem)
           /\ Changed([select_cb EXCEPT ![a].sem = 1], a, e.pc, e.sem_signalled, 1)
           /\ Changed([select_cb EXCEPT ![a] = [@ EXCEPT !.sem = 0, !.pc = "woken"]],
                      a, "woken", e.sem_signalled, 0)
           /\ Changed([select_cb EXCEPT ![a].pc = "timeout"],
                      a, "timeout", e.sem_signalled, e.sem)
<1> DEFINE e == select_cb[a]
<1>1. e \in Entries
  BY DEF SelectTypeOK
<1>2. ASSUME NEW r \in Entries, r.readset = e.readset, r.writeset = e.writeset
      PROVE  Changed([select_cb EXCEPT ![a] = r], a, r.pc, r.sem_signalled, r.sem)
  BY <1>2 DEF SelectTypeOK, Changed
<1> HIDE DEF e
<1>3. Changed([select_cb EXCEPT ![a] = [e EXCEPT !.sem_signalled = 1]], a, e.pc, 1, e.sem)
  <2> DEFINE r == [e EXCEPT !.sem_signalled = 1]
  <2>1. /\ r \in Entries /\ r.readset = e.readset /\ r.writeset = e.writeset
        /\ r.pc = e.pc /\ r.sem_signalled = 1 /\ r.sem = e.sem
    BY <1>1 DEF Entries
  <2> HIDE DEF r
  <2>2. Changed([select_cb EXCEPT ![a] = r], a, e.pc, 1, e.sem)
    BY <1>2, <2>1
  <2>3. QED BY <2>2 DEF r
<1>4. Changed([select_cb EXCEPT ![a] = [e EXCEPT !.sem = 1]], a, e.pc, e.sem_signalled, 1)
  <2> DEFINE r == [e EXCEPT !.sem = 1]
  <2>1. /\ r \in Entries /\ r.readset = e.readset /\ r.writeset = e.writeset
        /\ r.pc = e.pc /\ r.sem_signalled = e.sem_signalled /\ r.sem = 1
    BY <1>1 DEF Entries
  <2> HIDE DEF r
  <2>2. Changed([select_cb EXCEPT ![a] = r], a, e.pc, e.sem_signalled, 1)
    BY <1>2, <2>1
  <2>3. QED BY <2>2 DEF r
<1>5. Changed([select_cb EXCEPT ![a] = [e EXCEPT !.sem = 0, !.pc = "woken"]],
              a, "woken", e.sem_signalled, 0)
  <2> DEFINE r == [e EXCEPT !.sem = 0, !.pc = "woken"]
  <2>1. /\ r \in Entries /\ r.readset = e.readset /\ r.writeset = e.writeset
        /\ r.pc = "woken" /\ r.sem_signalled = e.sem_signalled /\ r.sem = 0
    BY <1>1 DEF Entries
  <2> HIDE DEF r
  <2>2. Changed([select_cb EXCEPT ![a] = r], a, "woken", e.sem_signalled, 0)
    BY <1>2, <2>1
  <2>3. QED BY <2>2 DEF r
<1>6. Changed([select_cb EXCEPT ![a] = [e EXCEPT !.pc = "timeout"]],
              a, "timeout", e.sem_signalled, e.sem)
  <2> DEFINE r == [e EXCEPT !.pc = "timeout"]
  <2>1. /\ r \in Entries /\ r.readset = e.readset /\ r.writeset = e.writeset
        /\ r.pc = "timeout" /\ r.sem_signalled = e.sem_signalled /\ r.sem = e.sem
    BY <1>1 DEF Entries
  <2> HIDE DEF r
  <2>2. Changed([select_cb EXCEPT ![a] = r], a, "timeout", e.sem_signalled, e.sem)
    BY <1>2, <2>1
  <2>3. QED BY <2>2 DEF r
<1>7. QED BY <1>3, <1>4, <1>5, <1>6 DEF e

LEMMA CountedType ==
    ASSUME NEW sock \in [used : BOOLEAN, rcvevent : Int, sendevent : {0, 1}],
           NEW evt \in {"RCVPLUS", "RCVMINUS", "SENDPLUS", "SENDMINUS"}
    PROVE  /\ Counted(sock, evt) \in [used : BOOLEAN, rcvevent : Int, sendevent : {0, 1}]
           /\ Counted(sock, evt).rcvevent =
                IF evt = "RCVPLUS" THEN sock.rcvevent + 1
                ELSE IF evt = "RCVMINUS" THEN sock.rcvevent - 1 ELSE sock.rcvevent
<1>1. CASE evt = "RCVPLUS"
  BY <1>1 DEF Counted
<1>2. CASE evt = "RCVMINUS"
  BY <1>2 DEF Counted
<1>3. CASE evt = "SENDPLUS"
  BY <1>3 DEF Counted
<1>4. CASE evt = "SENDMINUS"
  BY <1>4 DEF Counted
<1>5. QED BY <1>1, <1>2, <1>3, <1>4

----------------------------------------------------------------------------
LEMMA SelectInitInv == Init => SelectInv
<1> SUFFICES ASSUME Init PROVE SelectInv
  OBVIOUS
<1>1. SelectTypeOK
  <2>1. NoSelect \in Entries
    BY DEF NoSelect, Entries
  <2>2. list \in Seq(Apps)
    BY DEF Init
  <2>3. QED BY <2>1, <2>2, NoEventType, SocketZero DEF Init, SelectTypeOK
<1>2. CallbackInv
  BY SocketZero, NoEventType DEF Init, CallbackInv, Conns, IsIn
<1>3. ListInv
  <2>1. DOMAIN list = {} /\ \A a \in Apps : select_cb[a].pc = "idle"
    BY DEF Init, NoSelect
  <2>2. QED BY <2>1 DEF ListInv, IsInjective, ToSet
<1>4. QED BY <1>1, <1>2, <1>3 DEF SelectInv

(* event_callback *)
LEMMA CallbackStep ==
    ASSUME SelectInv, NEW t \in Threads, event_callback(t)
    PROVE  SelectInv'
<1>1. SelectTypeOK /\ CallbackInv /\ ListInv
  BY DEF SelectInv
<1>2. cb[t] \in Callbacks
  BY <1>1 DEF SelectTypeOK
<1>3. CASE LookUp(t)
  <2> DEFINE s == socket[cb[t].conn]
  <2>1. UNCHANGED <<sockets, socket, accept, select_cb, list>> /\ cb[t].pc = "begin"
    BY <1>3 DEF LookUp
  <2>2. s \in Int /\ s < NumSockets
    BY <1>1, <1>2 DEF SelectTypeOK, CallbackInv, Callbacks
  <2>3. CASE Ends(t)
    BY <2>1, <2>3, <1>1, EndsType, NoEventType
       DEF SelectInv, SelectTypeOK, CallbackInv, ListInv, IsIn
  <2>4. CASE /\ cb' = [cb EXCEPT ![t] = [@ EXCEPT !.pc = "count", !.s = s]]
             /\ recvmbox' = recvmbox /\ s < 0
    <3> DEFINE r == [cb[t] EXCEPT !.pc = "count", !.s = s]
    <3>1. r \in Callbacks /\ r.pc = "count" /\ r.evt = cb[t].evt /\ r.s < 0
      BY <1>2, <2>2, <2>4 DEF Callbacks
    <3>2. cb' = [cb EXCEPT ![t] = r]
      BY <2>4
    <3> HIDE DEF r
    <3>3. QED BY <3>1, <3>2, <2>1, <2>4, <1>1, CallbackMoves
              DEF SelectInv, SelectTypeOK, CallbackInv, ListInv, IsIn
  <2>5. CASE /\ cb' = [cb EXCEPT ![t] = [@ EXCEPT !.pc = "set", !.s = s]]
             /\ recvmbox' = recvmbox /\ s >= 0
    <3> DEFINE r == [cb[t] EXCEPT !.pc = "set", !.s = s]
    <3>1. r \in Callbacks /\ r.pc = "set" /\ r.evt = cb[t].evt /\ r.s = s
      BY <1>2, <2>2 DEF Callbacks
    <3>2. cb' = [cb EXCEPT ![t] = r]
      BY <2>5
    <3>3. s \in Conns
      BY <2>2, <2>5, SocketZero DEF Conns
    <3> HIDE DEF r, s
    <3>4. QED BY <3>1, <3>2, <3>3, <2>1, <2>5, <1>1, CallbackMoves
              DEF SelectInv, SelectTypeOK, CallbackInv, ListInv, IsIn
  <2>6. QED BY <1>3, <2>2, <2>3, <2>4, <2>5 DEF LookUp
<1>4. CASE CountDown(t)
  <2>1. PICK old \in {cb[t].s, socket[cb[t].conn]} :
          socket' = [socket EXCEPT ![cb[t].conn] = old - 1]
    BY <1>4 DEF CountDown
  <2>2. Ends(t) /\ cb[t].pc = "count" /\ UNCHANGED <<sockets, accept, select_cb, list>>
    BY <1>4 DEF CountDown
  <2>3. cb[t].s \in Int /\ cb[t].conn \in Conns /\ cb[t].s < NumSockets
    BY <1>1, <1>2, <2>2, SocketZero DEF Callbacks, CallbackInv, IsIn
  <2>4. old \in Int /\ old < NumSockets
    BY <2>1, <2>3, <1>1 DEF SelectTypeOK, CallbackInv
  <2>5. socket' \in [Conns -> Int] /\ \A c \in Conns : socket'[c] < NumSockets
    BY <2>1, <2>3, <2>4, <1>1, SocketZero DEF SelectTypeOK, CallbackInv
  <2>6. QED BY <2>2, <2>5, <1>1, EndsType, NoEventType
            DEF SelectInv, SelectTypeOK, CallbackInv, ListInv, IsIn
<1>5. CASE SetEvent(t)
  <2>1. /\ cb[t].pc = "set" /\ cb' = [cb EXCEPT ![t].pc = "loop"]
        /\ sockets' = [sockets EXCEPT ![cb[t].s] = Counted(@, cb[t].evt)]
        /\ UNCHANGED <<socket, recvmbox, accept, select_cb, list>>
    BY <1>5 DEF SetEvent
  <2>2. cb[t].s \in Conns /\ cb[t].evt \in {"RCVPLUS", "RCVMINUS", "SENDPLUS", "SENDMINUS"}
    BY <1>1, <1>2, <2>1 DEF CallbackInv, Callbacks, IsIn
  <2>3. sockets' \in [Conns -> [used : BOOLEAN, rcvevent : Int, sendevent : {0, 1}]]
    BY <1>1, <2>1, <2>2, CountedType DEF SelectTypeOK
  <2> DEFINE r == [cb[t] EXCEPT !.pc = "loop"]
  <2>4. r \in Callbacks /\ r.pc = "loop" /\ r.evt = cb[t].evt /\ r.s = cb[t].s
    BY <1>2 DEF Callbacks
  <2>5. cb' = [cb EXCEPT ![t] = r]
    BY <2>1
  <2> HIDE DEF r
  <2>6. cb' \in [Threads -> Callbacks] /\ cb'[t] = r
        /\ \A u \in Threads \ {t} : cb'[u] = cb[u]
    BY <2>4, <2>3, <2>5, <1>1, CallbackMoves
  <2>7. SelectTypeOK'
    BY <2>1, <2>2, <2>3, <2>6, <1>1 DEF SelectTypeOK
  <2>8. CallbackInv'
    BY <2>1, <2>2, <2>3, <2>4, <2>5, <2>6, <1>1 DEF CallbackInv, IsIn
  <2>9. ListInv'
    BY <2>1, <2>2, <1>1 DEF ListInv
  <2>10. QED BY <2>7, <2>8, <2>9 DEF SelectInv
<1>6. CASE Scan(t)
  <2>1. cb[t].pc = "loop" /\ UNCHANGED <<sockets, socket, accept, list>>
    BY <1>6 DEF Scan
  <2>2. CASE Ends(t) /\ UNCHANGED select_cb
    BY <2>1, <2>2, <1>1, EndsType, NoEventType
       DEF SelectInv, SelectTypeOK, CallbackInv, ListInv, IsIn
  <2>3. ASSUME NEW i \in DOMAIN list, UNCHANGED recvmbox,
               select_cb' = [select_cb EXCEPT ![list[i]].sem_signalled = 1],
               cb' = [cb EXCEPT ![t] = [@ EXCEPT !.pc = "signal", !.scb = list[i]]]
        PROVE  SelectInv'
    <3>1. list[i] \in Apps
      BY <1>1 DEF SelectTypeOK
    <3> DEFINE r == [cb[t] EXCEPT !.pc = "signal", !.scb = list[i]]
    <3>2. /\ r \in Callbacks /\ r.pc = "signal" /\ r.evt = cb[t].evt /\ r.s = cb[t].s
          /\ r.scb = list[i]
      BY <1>2, <3>1 DEF Callbacks
    <3>3. cb' = [cb EXCEPT ![t] = r]
      BY <2>3
    <3>4. /\ select_cb' \in [Apps -> Entries]
          /\ \A a \in Apps : /\ select_cb'[a].pc = select_cb[a].pc
                             /\ select_cb'[a].readset = select_cb[a].readset
                             /\ select_cb'[a].writeset = select_cb[a].writeset
      <4> DEFINE new == [select_cb EXCEPT ![list[i]].sem_signalled = 1]
      <4>1. Changed(new, list[i], select_cb[list[i]].pc, 1, select_cb[list[i]].sem)
        BY <3>1, <1>1, EntryChanges
      <4> HIDE DEF new
      <4>2. select_cb' = new
        BY <2>3 DEF new
      <4>3. QED BY <4>1, <4>2 DEF Changed
    <3>5. cb[t].s \in Conns /\ cb[t].evt # "none"
      BY <2>1, <1>1 DEF CallbackInv, IsIn
    <3> HIDE DEF r
    <3>6. QED BY <3>1, <3>2, <3>3, <3>4, <3>5, <2>1, <2>3, <1>1, CallbackMoves
              DEF SelectInv, SelectTypeOK, CallbackInv, ListInv, IsIn
  <2>4. QED BY <1>6, <2>2, <2>3 DEF Scan
<1>7. CASE SignalSem(t)
  <2>1. /\ cb[t].pc = "signal" /\ cb' = [cb EXCEPT ![t].pc = "loop"]
        /\ UNCHANGED <<sockets, socket, recvmbox, accept, list>>
    BY <1>7 DEF SignalSem
  <2>2. /\ select_cb' \in [Apps -> Entries]
        /\ \A a \in Apps : /\ select_cb'[a].pc = select_cb[a].pc
                           /\ select_cb'[a].readset = select_cb[a].readset
                           /\ select_cb'[a].writeset = select_cb[a].writeset
    <3>1. CASE select_cb' = select_cb
      BY <1>1, <3>1 DEF SelectTypeOK
    <3>2. CASE select_cb' = [select_cb EXCEPT ![cb[t].scb].sem = 1]
      <4>1. cb[t].scb \in Apps
        BY <1>1, <2>1 DEF CallbackInv, IsIn
      <4> DEFINE a == cb[t].scb
                 new == [select_cb EXCEPT ![a].sem = 1]
      <4>2. Changed(new, a, select_cb[a].pc, select_cb[a].sem_signalled, 1)
        BY <4>1, <1>1, EntryChanges
      <4> HIDE DEF new
      <4>3. select_cb' = new
        BY <3>2 DEF new
      <4>4. QED BY <4>2, <4>3 DEF Changed
    <3>3. QED BY <1>7, <3>1, <3>2 DEF SignalSem
  <2> DEFINE r == [cb[t] EXCEPT !.pc = "loop"]
  <2>3. r \in Callbacks /\ r.pc = "loop" /\ r.evt = cb[t].evt /\ r.s = cb[t].s
    BY <1>2 DEF Callbacks
  <2>4. cb' = [cb EXCEPT ![t] = r]
    BY <2>1
  <2>5. cb[t].s \in Conns /\ cb[t].evt # "none"
    BY <2>1, <1>1 DEF CallbackInv, IsIn
  <2> HIDE DEF r
  <2>6. cb' \in [Threads -> Callbacks] /\ cb'[t] = r
        /\ \A u \in Threads \ {t} : cb'[u] = cb[u]
    BY <2>4, <2>3, <2>5, <1>1, CallbackMoves
  <2>7. SelectTypeOK'
    BY <2>1, <2>2, <2>3, <2>6, <1>1 DEF SelectTypeOK
  <2>8. CallbackInv'
    BY <2>1, <2>2, <2>3, <2>4, <2>5, <2>6, <1>1 DEF CallbackInv, IsIn
  <2>9. ListInv'
    BY <2>1, <2>2, <1>1 DEF ListInv
  <2>10. QED BY <2>7, <2>8, <2>9 DEF SelectInv
<1>8. QED BY <1>3, <1>4, <1>5, <1>6, <1>7 DEF event_callback

(* The events, and lwip_accept. *)
LEMMA EventStep ==
    ASSUME SelectInv, NEW c \in Conns, NEW t \in Threads,
           \/ DataComes(c) \/ SendBufferChanges(c)
           \/ t \in Apps /\ \/ lwip_recvfrom(t, c) \/ Allocate(t, c)
                            \/ TakeOver(t, c) \/ SetSocket(t, c)
    PROVE  SelectInv'
<1>1. SelectTypeOK /\ CallbackInv /\ ListInv
  BY DEF SelectInv
<1>2. ASSUME NEW u \in Threads, NEW evt \in {"RCVPLUS", "RCVMINUS", "SENDPLUS", "SENDMINUS"},
             Event(u, c, evt), recvmbox' \in [Conns -> Int],
             UNCHANGED <<sockets, socket, accept, select_cb, list>>
      PROVE  SelectInv'
  <2> DEFINE r == Callback(c, evt)
  <2>1. r \in Callbacks /\ r.pc = "begin" /\ r.evt = evt
    BY CallbackType
  <2>2. cb' = [cb EXCEPT ![u] = r]
    BY <1>2 DEF Event
  <2> HIDE DEF r
  <2>3. QED BY <2>1, <2>2, <1>1, <1>2, CallbackMoves
            DEF SelectInv, SelectTypeOK, CallbackInv, ListInv, IsIn
<1>3. CASE DataComes(c)
  <2>1. "tcpip" \in Threads /\ recvmbox' \in [Conns -> Int]
    BY <1>1, <1>3 DEF Threads, DataComes, SelectTypeOK
  <2>2. QED BY <2>1, <1>2, <1>3 DEF DataComes
<1>4. CASE SendBufferChanges(c)
  <2>1. "tcpip" \in Threads /\ recvmbox' \in [Conns -> Int]
    BY <1>1, <1>4 DEF Threads, SendBufferChanges, SelectTypeOK
  <2>2. QED BY <2>1, <1>2, <1>4 DEF SendBufferChanges
<1>5. CASE lwip_recvfrom(t, c)
  <2>1. recvmbox' \in [Conns -> Int]
    BY <1>1, <1>5 DEF lwip_recvfrom, SelectTypeOK
  <2>2. QED BY <2>1, <1>2, <1>5 DEF lwip_recvfrom
<1>6. CASE Allocate(t, c)
  <2>1. /\ sockets' = [sockets EXCEPT ![c] = [used |-> TRUE, rcvevent |-> 0, sendevent |-> 1]]
        /\ accept' = [accept EXCEPT ![c] = "allocated"] /\ accept[c] = "no"
        /\ UNCHANGED <<socket, recvmbox, select_cb, list, cb>>
    BY <1>6 DEF Allocate
  <2>2. SelectTypeOK'
    BY <2>1, <1>1 DEF SelectTypeOK
  <2>3. CallbackInv'
    BY <2>1, <1>1 DEF CallbackInv, IsIn
  <2>4. \A s \in Conns : accept[s] = "done" => accept'[s] = "done"
    BY <2>1, <1>1 DEF SelectTypeOK
  <2>5. ListInv'
    BY <2>1, <2>4, <1>1 DEF ListInv, SelectTypeOK, Entries
  <2>6. QED BY <2>2, <2>3, <2>5 DEF SelectInv
<1>7. CASE TakeOver(t, c)
  <2>1. /\ sockets' = [sockets EXCEPT ![c].rcvevent = @ + (-1 - socket[c])]
        /\ accept' = [accept EXCEPT ![c] = "counted"] /\ accept[c] = "allocated"
        /\ UNCHANGED <<socket, recvmbox, select_cb, list, cb>>
    BY <1>7 DEF TakeOver
  <2>2. SelectTypeOK'
    <3>1. socket[c] \in Int /\ sockets[c].rcvevent \in Int
      BY <1>1 DEF SelectTypeOK
    <3>2. sockets[c].rcvevent + (-1 - socket[c]) \in Int
      BY <3>1
    <3>3. QED BY <2>1, <3>2, <1>1 DEF SelectTypeOK
  <2>3. CallbackInv'
    BY <2>1, <1>1 DEF CallbackInv, IsIn
  <2>4. \A s \in Conns : accept[s] = "done" => accept'[s] = "done"
    BY <2>1, <1>1 DEF SelectTypeOK
  <2>5. ListInv'
    BY <2>1, <2>4, <1>1 DEF ListInv, SelectTypeOK, Entries
  <2>6. QED BY <2>2, <2>3, <2>5 DEF SelectInv
<1>8. CASE SetSocket(t, c)
  <2>1. /\ socket' = [socket EXCEPT ![c] = c] /\ accept' = [accept EXCEPT ![c] = "done"]
        /\ UNCHANGED <<sockets, recvmbox, select_cb, list, cb>>
    BY <1>8 DEF SetSocket
  <2>2. SelectTypeOK'
    BY <2>1, <1>1, SocketZero DEF SelectTypeOK
  <2>3. c < NumSockets
    BY SocketZero DEF Conns
  <2>4. CallbackInv'
    BY <2>1, <2>3, <1>1 DEF CallbackInv, IsIn, SelectTypeOK
  <2>5. \A s \in Conns : accept[s] = "done" => accept'[s] = "done"
    BY <2>1, <1>1 DEF SelectTypeOK
  <2>6. ListInv'
    BY <2>1, <2>5, <1>1 DEF ListInv, SelectTypeOK, Entries
  <2>7. QED BY <2>2, <2>4, <2>6 DEF SelectInv
<1>9. QED BY <1>3, <1>4, <1>5, <1>6, <1>7, <1>8

(* lwip_select *)
LEMMA SelectStep ==
    ASSUME SelectInv, NEW t \in Apps, lwip_select(t) \/ Runs(t) \/ TimesOut(t)
    PROVE  SelectInv'
<1>1. SelectTypeOK /\ CallbackInv /\ ListInv
  BY DEF SelectInv
<1>2. select_cb[t] \in Entries
  BY <1>1 DEF SelectTypeOK
<1>3. CASE lwip_select(t)
  <2>1. PICK R, W \in SUBSET {c \in Conns : accept[c] = "done"} :
          select_cb' = [select_cb EXCEPT ![t] = [NoSelect EXCEPT !.pc = "wait",
                                                 !.readset = R, !.writeset = W]]
    BY <1>3 DEF lwip_select
  <2>2. list' = <<t>> \o list /\ UNCHANGED <<sockets, socket, recvmbox, accept, cb>>
    BY <1>3 DEF lwip_select
  <2> DEFINE r == [NoSelect EXCEPT !.pc = "wait", !.readset = R, !.writeset = W]
  <2>3. r \in Entries /\ r.pc = "wait" /\ r.readset = R /\ r.writeset = W
    BY DEF NoSelect, Entries
  <2> HIDE DEF r
  <2>4. select_cb' = [select_cb EXCEPT ![t] = r]
    BY <2>1 DEF r
  <2>5. t \notin ToSet(list)
    BY <1>1, <1>3 DEF ListInv, lwip_select, Free
  <2>6. list' \in Seq(Apps) /\ IsInjective(list') /\ ToSet(list') = ToSet(list) \cup {t}
    BY <2>2, <2>5, <1>1, LinkAdds DEF ListInv, SelectTypeOK
  <2>7. SelectTypeOK'
    BY <2>2, <2>3, <2>4, <2>6, <1>1 DEF SelectTypeOK
  <2>8. CallbackInv'
    BY <2>2, <1>1 DEF CallbackInv, IsIn
  <2>9. ListInv'
    BY <2>2, <2>3, <2>4, <2>6, <1>1 DEF ListInv, SelectTypeOK
  <2>10. QED BY <2>7, <2>8, <2>9 DEF SelectInv
<1>4. ASSUME NEW pc \in {"woken", "timeout"}, NEW sem,
             Changed(select_cb', t, pc, select_cb[t].sem_signalled, sem), select_cb[t].pc = "wait",
             UNCHANGED <<sockets, socket, recvmbox, accept, list, cb>>
      PROVE  SelectInv'
  BY <1>4, <1>1 DEF SelectInv, SelectTypeOK, CallbackInv, ListInv, IsIn, Changed
<1>5. CASE Woken(t)
  <2>1. Changed(select_cb', t, "woken", select_cb[t].sem_signalled, 0)
    BY <1>1, <1>5, EntryChanges DEF Woken
  <2>2. QED BY <2>1, <1>4, <1>5 DEF Woken
<1>6. CASE TimesOut(t)
  <2>1. Changed(select_cb', t, "timeout", select_cb[t].sem_signalled, select_cb[t].sem)
    BY <1>1, <1>6, EntryChanges DEF TimesOut
  <2>2. QED BY <2>1, <1>4, <1>6 DEF TimesOut
<1>7. CASE Unlink(t)
  <2>1. /\ list' = Unlinked(list, t) /\ t \in ToSet(list) /\ select_cb[t].pc # "wait"
        /\ UNCHANGED <<sockets, socket, recvmbox, accept, select_cb, cb>>
    BY <1>7 DEF Unlink
  <2>2. list' \in Seq(Apps) /\ IsInjective(list') /\ ToSet(list') = ToSet(list) \ {t}
    BY <2>1, <1>1, UnlinkKeepsOthers DEF ListInv, SelectTypeOK
  <2>3. QED BY <2>1, <2>2, <1>1
            DEF SelectInv, SelectTypeOK, CallbackInv, ListInv, IsIn
<1>8. CASE Return(t)
  <2>1. /\ select_cb' = [select_cb EXCEPT ![t] = NoSelect] /\ t \notin ToSet(list)
        /\ UNCHANGED <<sockets, socket, recvmbox, accept, list, cb>>
    BY <1>8 DEF Return
  <2>2. NoSelect \in Entries /\ NoSelect.pc = "idle"
    BY DEF NoSelect, Entries
  <2>3. QED BY <2>1, <2>2, <1>1
            DEF SelectInv, SelectTypeOK, CallbackInv, ListInv, IsIn
<1>9. QED BY <1>3, <1>5, <1>6, <1>7, <1>8 DEF Runs

LEMMA SelectInvStep == SelectInv /\ [Next]_vars => SelectInv'
<1> SUFFICES ASSUME SelectInv, [Next]_vars PROVE SelectInv'
  OBVIOUS
<1>1. CASE UNCHANGED vars
  BY <1>1 DEF vars, SelectInv, SelectTypeOK, CallbackInv, ListInv, IsIn
<1>2. Apps \subseteq Threads /\ "tcpip" \in Threads
  BY DEF Threads
<1>3. QED BY <1>1, <1>2, CallbackStep, EventStep, SelectStep DEF Next

----------------------------------------------------------------------------
(* What one select waits for. *)
Minded(a) ==
    select_cb[a].pc = "wait" /\ select_cb[a].sem = 0 =>
        IF select_cb[a].sem_signalled = 1
        THEN \E t \in Threads : IsIn(t, {"signal"}) /\ cb[t].scb = a
        ELSE \A s \in Conns : Ready(s, a) =>
                 \E t \in Threads : IsIn(t, {"loop", "signal"}) /\ cb[t].s = s

(* Who is minded stays so while those that go through the list do, and     *)
(* nothing new is ready. *)
LEMMA StaysMinded ==
    ASSUME NEW a \in Apps, Minded(a),
           select_cb'[a].pc = "wait" /\ select_cb'[a].sem = 0 => select_cb'[a] = select_cb[a],
           \A s \in Conns : select_cb'[a].pc = "wait" /\ Ready(s, a)' => Ready(s, a),
           \A t \in Threads : IsIn(t, {"loop", "signal"}) => cb'[t] = cb[t]
    PROVE  Minded(a)'
<1> SUFFICES ASSUME select_cb'[a].pc = "wait", select_cb'[a].sem = 0
             PROVE  IF select_cb'[a].sem_signalled = 1
                    THEN \E t \in Threads : IsIn(t, {"signal"})' /\ cb'[t].scb = a
                    ELSE \A s \in Conns : Ready(s, a)' =>
                         \E t \in Threads : IsIn(t, {"loop", "signal"})' /\ cb'[t].s = s
  BY DEF Minded
<1>1. select_cb[a].pc = "wait" /\ select_cb[a].sem = 0
      /\ select_cb'[a].sem_signalled = select_cb[a].sem_signalled
  OBVIOUS
<1>2. CASE select_cb[a].sem_signalled = 1
  <2>1. PICK t \in Threads : IsIn(t, {"signal"}) /\ cb[t].scb = a
    BY <1>1, <1>2 DEF Minded
  <2>2. IsIn(t, {"signal"})' /\ cb'[t].scb = a
    BY <2>1 DEF IsIn
  <2>3. QED BY <2>2, <1>1, <1>2
<1>3. CASE select_cb[a].sem_signalled # 1
  <2>1. ASSUME NEW s \in Conns, Ready(s, a)'
        PROVE  \E t \in Threads : IsIn(t, {"loop", "signal"})' /\ cb'[t].s = s
    <3>1. PICK t \in Threads : IsIn(t, {"loop", "signal"}) /\ cb[t].s = s
      BY <2>1, <1>1, <1>3 DEF Minded
    <3>2. QED BY <3>1 DEF IsIn
  <2>2. QED BY <2>1, <1>1, <1>3
<1>4. QED BY <1>2, <1>3

(* The event is set: the thread is then about to go through the list for   *)
(* its socket. *)
LEMMA SetEventMinds ==
    ASSUME SelectInv, NEW a \in Apps, Minded(a), NEW t \in Threads, SetEvent(t)
    PROVE  Minded(a)'
<1>1. SelectTypeOK /\ CallbackInv
  BY DEF SelectInv
<1>2. /\ cb[t].pc = "set" /\ cb' = [cb EXCEPT ![t].pc = "loop"]
      /\ sockets' = [sockets EXCEPT ![cb[t].s] = Counted(@, cb[t].evt)]
      /\ UNCHANGED select_cb
  BY DEF SetEvent
<1>3. cb[t] \in Callbacks
  BY <1>1 DEF SelectTypeOK
<1>4. /\ cb'[t].pc = "loop" /\ cb'[t].s = cb[t].s
      /\ \A u \in Threads \ {t} : cb'[u] = cb[u]
  BY <1>1, <1>2, <1>3 DEF SelectTypeOK, Callbacks
<1>5. \A s \in Conns \ {cb[t].s} : sockets'[s] = sockets[s]
  BY <1>1, <1>2 DEF SelectTypeOK
<1>6. \A u \in Threads : IsIn(u, {"loop", "signal"}) =>
         u # t /\ IsIn(u, {"loop", "signal"})' /\ cb'[u] = cb[u]
  BY <1>2, <1>4 DEF IsIn
<1>7. \A s \in Conns : Ready(s, a)' =>
        \/ Ready(s, a)
        \/ IsIn(t, {"loop", "signal"})' /\ cb'[t].s = s
  BY <1>2, <1>4, <1>5 DEF Ready, IsIn
<1>8. \A u \in Threads : IsIn(u, {"signal"}) => IsIn(u, {"signal"})' /\ cb'[u].scb = cb[u].scb
  BY <1>2, <1>4 DEF IsIn
<1>9. QED BY <1>2, <1>6, <1>7, <1>8 DEF Minded

(* Once through the list: when it ends, nobody waits for the socket        *)
(* unsignalled, and else the one found is about to be signalled. *)
LEMMA ScanMinds ==
    ASSUME SelectInv, NEW a \in Apps, Minded(a), NEW t \in Threads, Scan(t)
    PROVE  Minded(a)'
<1>1. SelectTypeOK /\ CallbackInv /\ ListInv
  BY DEF SelectInv
<1>2. cb[t].pc = "loop" /\ UNCHANGED <<sockets, list>>
  BY DEF Scan
<1>3. CASE Ends(t) /\ UNCHANGED select_cb /\ ~ \E i \in DOMAIN list : ToWake(cb[t].s, list[i])
  <2>1. /\ cb'[t].pc = "none" /\ \A u \in Threads \ {t} : cb'[u] = cb[u]
    BY <1>1, <1>3, EndsType, NoEventType DEF SelectTypeOK
  <2>2. \A s \in Conns : Ready(s, a)' => Ready(s, a)
    BY <1>2, <1>3 DEF Ready
  <2>3. ASSUME select_cb[a].pc = "wait", select_cb[a].sem_signalled = 0
        PROVE  ~Ready(cb[t].s, a)
    <3>1. PICK i \in DOMAIN list : list[i] = a
      BY <2>3, <1>1 DEF ListInv, ToSet
    <3>2. ~ToWake(cb[t].s, a)
      BY <1>3, <3>1
    <3>3. QED BY <2>3, <3>2 DEF ToWake
  <2>4. select_cb[a].sem_signalled \in {0, 1}
    BY <1>1 DEF SelectTypeOK, Entries
  <2>5. ASSUME NEW s \in Conns, Ready(s, a)', select_cb[a].sem_signalled # 1,
               select_cb[a].pc = "wait", select_cb[a].sem = 0
        PROVE  \E u \in Threads : IsIn(u, {"loop", "signal"})' /\ cb'[u].s = s
    <3>1. PICK u \in Threads : IsIn(u, {"loop", "signal"}) /\ cb[u].s = s
      BY <2>2, <2>5 DEF Minded
    <3>2. u # t
      BY <2>2, <2>3, <2>4, <2>5, <3>1
    <3>3. QED BY <3>1, <3>2, <2>1 DEF IsIn
  <2>6. \A u \in Threads : IsIn(u, {"signal"}) => IsIn(u, {"signal"})' /\ cb'[u].scb = cb[u].scb
    BY <1>2, <2>1 DEF IsIn
  <2>7. QED BY <1>3, <2>5, <2>6 DEF Minded
<1>4. ASSUME NEW i \in DOMAIN list,
             select_cb' = [select_cb EXCEPT ![list[i]].sem_signalled = 1],
             cb' = [cb EXCEPT ![t] = [@ EXCEPT !.pc = "signal", !.scb = list[i]]]
      PROVE  Minded(a)'
  <2>1. list[i] \in Apps
    BY <1>1 DEF SelectTypeOK
  <2> DEFINE r == [cb[t] EXCEPT !.pc = "signal", !.scb = list[i]]
  <2>2. r.pc = "signal" /\ r.s = cb[t].s /\ r.scb = list[i] /\ r \in Callbacks
    <3>1. cb[t] \in Callbacks
      BY <1>1 DEF SelectTypeOK
    <3>2. QED BY <2>1, <3>1 DEF Callbacks
  <2>3. cb' = [cb EXCEPT ![t] = r]
    BY <1>4
  <2> HIDE DEF r
  <2>4. /\ cb'[t].pc = "signal" /\ cb'[t].s = cb[t].s /\ cb'[t].scb = list[i]
        /\ \A u \in Threads \ {t} : cb'[u] = cb[u]
    BY <2>2, <2>3, <1>1, CallbackMoves
  <2> DEFINE new == [select_cb EXCEPT ![list[i]].sem_signalled = 1]
             old == select_cb[list[i]]
  <2>5. Changed(new, list[i], old.pc, 1, old.sem)
    BY <2>1, <1>1, EntryChanges
  <2> HIDE DEF new
  <2>6. select_cb' = new
    BY <1>4 DEF new
  <2>7. Changed(select_cb', list[i], old.pc, 1, old.sem)
    BY <2>5, <2>6
  <2>8. \A u \in Threads : IsIn(u, {"loop", "signal"}) => IsIn(u, {"loop", "signal"})' /\ cb'[u].s = cb[u].s
    BY <2>4 DEF IsIn
  <2>9. \A u \in Threads : IsIn(u, {"signal"}) => IsIn(u, {"signal"})' /\ cb'[u].scb = cb[u].scb
    BY <1>2, <2>4 DEF IsIn
  <2>10. CASE a = list[i]
    <3>1. select_cb'[a].sem_signalled = 1 /\ IsIn(t, {"signal"})' /\ cb'[t].scb = a
      BY <2>4, <2>7, <2>10 DEF Changed, IsIn
    <3>2. QED BY <3>1 DEF Minded
  <2>11. CASE a # list[i]
    <3>1. select_cb'[a] = select_cb[a]
      BY <2>7, <2>11 DEF Changed
    <3>2. \A s \in Conns : Ready(s, a)' => Ready(s, a)
      BY <3>1, <1>2 DEF Ready
    <3>3. QED BY <3>1, <3>2, <2>8, <2>9 DEF Minded
  <2>12. QED BY <2>10, <2>11
<1>5. QED BY <1>3, <1>4 DEF Scan

(* The semaphore is signalled. *)
LEMMA SignalSemMinds ==
    ASSUME SelectInv, NEW a \in Apps, Minded(a), NEW t \in Threads, SignalSem(t)
    PROVE  Minded(a)'
<1>1. SelectTypeOK /\ CallbackInv
  BY DEF SelectInv
<1>2. /\ cb[t].pc = "signal" /\ cb' = [cb EXCEPT ![t].pc = "loop"]
      /\ UNCHANGED sockets
  BY DEF SignalSem
<1>3. cb[t] \in Callbacks /\ cb[t].scb \in Apps
  BY <1>1, <1>2 DEF SelectTypeOK, CallbackInv, IsIn
<1>4. /\ cb'[t].pc = "loop" /\ cb'[t].s = cb[t].s
      /\ \A u \in Threads \ {t} : cb'[u] = cb[u]
  BY <1>1, <1>2, <1>3 DEF SelectTypeOK, Callbacks
<1>5. \A u \in Threads : IsIn(u, {"loop", "signal"}) => IsIn(u, {"loop", "signal"})' /\ cb'[u].s = cb[u].s
  BY <1>4 DEF IsIn
<1>6. CASE a = cb[t].scb /\ select_cb[a].pc # "idle"
  <2> DEFINE new == [select_cb EXCEPT ![a].sem = 1]
  <2>1. Changed(new, a, select_cb[a].pc, select_cb[a].sem_signalled, 1)
    BY <1>1, EntryChanges
  <2> HIDE DEF new
  <2>2. select_cb' = new
    BY <1>6 DEF new, SignalSem
  <2>3. QED BY <2>1, <2>2 DEF Minded, Changed
<1>7. CASE a = cb[t].scb /\ select_cb[a].pc = "idle"
  BY <1>7 DEF SignalSem, Minded
<1>8. CASE a # cb[t].scb
  <2>1. select_cb'[a] = select_cb[a]
    BY <1>8, <1>1 DEF SignalSem, SelectTypeOK
  <2>2. \A s \in Conns : Ready(s, a)' => Ready(s, a)
    BY <2>1, <1>2 DEF Ready
  <2>3. \A u \in Threads : IsIn(u, {"signal"}) /\ cb[u].scb = a =>
          IsIn(u, {"signal"})' /\ cb'[u].scb = a
    BY <1>4, <1>8 DEF IsIn
  <2>4. QED BY <2>1, <2>2, <2>3, <1>5 DEF Minded
<1>9. QED BY <1>6, <1>7, <1>8

(* A step of the others. *)
LEMMA OthersMind ==
    ASSUME SelectInv, NEW a \in Apps, Minded(a), NEW c \in Conns, NEW t \in Threads,
           \/ LookUp(t) \/ CountDown(t) \/ DataComes(c) \/ SendBufferChanges(c)
           \/ t \in Apps /\ \/ lwip_recvfrom(t, c) \/ Allocate(t, c)
                            \/ TakeOver(t, c) \/ SetSocket(t, c)
                            \/ lwip_select(t) \/ Runs(t) \/ TimesOut(t)
    PROVE  Minded(a)'
<1>1. SelectTypeOK /\ CallbackInv /\ ListInv
  BY DEF SelectInv
<1>2. ASSUME UNCHANGED <<sockets, select_cb>>, NEW u \in Threads, ~IsIn(u, {"loop", "signal"}),
             \E r : cb' = [cb EXCEPT ![u] = r]
      PROVE  Minded(a)'
  <2>1. \A v \in Threads : IsIn(v, {"loop", "signal"}) => cb'[v] = cb[v]
    BY <1>2, <1>1 DEF SelectTypeOK
  <2>2. \A s \in Conns : Ready(s, a)' => Ready(s, a)
    BY <1>2 DEF Ready
  <2>3. QED BY <2>1, <2>2, <1>2, StaysMinded
<1>3. CASE LookUp(t) \/ CountDown(t)
  <2>1. ~IsIn(t, {"loop", "signal"}) /\ UNCHANGED <<sockets, select_cb>>
    BY <1>3 DEF LookUp, CountDown, IsIn
  <2>2. \E r : cb' = [cb EXCEPT ![t] = r]
    BY <1>3 DEF LookUp, CountDown, Ends
  <2>3. QED BY <1>2, <2>1, <2>2
<1>4. CASE DataComes(c) \/ SendBufferChanges(c)
  <2>1. "tcpip" \in Threads /\ ~IsIn("tcpip", {"loop", "signal"}) /\ UNCHANGED <<sockets, select_cb>>
    BY <1>4 DEF DataComes, SendBufferChanges, IsIn, Free, Threads
  <2>2. \E r : cb' = [cb EXCEPT !["tcpip"] = r]
    BY <1>4 DEF DataComes, SendBufferChanges, Event
  <2>3. QED BY <1>2, <2>1, <2>2
<1>5. CASE lwip_recvfrom(t, c)
  <2>1. ~IsIn(t, {"loop", "signal"}) /\ UNCHANGED <<sockets, select_cb>>
    BY <1>5 DEF lwip_recvfrom, IsIn, Free
  <2>2. \E r : cb' = [cb EXCEPT ![t] = r]
    BY <1>5 DEF lwip_recvfrom, Event
  <2>3. QED BY <1>2, <2>1, <2>2
<1>6. CASE Allocate(t, c) \/ TakeOver(t, c)
  <2>1. accept[c] # "done" /\ UNCHANGED <<cb, select_cb>>
        /\ \A s \in Conns \ {c} : sockets'[s] = sockets[s]
    BY <1>1, <1>6 DEF Allocate, TakeOver, SelectTypeOK
  <2>2. ASSUME select_cb[a].pc = "wait", NEW s \in Conns, Ready(s, a)' PROVE Ready(s, a)
    <3>1. s \in select_cb[a].readset \cup select_cb[a].writeset
      BY <2>1, <2>2 DEF Ready
    <3>2. accept[s] = "done"
      BY <3>1, <2>2, <1>1 DEF ListInv
    <3>3. QED BY <2>1, <2>2, <3>2 DEF Ready
  <2>3. QED BY <2>1, <2>2, StaysMinded
<1>7. CASE SetSocket(t, c) \/ Unlink(t)
  <2>1. UNCHANGED <<cb, sockets, select_cb>>
    BY <1>7 DEF SetSocket, Unlink
  <2>2. QED BY <2>1, StaysMinded DEF Ready
<1>8. CASE t \in Apps /\ lwip_select(t)
  <2>1. UNCHANGED <<cb, sockets>>
    BY <1>8 DEF lwip_select
  <2>2. PICK R, W \in SUBSET {x \in Conns : accept[x] = "done"} :
          /\ \A s \in R : sockets[s].rcvevent = 0
          /\ \A s \in W : sockets[s].sendevent = 0
          /\ select_cb' = [select_cb EXCEPT ![t] = [NoSelect EXCEPT !.pc = "wait",
                                                 !.readset = R, !.writeset = W]]
    BY <1>8 DEF lwip_select
  <2>3. CASE a = t
    <3>1. /\ select_cb'[a].readset = R /\ select_cb'[a].writeset = W
          /\ select_cb'[a].sem_signalled = 0
      BY <2>2, <2>3, <1>1 DEF NoSelect, SelectTypeOK
    <3>2. \A s \in Conns : ~Ready(s, a)'
      BY <3>1, <2>1, <2>2 DEF Ready
    <3>3. QED BY <3>1, <3>2 DEF Minded
  <2>4. CASE a # t
    <3>1. select_cb'[a] = select_cb[a]
      BY <2>2, <2>4, <1>1 DEF SelectTypeOK
    <3>2. QED BY <3>1, <2>1, StaysMinded DEF Ready
  <2>5. QED BY <2>3, <2>4
<1>9. CASE t \in Apps /\ (Woken(t) \/ TimesOut(t) \/ Return(t))
  <2>1. UNCHANGED <<cb, sockets>>
    BY <1>9 DEF Woken, TimesOut, Return
  <2>2. a # t => select_cb'[a] = select_cb[a]
    BY <1>9, <1>1 DEF Woken, TimesOut, Return, SelectTypeOK
  <2>3. a = t => select_cb'[a].pc # "wait"
    <3>1. CASE Woken(t)
      BY <3>1, EntryChanges, <1>1 DEF Woken, Changed
    <3>2. CASE TimesOut(t)
      BY <3>2, EntryChanges, <1>1 DEF TimesOut, Changed
    <3>3. CASE Return(t)
      BY <3>3, <1>1 DEF Return, NoSelect, SelectTypeOK
    <3>4. QED BY <3>1, <3>2, <3>3, <1>9
  <2>4. QED BY <2>1, <2>2, <2>3, StaysMinded DEF Ready
<1>10. QED BY <1>3, <1>4, <1>5, <1>6, <1>7, <1>8, <1>9 DEF Runs

(* No select waits for what is there without somebody about to wake it.    *)
THEOREM NoWakeupIsLost == Spec => []NoLostWakeup
<1>1. Init => NoLostWakeup
  BY DEF Init, NoLostWakeup, NoSelect
<1>2. SelectInv /\ NoLostWakeup /\ [Next]_vars => NoLostWakeup'
  <2> SUFFICES ASSUME SelectInv, NoLostWakeup, [Next]_vars, NEW a \in Apps
               PROVE  Minded(a)'
    BY DEF NoLostWakeup, Minded
  <2>1. Minded(a)
    BY DEF NoLostWakeup, Minded
  <2>2. CASE UNCHANGED vars
    BY <2>1, <2>2, StaysMinded DEF vars, Ready
  <2>3. Apps \subseteq Threads /\ "tcpip" \in Threads /\ 0 \in Conns
    BY SocketZero DEF Threads
  <2>4. ASSUME NEW t \in Threads, event_callback(t) PROVE Minded(a)'
    BY <2>1, <2>3, <2>4, SetEventMinds, ScanMinds, SignalSemMinds, OthersMind DEF event_callback
  <2>5. ASSUME NEW t \in Apps, lwip_select(t) \/ Runs(t) \/ TimesOut(t) PROVE Minded(a)'
    BY <2>1, <2>3, <2>5, OthersMind
  <2>6. ASSUME NEW c \in Conns, DataComes(c) \/ SendBufferChanges(c) PROVE Minded(a)'
    BY <2>1, <2>3, <2>6, OthersMind
  <2>7. ASSUME NEW t \in Apps, NEW c \in Conns,
               lwip_recvfrom(t, c) \/ Allocate(t, c) \/ TakeOver(t, c) \/ SetSocket(t, c)
        PROVE  Minded(a)'
    BY <2>1, <2>3, <2>7, OthersMind
  <2>8. QED BY <2>2, <2>4, <2>5, <2>6, <2>7 DEF Next
<1>3. QED BY <1>1, <1>2, SelectInitInv, SelectInvStep, PTL DEF Spec
----------------------------------------------------------------------------
(* What WakeupsAreTrue rests on.  First the numbers: no netconn gets one   *)
(* above its own, none has a socket before it is accepted, and while all   *)
(* have their own each callback is about the socket of its netconn.        *)
NumbersInv ==
    /\ \A c \in Conns : socket[c] <= c /\ (accept[c] # "done" => socket[c] < 0)
    /\ \A c \in Conns \ Fresh : accept[c] = "done" /\ socket[c] = c /\ sockets[c].used
    /\ \A t \in Threads : IsIn(t, {"count"}) => cb[t].conn \in Fresh
    /\ OwnNumbers => \A t \in Threads : IsIn(t, {"set", "loop", "signal"}) => cb[t].s = cb[t].conn

(* Data is announced by the tcpip thread and taken by the owner, and who   *)
(* selects is in no callback. *)
EventsInv ==
    /\ \A t \in Threads : /\ cb[t].evt = "RCVPLUS" => t = "tcpip"
                          /\ cb[t].evt = "RCVMINUS" => t = Owner[cb[t].conn]
    /\ \A a \in Apps : select_cb[a].pc # "idle" => cb[a].pc = "none"

(* A select that cannot time out waits until it is signalled, and one      *)
(* thread does that. *)
SignalledOnce(a) ==
    /\ select_cb[a].pc # "timeout"
    /\ select_cb[a].sem = 1 \/ select_cb[a].pc = "woken" => select_cb[a].sem_signalled = 1
    /\ \A t \in Threads : IsIn(t, {"signal"}) /\ cb[t].scb = a =>
          /\ select_cb[a].pc = "wait" /\ select_cb[a].sem = 0
          /\ select_cb[a].sem_signalled = 1
          /\ \A u \in Threads : IsIn(u, {"signal"}) /\ cb[u].scb = a => u = t

SignalInv == \A a \in Apps \ Timeouts : SignalledOnce(a)

(* Data that is counted and not posted yet, and data that is taken and     *)
(* still counted. *)
Announces(k, c) == k.pc \in {"loop", "signal"} /\ k.evt = "RCVPLUS" /\ k.conn = c
Takes(k, c) == k.pc \in {"begin", "set"} /\ k.evt = "RCVMINUS" /\ k.conn = c

Accounted(c) ==
    sockets[c].rcvevent = recvmbox[c] + (IF Announces(cb["tcpip"], c) THEN 1 ELSE 0)
                                      + (IF Takes(cb[Owner[c]], c) THEN 1 ELSE 0)

AccountInv == OwnNumbers => \A c \in Conns \ Fresh : Accounted(c)

(* A select for connections only its own thread reads: nothing is read     *)
(* while it waits, and it is signalled when there is something. *)
FindsData(a) ==
    select_cb[a].pc \in {"wait", "woken"} /\ select_cb[a].writeset = {}
    /\ (\A s \in select_cb[a].readset : Owner[s] = a) =>
        /\ \A s \in select_cb[a].readset : sockets[s].rcvevent >= 0
        /\ select_cb[a].sem_signalled = 1 =>
              \E s \in select_cb[a].readset : sockets[s].rcvevent > 0

FindsInv == OwnNumbers => \A a \in Apps \ Timeouts : FindsData(a)

WakeInv == NumbersInv /\ EventsInv /\ SignalInv /\ AccountInv /\ FindsInv

(* What each step of a callback does. *)
IsOver(t) ==
    /\ cb'[t].pc = "none" /\ cb'[t].evt = "none"
    /\ \A u \in Threads \ {t} : cb'[u] = cb[u]
    /\ \A c \in Conns : recvmbox'[c] = IF c = cb[t].conn /\ cb[t].evt = "RCVPLUS"
                                       THEN recvmbox[c] + 1 ELSE recvmbox[c]
GoesOn(t, pc) ==
    /\ cb'[t].pc = pc /\ cb'[t].conn = cb[t].conn /\ cb'[t].evt = cb[t].evt
    /\ \A u \in Threads \ {t} : cb'[u] = cb[u]
    /\ UNCHANGED recvmbox

HasLookedUp(t) ==
    /\ cb[t].pc = "begin" /\ UNCHANGED <<sockets, socket, select_cb>>
    /\ \/ GoesOn(t, "count") /\ socket[cb[t].conn] < 0
       \/ GoesOn(t, "set") /\ socket[cb[t].conn] >= 0 /\ cb'[t].s = socket[cb[t].conn]
       \/ /\ IsOver(t)
          /\ \/ socket[cb[t].conn] < 0 /\ cb[t].evt # "RCVPLUS"
             \/ socket[cb[t].conn] >= 0 /\ ~sockets[socket[cb[t].conn]].used
HasCountedDown(t) ==
    /\ cb[t].pc = "count" /\ IsOver(t) /\ UNCHANGED <<sockets, select_cb>>
    /\ \A c \in Conns \ {cb[t].conn} : socket'[c] = socket[c]
    /\ socket'[cb[t].conn] \in {cb[t].s - 1, socket[cb[t].conn] - 1}
HasSet(t) ==
    /\ cb[t].pc = "set" /\ GoesOn(t, "loop") /\ cb'[t].s = cb[t].s
    /\ UNCHANGED <<socket, select_cb>>
    /\ \A c \in Conns : sockets'[c].used = sockets[c].used
    /\ \A c \in Conns \ {cb[t].s} : sockets'[c] = sockets[c]
    /\ sockets'[cb[t].s].rcvevent =
         IF cb[t].evt = "RCVPLUS" THEN sockets[cb[t].s].rcvevent + 1
         ELSE IF cb[t].evt = "RCVMINUS" THEN sockets[cb[t].s].rcvevent - 1
         ELSE sockets[cb[t].s].rcvevent
HasEnded(t) ==
    /\ cb[t].pc = "loop" /\ IsOver(t) /\ UNCHANGED <<socket, sockets, select_cb>>
HasFound(t, a) ==
    /\ cb[t].pc = "loop" /\ GoesOn(t, "signal") /\ cb'[t].s = cb[t].s /\ cb'[t].scb = a
    /\ UNCHANGED <<socket, sockets>>
    /\ a \in ToSet(list) /\ ToWake(cb[t].s, a)
    /\ Changed(select_cb', a, select_cb[a].pc, 1, select_cb[a].sem)
HasSignalled(t, a) ==
    /\ cb[t].pc = "signal" /\ cb[t].scb = a /\ GoesOn(t, "loop") /\ cb'[t].s = cb[t].s
    /\ UNCHANGED <<socket, sockets>>
    /\ IF select_cb[a].pc = "idle" THEN UNCHANGED select_cb
       ELSE Changed(select_cb', a, select_cb[a].pc, select_cb[a].sem_signalled, 1)

HasMoved(t) ==
    \/ HasLookedUp(t) \/ HasCountedDown(t) \/ HasSet(t) \/ HasEnded(t)
    \/ \E a \in Apps : HasFound(t, a) \/ HasSignalled(t, a)

LEMMA CallbackDoes ==
    ASSUME SelectInv, NEW t \in Threads, event_callback(t)
    PROVE  HasMoved(t) /\ UNCHANGED <<accept, list>>
<1>1. SelectTypeOK /\ CallbackInv
  BY DEF SelectInv
<1>2. cb[t] \in Callbacks /\ cb \in [Threads -> Callbacks]
  BY <1>1 DEF SelectTypeOK
<1>3. ASSUME Ends(t) PROVE IsOver(t)
  <2>1. cb[t].conn \in Conns /\ recvmbox \in [Conns -> Int]
    BY <1>1, <1>2 DEF Callbacks, SelectTypeOK
  <2>2. NoEvent.evt = "none"
    BY DEF NoEvent, Callback
  <2>3. QED BY <1>2, <1>3, <2>1, <2>2, NoEventType DEF Ends, IsOver
<1>4. ASSUME NEW r \in Callbacks, cb' = [cb EXCEPT ![t] = r], UNCHANGED recvmbox,
             r.conn = cb[t].conn, r.evt = cb[t].evt
      PROVE  GoesOn(t, r.pc) /\ cb'[t] = r
  BY <1>2, <1>4 DEF GoesOn
<1>5. CASE LookUp(t)
  <2> DEFINE s == socket[cb[t].conn]
  <2>1. UNCHANGED <<sockets, socket, accept, select_cb, list>> /\ cb[t].pc = "begin"
    BY <1>5 DEF LookUp
  <2>2. s \in Int
    BY <1>1, <1>2 DEF SelectTypeOK, Callbacks
  <2>3. CASE /\ Ends(t)
             /\ \/ s < 0 /\ cb[t].evt # "RCVPLUS"
                \/ s >= 0 /\ ~sockets[s].used
    BY <2>1, <2>3, <1>3 DEF HasMoved, HasLookedUp
  <2>4. CASE /\ cb' = [cb EXCEPT ![t] = [@ EXCEPT !.pc = "count", !.s = s]]
             /\ UNCHANGED recvmbox /\ s < 0
    <3> DEFINE r == [cb[t] EXCEPT !.pc = "count", !.s = s]
    <3>1. r \in Callbacks /\ r.pc = "count" /\ r.evt = cb[t].evt /\ r.conn = cb[t].conn
      BY <1>2, <2>2 DEF Callbacks
    <3>2. cb' = [cb EXCEPT ![t] = r]
      BY <2>4
    <3> HIDE DEF r
    <3>3. GoesOn(t, r.pc)
      BY <1>4, <2>4, <3>1, <3>2
    <3>4. QED BY <2>1, <2>4, <3>1, <3>3 DEF HasMoved, HasLookedUp
  <2>5. CASE /\ cb' = [cb EXCEPT ![t] = [@ EXCEPT !.pc = "set", !.s = s]]
             /\ UNCHANGED recvmbox /\ s >= 0
    <3> DEFINE r == [cb[t] EXCEPT !.pc = "set", !.s = s]
    <3>1. /\ r \in Callbacks /\ r.pc = "set" /\ r.evt = cb[t].evt /\ r.conn = cb[t].conn
          /\ r.s = s
      BY <1>2, <2>2 DEF Callbacks
    <3>2. cb' = [cb EXCEPT ![t] = r]
      BY <2>5
    <3> HIDE DEF r
    <3>3. GoesOn(t, r.pc) /\ cb'[t] = r
      BY <1>4, <2>5, <3>1, <3>2
    <3>4. QED BY <2>1, <2>5, <3>1, <3>3 DEF HasMoved, HasLookedUp
  <2>6. QED BY <1>5, <2>1, <2>2, <2>3, <2>4, <2>5 DEF LookUp
<1>6. CASE CountDown(t)
  <2>1. PICK old \in {cb[t].s, socket[cb[t].conn]} :
          socket' = [socket EXCEPT ![cb[t].conn] = old - 1]
    BY <1>6 DEF CountDown
  <2>2. socket \in [Conns -> Int] /\ cb[t].conn \in Conns
    BY <1>1, <1>2 DEF SelectTypeOK, Callbacks
  <2>3. QED BY <1>3, <1>6, <2>1, <2>2 DEF CountDown, HasMoved, HasCountedDown
<1>7. CASE SetEvent(t)
  <2>1. /\ cb[t].pc = "set" /\ cb' = [cb EXCEPT ![t].pc = "loop"]
        /\ sockets' = [sockets EXCEPT ![cb[t].s] = Counted(@, cb[t].evt)]
        /\ UNCHANGED <<socket, recvmbox, accept, select_cb, list>>
    BY <1>7 DEF SetEvent
  <2>2. cb[t].s \in Conns /\ cb[t].evt \in {"RCVPLUS", "RCVMINUS", "SENDPLUS", "SENDMINUS"}
    BY <1>1, <1>2, <2>1 DEF CallbackInv, Callbacks, IsIn
  <2> DEFINE sock == sockets[cb[t].s]
             new == Counted(sock, cb[t].evt)
  <2>3. sock \in [used : BOOLEAN, rcvevent : Int, sendevent : {0, 1}]
    BY <1>1, <2>2 DEF SelectTypeOK
  <2>4. new.used = sock.used
    BY <2>2, <2>3 DEF Counted
  <2>5. new.rcvevent = IF cb[t].evt = "RCVPLUS" THEN sock.rcvevent + 1
                       ELSE IF cb[t].evt = "RCVMINUS" THEN sock.rcvevent - 1
                       ELSE sock.rcvevent
    BY <2>2, <2>3, CountedType
  <2>6. /\ sockets'[cb[t].s] = new
        /\ \A c \in Conns \ {cb[t].s} : sockets'[c] = sockets[c]
    BY <1>1, <2>1, <2>2 DEF SelectTypeOK
  <2> DEFINE r == [cb[t] EXCEPT !.pc = "loop"]
  <2>7. /\ r \in Callbacks /\ r.pc = "loop" /\ r.evt = cb[t].evt /\ r.conn = cb[t].conn
        /\ r.s = cb[t].s
    BY <1>2 DEF Callbacks
  <2>8. cb' = [cb EXCEPT ![t] = r]
    BY <2>1
  <2> HIDE DEF r, new
  <2>9. GoesOn(t, r.pc) /\ cb'[t] = r
    BY <1>4, <2>1, <2>7, <2>8
  <2>10. HasSet(t)
    BY <2>1, <2>4, <2>5, <2>6, <2>7, <2>9 DEF HasSet
  <2>11. QED BY <2>1, <2>10 DEF HasMoved
<1>8. CASE Scan(t)
  <2>1. cb[t].pc = "loop" /\ UNCHANGED <<sockets, socket, accept, list>>
    BY <1>8 DEF Scan
  <2>2. CASE Ends(t) /\ UNCHANGED select_cb
    BY <1>3, <2>1, <2>2 DEF HasMoved, HasEnded
  <2>3. ASSUME NEW i \in DOMAIN list, ToWake(cb[t].s, list[i]), UNCHANGED recvmbox,
               select_cb' = [select_cb EXCEPT ![list[i]].sem_signalled = 1],
               cb' = [cb EXCEPT ![t] = [@ EXCEPT !.pc = "signal", !.scb = list[i]]]
        PROVE  HasMoved(t)
    <3> DEFINE a == list[i]
               new == [select_cb EXCEPT ![a].sem_signalled = 1]
               r == [cb[t] EXCEPT !.pc = "signal", !.scb = a]
    <3>1. a \in Apps /\ a \in ToSet(list)
      BY <1>1 DEF SelectTypeOK, ToSet
    <3>2. /\ r \in Callbacks /\ r.pc = "signal" /\ r.evt = cb[t].evt /\ r.conn = cb[t].conn
          /\ r.s = cb[t].s /\ r.scb = a
      BY <1>2, <3>1 DEF Callbacks
    <3>3. cb' = [cb EXCEPT ![t] = r]
      BY <2>3
    <3>4. Changed(new, a, select_cb[a].pc, 1, select_cb[a].sem)
      BY <1>1, <3>1, EntryChanges
    <3>5. select_cb' = new
      BY <2>3
    <3>6. ToWake(cb[t].s, a)
      BY <2>3
    <3> HIDE DEF r, new, a
    <3>7. GoesOn(t, r.pc) /\ cb'[t] = r
      BY <1>4, <2>3, <3>2, <3>3
    <3>8. HasFound(t, a)
      BY <2>1, <3>1, <3>2, <3>4, <3>5, <3>6, <3>7 DEF HasFound
    <3>9. QED BY <3>1, <3>8 DEF HasMoved
  <2>4. QED BY <1>8, <2>1, <2>2, <2>3 DEF Scan
<1>9. CASE SignalSem(t)
  <2> DEFINE a == cb[t].scb
             new == [select_cb EXCEPT ![a].sem = 1]
             r == [cb[t] EXCEPT !.pc = "loop"]
  <2>1. /\ cb[t].pc = "signal" /\ cb' = [cb EXCEPT ![t].pc = "loop"]
        /\ UNCHANGED <<sockets, socket, recvmbox, accept, list>>
        /\ select_cb' = IF select_cb[a].pc = "idle" THEN select_cb ELSE new
    BY <1>9 DEF SignalSem
  <2>2. a \in Apps
    BY <1>1, <2>1 DEF CallbackInv, IsIn
  <2>3. /\ r \in Callbacks /\ r.pc = "loop" /\ r.evt = cb[t].evt /\ r.conn = cb[t].conn
        /\ r.s = cb[t].s
    BY <1>2 DEF Callbacks
  <2>4. cb' = [cb EXCEPT ![t] = r]
    BY <2>1
  <2>5. Changed(new, a, select_cb[a].pc, select_cb[a].sem_signalled, 1)
    BY <1>1, <2>2, EntryChanges
  <2> HIDE DEF r, new
  <2>6. GoesOn(t, r.pc) /\ cb'[t] = r
    BY <1>4, <2>1, <2>3, <2>4
  <2>7. HasSignalled(t, a)
    BY <2>1, <2>3, <2>5, <2>6 DEF HasSignalled
  <2>8. QED BY <2>1, <2>2, <2>7 DEF HasMoved
<1>10. QED BY <1>5, <1>6, <1>7, <1>8, <1>9 DEF event_callback

LEMMA OnlyThatMoves ==
    ASSUME SelectInv, NEW t \in Threads, HasMoved(t)
    PROVE  /\ cb[t].pc # "none" /\ cb[t] \in Callbacks
           /\ \A u \in Threads \ {t} : cb'[u] = cb[u]
           /\ \/ cb'[t].pc = "none" /\ cb'[t].evt = "none"
              \/ cb'[t].conn = cb[t].conn /\ cb'[t].evt = cb[t].evt
BY DEF SelectInv, SelectTypeOK, HasMoved, HasLookedUp, HasCountedDown, HasSet, HasEnded,
       HasFound, HasSignalled, GoesOn, IsOver

(* A netconn that has lost its own number never gets it again. *)
LEMMA NumbersStay ==
    ASSUME SelectInv, NumbersInv, [Next]_vars
    PROVE  OwnNumbers' => OwnNumbers
<1> SUFFICES ASSUME OwnNumbers', NEW c \in Conns, accept[c] = "done", socket[c] # c PROVE FALSE
  BY DEF OwnNumbers
<1>1. /\ socket \in [Conns -> Int] /\ cb \in [Threads -> Callbacks] /\ c \in Int
      /\ accept \in [Conns -> {"no", "allocated", "counted", "done"}]
  BY SocketZero DEF SelectInv, SelectTypeOK
<1>2. socket[c] < c /\ socket[c] \in Int
  BY <1>1 DEF NumbersInv
<1>3. accept'[c] = "done" => socket'[c] = c
  BY DEF OwnNumbers
<1>4. ASSUME socket'[c] = socket[c], accept'[c] = accept[c] PROVE FALSE
  BY <1>3, <1>4
<1>5. ASSUME NEW t \in Threads, event_callback(t) PROVE FALSE
  <2>1. HasMoved(t) /\ UNCHANGED accept
    BY <1>5, CallbackDoes
  <2>2. CASE HasCountedDown(t) /\ cb[t].conn = c
    <3>1. cb[t].s \in Int /\ cb[t].s < 0 /\ c >= 0
      BY <1>1, <2>2 DEF SelectInv, CallbackInv, IsIn, Callbacks, HasCountedDown, Conns
    <3>2. socket'[c] # c
      BY <1>1, <1>2, <2>2, <3>1 DEF HasCountedDown
    <3>3. QED BY <1>3, <2>1, <3>2
  <2>3. CASE HasCountedDown(t) /\ cb[t].conn # c
    BY <1>4, <2>1, <2>3 DEF HasCountedDown
  <2>4. CASE ~HasCountedDown(t)
    BY <1>4, <2>1, <2>4 DEF HasMoved, HasLookedUp, HasSet, HasEnded, HasFound, HasSignalled
  <2>5. QED BY <2>2, <2>3, <2>4
<1>6. ASSUME NEW t \in Apps, NEW d \in Conns, Allocate(t, d) \/ TakeOver(t, d) \/ SetSocket(t, d)
      PROVE  FALSE
  <2>1. accept[d] # "done" /\ c # d
    BY <1>6 DEF Allocate, TakeOver, SetSocket
  <2>2. socket'[c] = socket[c] /\ accept'[c] = accept[c]
    BY <1>1, <1>6, <2>1 DEF Allocate, TakeOver, SetSocket
  <2>3. QED BY <1>4, <2>2
<1>7. ASSUME NEW t \in Apps, lwip_select(t) \/ Runs(t) \/ TimesOut(t) PROVE FALSE
  BY <1>4, <1>7 DEF lwip_select, Runs, Woken, Unlink, Return, TimesOut
<1>8. ASSUME NEW d \in Conns, DataComes(d) \/ SendBufferChanges(d) PROVE FALSE
  BY <1>4, <1>8 DEF DataComes, SendBufferChanges
<1>9. ASSUME NEW t \in Apps, NEW d \in Conns, lwip_recvfrom(t, d) PROVE FALSE
  BY <1>4, <1>9 DEF lwip_recvfrom
<1>10. CASE UNCHANGED vars
  BY <1>4, <1>10 DEF vars
<1>11. QED BY <1>5, <1>6, <1>7, <1>8, <1>9, <1>10 DEF Next

----------------------------------------------------------------------------
(* A step of a callback. *)
LEMMA CallbackNumbers ==
    ASSUME SelectInv, NumbersInv, OwnNumbers' => OwnNumbers,
           NEW t \in Threads, HasMoved(t), UNCHANGED accept
    PROVE  NumbersInv'
<1>1. /\ SelectTypeOK /\ CallbackInv /\ cb[t] \in Callbacks /\ cb[t].conn \in Conns
      /\ \A u \in Threads \ {t} : cb'[u] = cb[u]
  BY OnlyThatMoves DEF SelectInv, Callbacks
<1>2. \A c \in Conns : c \in Int /\ c >= 0 /\ socket[c] \in Int
  BY <1>1 DEF Conns, SelectTypeOK
<1>3. ~HasCountedDown(t) => UNCHANGED socket
  BY DEF HasMoved, HasLookedUp, HasSet, HasEnded, HasFound, HasSignalled
<1>4. HasCountedDown(t) => cb[t].conn \in Fresh /\ cb[t].s \in Int /\ cb[t].s < 0
  BY <1>1 DEF HasCountedDown, NumbersInv, CallbackInv, IsIn, Callbacks
<1>5. ASSUME NEW c \in Conns PROVE socket'[c] <= c /\ (accept'[c] # "done" => socket'[c] < 0)
  <2>1. socket[c] <= c /\ (accept[c] # "done" => socket[c] < 0)
    BY DEF NumbersInv
  <2>2. CASE HasCountedDown(t) /\ c = cb[t].conn
    BY <1>2, <1>4, <2>1, <2>2 DEF HasCountedDown
  <2>3. CASE HasCountedDown(t) /\ c # cb[t].conn
    BY <2>1, <2>3 DEF HasCountedDown
  <2>4. QED BY <1>3, <2>1, <2>2, <2>3
<1>6. ASSUME NEW c \in Conns \ Fresh
      PROVE  accept'[c] = "done" /\ socket'[c] = c /\ sockets'[c].used
  <2>1. accept[c] = "done" /\ socket[c] = c /\ sockets[c].used
    BY DEF NumbersInv
  <2>2. socket'[c] = c
    BY <1>3, <1>4, <2>1 DEF HasCountedDown
  <2>3. sockets'[c].used
    BY <2>1 DEF HasMoved, HasLookedUp, HasCountedDown, HasSet, HasEnded, HasFound, HasSignalled
  <2>4. QED BY <2>1, <2>2, <2>3
<1>7. ASSUME NEW u \in Threads, IsIn(u, {"count"})' PROVE cb'[u].conn \in Fresh
  <2>1. CASE u # t
    BY <1>1, <1>7, <2>1 DEF NumbersInv, IsIn
  <2>2. CASE u = t
    <3>1. HasLookedUp(t) /\ GoesOn(t, "count") /\ socket[cb[t].conn] < 0
      BY <1>7, <2>2 DEF HasMoved, HasLookedUp, HasCountedDown, HasSet, HasEnded, HasFound,
                        HasSignalled, GoesOn, IsOver, IsIn
    <3>2. QED BY <1>1, <1>2, <2>2, <3>1 DEF NumbersInv, GoesOn
  <2>3. QED BY <2>1, <2>2
<1>8. ASSUME OwnNumbers', NEW u \in Threads, IsIn(u, {"set", "loop", "signal"})'
      PROVE  cb'[u].s = cb'[u].conn
  <2>1. CASE u # t
    BY <1>1, <1>8, <2>1 DEF NumbersInv, IsIn
  <2>2. CASE u = t /\ HasLookedUp(t)
    <3>1. GoesOn(t, "set") /\ socket[cb[t].conn] >= 0 /\ cb'[t].s = socket[cb[t].conn]
      BY <1>8, <2>2 DEF HasLookedUp, GoesOn, IsOver, IsIn
    <3>2. accept[cb[t].conn] = "done"
      BY <1>1, <1>2, <3>1 DEF NumbersInv
    <3>3. QED BY <1>1, <1>8, <2>2, <3>1, <3>2 DEF OwnNumbers, GoesOn
  <2>3. CASE u = t /\ ~HasLookedUp(t)
    <3>1. cb'[t].s = cb[t].s /\ cb'[t].conn = cb[t].conn /\ IsIn(t, {"set", "loop", "signal"})
      BY <1>8, <2>3 DEF HasMoved, HasCountedDown, HasSet, HasEnded, HasFound,
                        HasSignalled, GoesOn, IsOver, IsIn
    <3>2. QED BY <1>8, <2>3, <3>1 DEF NumbersInv
  <2>4. QED BY <2>1, <2>2, <2>3
<1>9. QED BY <1>5, <1>6, <1>7, <1>8 DEF NumbersInv

LEMMA CallbackEvents ==
    ASSUME SelectInv, EventsInv, NEW t \in Threads, HasMoved(t)
    PROVE  EventsInv'
<1>1. /\ SelectTypeOK /\ cb[t].pc # "none"
      /\ \A u \in Threads \ {t} : cb'[u] = cb[u]
      /\ \/ cb'[t].pc = "none" /\ cb'[t].evt = "none"
         \/ cb'[t].conn = cb[t].conn /\ cb'[t].evt = cb[t].evt
  BY OnlyThatMoves DEF SelectInv
<1>2. \A a \in Apps : select_cb'[a].pc = select_cb[a].pc
  BY DEF HasMoved, HasLookedUp, HasCountedDown, HasSet, HasEnded, HasFound, HasSignalled, Changed
<1>3. Apps \subseteq Threads
  BY DEF Threads
<1>4. QED BY <1>1, <1>2, <1>3 DEF EventsInv

(* Who signals whom is as it was, or comes to nothing. *)
LEMMA StaysSignalled ==
    ASSUME NEW a \in Apps, SignalledOnce(a), select_cb'[a] = select_cb[a],
           \A u \in Threads : cb'[u].pc = "signal" /\ cb'[u].scb = a =>
                              cb[u].pc = "signal" /\ cb[u].scb = a
    PROVE  SignalledOnce(a)'
BY DEF SignalledOnce, IsIn

LEMMA CallbackSignals ==
    ASSUME SelectInv, SignalInv, NEW t \in Threads, HasMoved(t)
    PROVE  SignalInv'
<1>1. SelectTypeOK /\ ListInv /\ \A u \in Threads \ {t} : cb'[u] = cb[u]
  BY OnlyThatMoves DEF SelectInv
<1> SUFFICES ASSUME NEW a \in Apps \ Timeouts PROVE SignalledOnce(a)'
  BY DEF SignalInv
<1>2. SignalledOnce(a)
  BY DEF SignalInv
<1>3. CASE HasLookedUp(t) \/ HasCountedDown(t) \/ HasSet(t) \/ HasEnded(t)
  <2>1. UNCHANGED select_cb /\ cb'[t].pc # "signal"
    BY <1>3 DEF HasLookedUp, HasCountedDown, HasSet, HasEnded, GoesOn, IsOver
  <2>2. QED BY <1>1, <1>2, <2>1, StaysSignalled
<1>4. ASSUME NEW b \in Apps, HasFound(t, b) PROVE SignalledOnce(a)'
  <2>1. CASE b # a
    <3>1. select_cb'[a] = select_cb[a] /\ cb'[t].scb # a
      BY <1>4, <2>1 DEF HasFound, Changed
    <3>2. QED BY <1>1, <1>2, <3>1, StaysSignalled
  <2>2. CASE b = a
    <3>1. select_cb[a].sem_signalled = 0 /\ a \in ToSet(list)
      BY <1>4, <2>2 DEF HasFound, ToWake
    <3>2. select_cb[a].sem # 1 /\ select_cb[a].pc \notin {"woken", "timeout", "idle"}
      BY <1>1, <1>2, <3>1 DEF SignalledOnce, ListInv
    <3>3. select_cb[a].sem = 0 /\ select_cb[a].pc = "wait"
      BY <1>1, <3>2 DEF SelectTypeOK, Entries
    <3>4. /\ select_cb'[a].pc = "wait" /\ select_cb'[a].sem = 0
          /\ select_cb'[a].sem_signalled = 1
      BY <1>4, <2>2, <3>3 DEF HasFound, Changed
    <3>5. \A u \in Threads : cb'[u].pc = "signal" /\ cb'[u].scb = a => u = t
      BY <1>1, <1>2, <3>1 DEF SignalledOnce, IsIn
    <3>6. QED BY <3>4, <3>5 DEF SignalledOnce, IsIn
  <2>3. QED BY <2>1, <2>2
<1>5. ASSUME NEW b \in Apps, HasSignalled(t, b) PROVE SignalledOnce(a)'
  <2>1. cb[t].pc = "signal" /\ cb[t].scb = b /\ cb'[t].pc = "loop"
    BY <1>5 DEF HasSignalled, GoesOn
  <2>2. CASE b # a
    <3>1. select_cb'[a] = select_cb[a]
      BY <1>5, <2>2 DEF HasSignalled, Changed
    <3>2. QED BY <1>1, <1>2, <2>1, <3>1, StaysSignalled
  <2>3. CASE b = a
    <3>1. /\ select_cb[a].pc = "wait" /\ select_cb[a].sem_signalled = 1
          /\ \A v \in Threads : cb[v].pc = "signal" /\ cb[v].scb = a => v = t
      BY <1>2, <2>1, <2>3 DEF SignalledOnce, IsIn
    <3>2. select_cb'[a].pc = "wait" /\ select_cb'[a].sem_signalled = 1
      BY <1>5, <2>3, <3>1 DEF HasSignalled, Changed
    <3>3. \A u \in Threads : ~(cb'[u].pc = "signal" /\ cb'[u].scb = a)
      BY <1>1, <2>1, <3>1
    <3>4. QED BY <3>2, <3>3 DEF SignalledOnce, IsIn
  <2>4. QED BY <2>2, <2>3
<1>6. QED BY <1>3, <1>4, <1>5 DEF HasMoved

LEMMA CallbackAccounts ==
    ASSUME SelectInv, NumbersInv, EventsInv, AccountInv, OwnNumbers' => OwnNumbers,
           NEW t \in Threads, HasMoved(t)
    PROVE  AccountInv'
<1>1. SelectTypeOK /\ cb[t] \in Callbacks /\ cb[t].conn \in Conns
      /\ \A u \in Threads \ {t} : cb'[u] = cb[u]
  BY OnlyThatMoves DEF SelectInv, Callbacks
<1> SUFFICES ASSUME OwnNumbers, NEW c \in Conns \ Fresh PROVE Accounted(c)'
  BY DEF AccountInv
<1> DEFINE announced == IF Announces(cb["tcpip"], c) THEN 1 ELSE 0
           taken == IF Takes(cb[Owner[c]], c) THEN 1 ELSE 0
           announcedNow == IF Announces(cb'["tcpip"], c) THEN 1 ELSE 0
           takenNow == IF Takes(cb'[Owner[c]], c) THEN 1 ELSE 0
<1>2. sockets[c].rcvevent = recvmbox[c] + announced + taken
  BY DEF AccountInv, Accounted
<1>3. /\ sockets[c].rcvevent \in Int /\ recvmbox[c] \in Int
      /\ Owner[c] \in Threads /\ Owner[c] # "tcpip" /\ "tcpip" \in Threads
  BY <1>1, SelectAssumption DEF SelectTypeOK, Threads
<1>4. SUFFICES sockets'[c].rcvevent = recvmbox'[c] + announcedNow + takenNow
  BY DEF Accounted
<1>5. /\ t # "tcpip" => announcedNow = announced
      /\ t # Owner[c] => takenNow = taken
  BY <1>1, <1>3
<1>6. /\ cb[t].evt = "RCVPLUS" => t = "tcpip"
      /\ cb[t].evt = "RCVMINUS" => t = Owner[cb[t].conn]
  BY DEF EventsInv
<1>7. socket[c] = c /\ c \in Int /\ c >= 0 /\ sockets[c].used
  BY DEF NumbersInv, Conns
<1>8. CASE HasLookedUp(t)
  <2>1. sockets' = sockets /\ cb[t].pc = "begin"
    BY <1>8 DEF HasLookedUp
  <2>2. recvmbox'[c] = recvmbox[c]
    BY <1>7, <1>8 DEF HasLookedUp, GoesOn, IsOver
  <2>3. announcedNow = announced
    BY <1>5, <1>8 DEF HasLookedUp, GoesOn, IsOver, Announces
  <2>4. takenNow = taken
    <3>1. CASE cb[t].conn = c
      <4>1. socket[cb[t].conn] = c /\ ~(c < 0)
        BY <1>7, <3>1
      <4>2. GoesOn(t, "set")
        BY <1>7, <1>8, <4>1 DEF HasLookedUp
      <4>3. QED BY <1>5, <2>1, <4>2 DEF GoesOn, Takes
    <3>2. CASE cb[t].conn # c
      BY <1>5, <1>8, <3>2 DEF HasLookedUp, GoesOn, IsOver, Takes
    <3>3. QED BY <3>1, <3>2
  <2>5. QED BY <1>2, <2>1, <2>2, <2>3, <2>4
<1>9. CASE HasCountedDown(t)
  <2>1. cb[t].conn # c
    BY <1>9 DEF NumbersInv, HasCountedDown, IsIn
  <2>2. sockets' = sockets /\ recvmbox'[c] = recvmbox[c]
    BY <1>9, <2>1 DEF HasCountedDown, IsOver
  <2>3. announcedNow = announced /\ takenNow = taken
    BY <1>5, <1>9 DEF HasCountedDown, IsOver, Announces, Takes
  <2>4. QED BY <1>2, <2>2, <2>3
<1>10. CASE HasSet(t)
  <2>1. /\ cb[t].pc = "set" /\ cb'[t].pc = "loop" /\ recvmbox' = recvmbox
        /\ cb'[t].conn = cb[t].conn /\ cb'[t].evt = cb[t].evt
    BY <1>10 DEF HasSet, GoesOn
  <2>2. cb[t].s = cb[t].conn
    BY <2>1 DEF NumbersInv, IsIn
  <2>3. CASE cb[t].conn # c
    <3>1. sockets'[c] = sockets[c]
      BY <1>10, <2>2, <2>3 DEF HasSet
    <3>2. announcedNow = announced /\ takenNow = taken
      BY <1>5, <2>1, <2>3 DEF Announces, Takes
    <3>3. QED BY <1>2, <2>1, <3>1, <3>2
  <2>4. CASE cb[t].conn = c /\ cb[t].evt = "RCVPLUS"
    <3>1. sockets'[c].rcvevent = sockets[c].rcvevent + 1
      BY <1>10, <2>2, <2>4 DEF HasSet
    <3>2. announced = 0 /\ announcedNow = 1 /\ takenNow = taken
      BY <1>3, <1>5, <1>6, <2>1, <2>4 DEF Announces
    <3>3. QED BY <1>2, <1>3, <2>1, <3>1, <3>2
  <2>5. CASE cb[t].conn = c /\ cb[t].evt = "RCVMINUS"
    <3>1. sockets'[c].rcvevent = sockets[c].rcvevent - 1
      BY <1>10, <2>2, <2>5 DEF HasSet
    <3>2. taken = 1 /\ takenNow = 0 /\ announcedNow = announced
      BY <1>3, <1>5, <1>6, <2>1, <2>5 DEF Takes
    <3>3. QED BY <1>2, <1>3, <2>1, <3>1, <3>2
  <2>6. CASE cb[t].evt \notin {"RCVPLUS", "RCVMINUS"} /\ cb[t].conn = c
    <3>1. sockets'[c].rcvevent = sockets[c].rcvevent
      BY <1>10, <2>2, <2>6 DEF HasSet
    <3>2. announcedNow = announced /\ takenNow = taken
      BY <1>5, <2>1, <2>6 DEF Announces, Takes
    <3>3. QED BY <1>2, <2>1, <3>1, <3>2
  <2>7. QED BY <2>3, <2>4, <2>5, <2>6
<1>11. CASE HasEnded(t)
  <2>1. /\ cb[t].pc = "loop" /\ sockets' = sockets /\ cb'[t].pc = "none"
        /\ recvmbox'[c] = IF c = cb[t].conn /\ cb[t].evt = "RCVPLUS"
                          THEN recvmbox[c] + 1 ELSE recvmbox[c]
    BY <1>11 DEF HasEnded, IsOver
  <2>2. takenNow = taken
    BY <1>5, <2>1 DEF Takes
  <2>3. CASE c = cb[t].conn /\ cb[t].evt = "RCVPLUS"
    <3>1. announced = 1 /\ announcedNow = 0
      BY <1>6, <2>1, <2>3 DEF Announces
    <3>2. QED BY <1>2, <1>3, <2>1, <2>2, <2>3, <3>1
  <2>4. CASE ~(c = cb[t].conn /\ cb[t].evt = "RCVPLUS")
    <3>1. announcedNow = announced
      BY <1>5, <2>1, <2>4 DEF Announces
    <3>2. QED BY <1>2, <2>1, <2>2, <2>4, <3>1
  <2>5. QED BY <2>3, <2>4
<1>12. CASE \E a \in Apps : HasFound(t, a) \/ HasSignalled(t, a)
  <2>1. /\ cb[t].pc \in {"loop", "signal"} /\ cb'[t].pc \in {"loop", "signal"}
        /\ cb'[t].conn = cb[t].conn /\ cb'[t].evt = cb[t].evt
        /\ sockets' = sockets /\ recvmbox' = recvmbox
    BY <1>12 DEF HasFound, HasSignalled, GoesOn
  <2>2. announcedNow = announced /\ takenNow = taken
    BY <1>5, <2>1 DEF Announces, Takes
  <2>3. QED BY <1>2, <2>1, <2>2
<1>13. QED BY <1>8, <1>9, <1>10, <1>11, <1>12 DEF HasMoved

(* What a select finds stays while what it waits for does not become less. *)
LEMMA StillFinds ==
    ASSUME SelectTypeOK, NEW a \in Apps, FindsData(a),
           select_cb'[a].pc \in {"wait", "woken"} =>
             /\ select_cb[a].pc \in {"wait", "woken"}
             /\ select_cb'[a].readset = select_cb[a].readset
             /\ select_cb'[a].writeset = select_cb[a].writeset
             /\ select_cb'[a].sem_signalled = select_cb[a].sem_signalled
             /\ \A s \in select_cb[a].readset :
                  /\ sockets'[s].rcvevent \in Int
                  /\ sockets'[s].rcvevent < sockets[s].rcvevent => Owner[s] # a
    PROVE  FindsData(a)'
<1> SUFFICES ASSUME select_cb'[a].pc \in {"wait", "woken"}, select_cb'[a].writeset = {},
                    \A s \in select_cb'[a].readset : Owner[s] = a
             PROVE  /\ \A s \in select_cb[a].readset : sockets'[s].rcvevent >= 0
                    /\ select_cb[a].sem_signalled = 1 =>
                         \E s \in select_cb[a].readset : sockets'[s].rcvevent > 0
  BY DEF FindsData
<1>1. /\ \A s \in select_cb[a].readset : sockets[s].rcvevent >= 0
      /\ select_cb[a].sem_signalled = 1 =>
           \E s \in select_cb[a].readset : sockets[s].rcvevent > 0
  BY DEF FindsData
<1>2. \A s \in select_cb[a].readset : s \in Conns /\ sockets[s].rcvevent \in Int
  BY DEF SelectTypeOK, Entries
<1>3. \A s \in select_cb[a].readset : sockets'[s].rcvevent \in Int
                                      /\ sockets'[s].rcvevent >= sockets[s].rcvevent
  BY <1>2
<1>4. QED BY <1>1, <1>2, <1>3

LEMMA CallbackFinds ==
    ASSUME SelectInv, NumbersInv, EventsInv, FindsInv, OwnNumbers' => OwnNumbers,
           NEW t \in Threads, HasMoved(t)
    PROVE  FindsInv'
<1>1. SelectTypeOK /\ CallbackInv /\ cb[t] \in Callbacks
  BY OnlyThatMoves DEF SelectInv
<1> SUFFICES ASSUME OwnNumbers, NEW a \in Apps \ Timeouts PROVE FindsData(a)'
  BY DEF FindsInv
<1>2. FindsData(a)
  BY DEF FindsInv
<1>3. \A s \in select_cb[a].readset : s \in Conns /\ sockets[s].rcvevent \in Int
  BY <1>1 DEF SelectTypeOK, Entries
<1>4. CASE HasLookedUp(t) \/ HasCountedDown(t) \/ HasEnded(t)
  <2>1. UNCHANGED <<sockets, select_cb>>
    BY <1>4 DEF HasLookedUp, HasCountedDown, HasEnded
  <2>2. QED BY <1>2, <2>1 DEF FindsData
<1>5. CASE HasSet(t)
  <2>1. UNCHANGED select_cb /\ cb[t].pc = "set" /\ cb[t].s = cb[t].conn /\ cb[t].s \in Conns
    BY <1>1, <1>5 DEF HasSet, NumbersInv, CallbackInv, IsIn
  <2>2. \A s \in Conns \ {cb[t].s} : sockets'[s] = sockets[s]
    BY <1>5 DEF HasSet
  <2>3. sockets[cb[t].s].rcvevent \in Int
    BY <1>1, <2>1 DEF SelectTypeOK
  <2>4. /\ sockets'[cb[t].s].rcvevent \in Int
        /\ sockets'[cb[t].s].rcvevent < sockets[cb[t].s].rcvevent => cb[t].evt = "RCVMINUS"
    BY <1>5, <2>3 DEF HasSet
  <2>5. cb[t].evt = "RCVMINUS" => t = Owner[cb[t].s]
    BY <2>1 DEF EventsInv
  <2>6. select_cb[a].pc # "idle" => t # a
    BY <2>1 DEF EventsInv
  <2>7. ASSUME select_cb[a].pc \in {"wait", "woken"}, NEW s \in select_cb[a].readset
        PROVE  /\ sockets'[s].rcvevent \in Int
               /\ sockets'[s].rcvevent < sockets[s].rcvevent => Owner[s] # a
    <3>1. CASE s = cb[t].s
      BY <2>4, <2>5, <2>6, <2>7, <3>1
    <3>2. CASE s # cb[t].s
      BY <1>3, <2>2, <2>7, <3>2
    <3>3. QED BY <3>1, <3>2
  <2>8. QED BY <1>1, <1>2, <2>1, <2>7, StillFinds
<1>6. ASSUME NEW b \in Apps, HasFound(t, b) PROVE FindsData(a)'
  <2>1. UNCHANGED sockets /\ cb[t].pc = "loop" /\ cb[t].s \in Conns /\ ToWake(cb[t].s, b)
    BY <1>1, <1>6 DEF HasFound, CallbackInv, IsIn
  <2>2. /\ select_cb'[a].pc = select_cb[a].pc
        /\ select_cb'[a].readset = select_cb[a].readset
        /\ select_cb'[a].writeset = select_cb[a].writeset
        /\ b # a => select_cb'[a] = select_cb[a]
    BY <1>6 DEF HasFound, Changed
  <2>3. CASE b # a
    BY <1>2, <2>1, <2>2, <2>3 DEF FindsData
  <2>4. CASE b = a
    <3> SUFFICES ASSUME select_cb[a].pc \in {"wait", "woken"}, select_cb[a].writeset = {},
                        \A s \in select_cb[a].readset : Owner[s] = a
                 PROVE  /\ \A s \in select_cb[a].readset : sockets[s].rcvevent >= 0
                        /\ \E s \in select_cb[a].readset : sockets[s].rcvevent > 0
      BY <2>1, <2>2 DEF FindsData
    <3>1. \A s \in select_cb[a].readset : sockets[s].rcvevent >= 0
      BY <1>2 DEF FindsData
    <3>2. cb[t].s \in select_cb[a].readset /\ sockets[cb[t].s].rcvevent # 0
      BY <2>1, <2>4 DEF ToWake, Ready
    <3>3. sockets[cb[t].s].rcvevent > 0
      BY <1>3, <3>1, <3>2
    <3>4. QED BY <3>1, <3>2, <3>3
  <2>5. QED BY <2>3, <2>4
<1>7. ASSUME NEW b \in Apps, HasSignalled(t, b) PROVE FindsData(a)'
  <2>1. UNCHANGED sockets
    BY <1>7 DEF HasSignalled
  <2>2. /\ select_cb'[a].pc = select_cb[a].pc
        /\ select_cb'[a].readset = select_cb[a].readset
        /\ select_cb'[a].writeset = select_cb[a].writeset
        /\ select_cb'[a].sem_signalled = select_cb[a].sem_signalled
    BY <1>7 DEF HasSignalled, Changed
  <2>3. QED BY <1>2, <2>1, <2>2 DEF FindsData
<1>8. QED BY <1>4, <1>5, <1>6, <1>7 DEF HasMoved

----------------------------------------------------------------------------
(* An event: a thread that is in no callback and no select starts one. *)
HasStarted(t, c, evt) ==
    /\ cb[t].pc = "none" /\ (t \in Apps => select_cb[t].pc = "idle")
    /\ cb'[t].pc = "begin" /\ cb'[t].conn = c /\ cb'[t].evt = evt
    /\ \A u \in Threads \ {t} : cb'[u] = cb[u]
    /\ \A d \in Conns : recvmbox'[d] = IF evt = "RCVMINUS" /\ d = c
                                       THEN recvmbox[d] - 1 ELSE recvmbox[d]
    /\ evt = "RCVPLUS" => t = "tcpip"
    /\ evt = "RCVMINUS" => t = Owner[c]
    /\ UNCHANGED <<sockets, socket, accept, select_cb, list>>

LEMMA EventStarts ==
    ASSUME SelectInv, NEW c \in Conns, NEW t \in Apps,
           DataComes(c) \/ SendBufferChanges(c) \/ lwip_recvfrom(t, c)
    PROVE  \E u \in Threads, evt \in {"RCVPLUS", "RCVMINUS", "SENDPLUS", "SENDMINUS"} :
               HasStarted(u, c, evt)
<1>1. SelectTypeOK /\ "tcpip" \in Threads /\ t \in Threads
  BY DEF SelectInv, Threads
<1>2. ASSUME NEW u \in Threads, NEW evt \in {"RCVPLUS", "RCVMINUS", "SENDPLUS", "SENDMINUS"},
             Event(u, c, evt)
      PROVE  /\ cb'[u].pc = "begin" /\ cb'[u].conn = c /\ cb'[u].evt = evt
             /\ \A v \in Threads \ {u} : cb'[v] = cb[v]
  BY <1>1, <1>2, CallbackType DEF Event, SelectTypeOK
<1>3. CASE DataComes(c)
  <2>1. HasStarted("tcpip", c, "RCVPLUS")
    BY <1>1, <1>2, <1>3 DEF DataComes, Free, HasStarted
  <2>2. QED BY <1>1, <2>1
<1>4. CASE SendBufferChanges(c)
  <2> DEFINE evt == IF sockets[c].sendevent = 1 THEN "SENDMINUS" ELSE "SENDPLUS"
  <2>1. evt \in {"SENDPLUS", "SENDMINUS"} /\ Event("tcpip", c, evt)
    BY <1>4 DEF SendBufferChanges
  <2> HIDE DEF evt
  <2>2. /\ Free("tcpip") /\ UNCHANGED <<sockets, socket, recvmbox, accept, select_cb, list>>
    BY <1>4 DEF SendBufferChanges
  <2>3. HasStarted("tcpip", c, evt)
    BY <1>1, <1>2, <2>1, <2>2 DEF Free, HasStarted
  <2>4. QED BY <1>1, <2>1, <2>3
<1>5. CASE lwip_recvfrom(t, c)
  <2>1. /\ Owner[c] = t /\ Free(t) /\ Event(t, c, "RCVMINUS")
        /\ recvmbox' = [recvmbox EXCEPT ![c] = @ - 1]
        /\ UNCHANGED <<sockets, socket, accept, select_cb, list>>
    BY <1>5 DEF lwip_recvfrom
  <2>2. \A d \in Conns : recvmbox'[d] = IF d = c THEN recvmbox[d] - 1 ELSE recvmbox[d]
    BY <1>1, <2>1 DEF SelectTypeOK
  <2>3. HasStarted(t, c, "RCVMINUS")
    BY <1>1, <1>2, <2>1, <2>2 DEF Free, HasStarted
  <2>4. QED BY <1>1, <2>3
<1>6. QED BY <1>3, <1>4, <1>5

LEMMA EventKeepsWake ==
    ASSUME SelectInv, WakeInv, NEW t \in Threads, NEW c \in Conns,
           NEW evt \in {"RCVPLUS", "RCVMINUS", "SENDPLUS", "SENDMINUS"}, HasStarted(t, c, evt)
    PROVE  WakeInv'
<1>1. SelectTypeOK /\ NumbersInv /\ EventsInv /\ SignalInv /\ AccountInv /\ FindsInv
  BY DEF SelectInv, WakeInv
<1>2. /\ cb[t].pc = "none" /\ cb'[t].pc = "begin" /\ cb'[t].conn = c /\ cb'[t].evt = evt
      /\ \A u \in Threads \ {t} : cb'[u] = cb[u]
      /\ UNCHANGED <<sockets, socket, accept, select_cb, list>>
  BY DEF HasStarted
<1>3. OwnNumbers' => OwnNumbers
  BY <1>2 DEF OwnNumbers
<1>4. NumbersInv'
  BY <1>1, <1>2, <1>3 DEF NumbersInv, IsIn
<1>5. EventsInv'
  <2>1. \A a \in Apps : a \in Threads
    BY DEF Threads
  <2>2. QED BY <1>1, <1>2, <2>1 DEF EventsInv, HasStarted
<1>6. SignalInv'
  BY <1>1, <1>2, StaysSignalled DEF SignalInv
<1>7. AccountInv'
  <2> SUFFICES ASSUME OwnNumbers, NEW d \in Conns \ Fresh PROVE Accounted(d)'
    BY <1>3 DEF AccountInv
  <2>1. Accounted(d)
    BY <1>1 DEF AccountInv
  <2>2. /\ sockets[d].rcvevent \in Int /\ recvmbox[d] \in Int
        /\ Owner[d] \in Threads /\ Owner[d] # "tcpip" /\ "tcpip" \in Threads
    BY <1>1, SelectAssumption DEF SelectTypeOK, Threads
  <2>3. Announces(cb'["tcpip"], d) <=> Announces(cb["tcpip"], d)
    BY <1>2, <2>2 DEF Announces
  <2>4. CASE evt = "RCVMINUS" /\ d = c
    <3>1. recvmbox'[d] = recvmbox[d] - 1 /\ t = Owner[d]
      BY <2>4 DEF HasStarted
    <3>2. ~Takes(cb[Owner[d]], d) /\ Takes(cb'[Owner[d]], d)
      BY <1>2, <2>4, <3>1 DEF Takes
    <3>3. QED BY <1>2, <2>1, <2>2, <2>3, <3>1, <3>2 DEF Accounted
  <2>5. CASE ~(evt = "RCVMINUS" /\ d = c)
    <3>1. recvmbox'[d] = recvmbox[d]
      BY <2>5 DEF HasStarted
    <3>2. Takes(cb'[Owner[d]], d) <=> Takes(cb[Owner[d]], d)
      BY <1>2, <2>2, <2>5 DEF Takes
    <3>3. QED BY <1>2, <2>1, <2>3, <3>1, <3>2 DEF Accounted
  <2>6. QED BY <2>4, <2>5
<1>8. FindsInv'
  BY <1>1, <1>2, <1>3 DEF FindsInv, FindsData
<1>9. QED BY <1>4, <1>5, <1>6, <1>7, <1>8 DEF WakeInv
(* lwip_accept: what is not accepted yet nobody selects, and it is fresh. *)
LEMMA AcceptKeepsWake ==
    ASSUME SelectInv, WakeInv, OwnNumbers' => OwnNumbers, NEW t \in Apps, NEW c \in Conns,
           Allocate(t, c) \/ TakeOver(t, c) \/ SetSocket(t, c)
    PROVE  WakeInv'
<1>1. /\ SelectTypeOK /\ ListInv
      /\ NumbersInv /\ EventsInv /\ SignalInv /\ AccountInv /\ FindsInv
  BY DEF SelectInv, WakeInv
<1>2. accept[c] # "done" /\ UNCHANGED <<recvmbox, select_cb, list, cb>>
  BY DEF Allocate, TakeOver, SetSocket
<1>3. c \in Fresh
  BY <1>1, <1>2 DEF NumbersInv
<1>4. \A d \in Conns \ {c} : /\ sockets'[d] = sockets[d] /\ socket'[d] = socket[d]
                             /\ accept'[d] = accept[d]
  BY <1>1 DEF Allocate, TakeOver, SetSocket, SelectTypeOK
<1>5. socket'[c] <= c /\ (accept'[c] # "done" => socket'[c] < 0)
  <2>1. socket[c] <= c /\ socket[c] < 0 /\ c \in Int
    BY <1>1, <1>2, SocketZero DEF NumbersInv
  <2>2. CASE Allocate(t, c) \/ TakeOver(t, c)
    BY <2>1, <2>2 DEF Allocate, TakeOver
  <2>3. CASE SetSocket(t, c)
    BY <1>1, <2>1, <2>3 DEF SetSocket, SelectTypeOK
  <2>4. QED BY <2>2, <2>3
<1>6. NumbersInv'
  <2>1. \A d \in Conns : socket'[d] <= d /\ (accept'[d] # "done" => socket'[d] < 0)
    BY <1>1, <1>4, <1>5 DEF NumbersInv
  <2>2. \A d \in Conns \ Fresh : accept'[d] = "done" /\ socket'[d] = d /\ sockets'[d].used
    BY <1>1, <1>3, <1>4 DEF NumbersInv
  <2>3. QED BY <1>1, <1>2, <2>1, <2>2 DEF NumbersInv, IsIn
<1>7. EventsInv' /\ SignalInv'
  BY <1>1, <1>2 DEF EventsInv, SignalInv, SignalledOnce, IsIn
<1>8. AccountInv'
  BY <1>1, <1>2, <1>3, <1>4 DEF AccountInv, Accounted
<1>9. FindsInv'
  <2> SUFFICES ASSUME OwnNumbers, NEW a \in Apps \ Timeouts PROVE FindsData(a)'
    BY DEF FindsInv
  <2>1. FindsData(a)
    BY <1>1 DEF FindsInv
  <2>2. ASSUME select_cb[a].pc \in {"wait", "woken"}, NEW s \in select_cb[a].readset
        PROVE  sockets'[s] = sockets[s]
    <3>1. s \in Conns /\ accept[s] = "done"
      BY <1>1, <2>2 DEF ListInv, SelectTypeOK, Entries
    <3>2. QED BY <1>2, <1>4, <3>1
  <2>3. QED BY <1>2, <2>1, <2>2 DEF FindsData
<1>10. QED BY <1>6, <1>7, <1>8, <1>9 DEF WakeInv

(* lwip_select: what it waits for is not there when it starts to wait. *)
LEMMA SelectKeepsWake ==
    ASSUME SelectInv, WakeInv, NEW t \in Apps, lwip_select(t) \/ Runs(t) \/ TimesOut(t)
    PROVE  WakeInv'
<1>1. /\ SelectTypeOK /\ ListInv
      /\ NumbersInv /\ EventsInv /\ SignalInv /\ AccountInv /\ FindsInv
  BY DEF SelectInv, WakeInv
<1>2. UNCHANGED <<sockets, socket, recvmbox, accept, cb>>
  BY DEF lwip_select, Runs, Woken, Unlink, Return, TimesOut
<1>3. OwnNumbers' => OwnNumbers
  BY <1>2 DEF OwnNumbers
<1>4. NumbersInv' /\ AccountInv'
  BY <1>1, <1>2, <1>3 DEF NumbersInv, AccountInv, Accounted, IsIn
<1>5. \A a \in Apps \ {t} : select_cb'[a] = select_cb[a]
  BY <1>1 DEF lwip_select, Runs, Woken, Unlink, Return, TimesOut, SelectTypeOK
<1>6. \A a \in Apps \ Timeouts : SignalledOnce(a) /\ (OwnNumbers => FindsData(a))
  BY <1>1 DEF SignalInv, FindsInv
<1>7. \A a \in Apps \ Timeouts : a # t => SignalledOnce(a)' /\ (OwnNumbers => FindsData(a)')
  <2> SUFFICES ASSUME NEW a \in Apps \ Timeouts, a # t
               PROVE  SignalledOnce(a)' /\ (OwnNumbers => FindsData(a)')
    OBVIOUS
  <2>1. select_cb'[a] = select_cb[a]
    BY <1>5
  <2>2. SignalledOnce(a)'
    BY <1>2, <1>6, <2>1, StaysSignalled
  <2>3. OwnNumbers => FindsData(a)'
    BY <1>2, <1>6, <2>1 DEF FindsData
  <2>4. QED BY <2>2, <2>3
<1> DEFINE Told == /\ t \notin Timeouts => SignalledOnce(t)'
                   /\ t \notin Timeouts /\ OwnNumbers => FindsData(t)'
<1>8. SUFFICES Told /\ (select_cb'[t].pc # "idle" => cb[t].pc = "none")
  <2>1. ASSUME Told PROVE SignalInv' /\ FindsInv'
    BY <1>3, <1>7, <2>1 DEF SignalInv, FindsInv
  <2>2. ASSUME select_cb'[t].pc # "idle" => cb[t].pc = "none" PROVE EventsInv'
    BY <1>1, <1>2, <1>5, <2>2 DEF EventsInv
  <2>3. QED BY <1>4, <2>1, <2>2 DEF WakeInv
<1>9. select_cb[t].pc # "idle" => cb[t].pc = "none"
  BY <1>1 DEF EventsInv
<1>10. CASE lwip_select(t)
  <2>1. PICK R, W \in SUBSET {x \in Conns : accept[x] = "done"} :
          /\ \A s \in R : sockets[s].rcvevent = 0
          /\ select_cb' = [select_cb EXCEPT ![t] = [NoSelect EXCEPT !.pc = "wait",
                                                 !.readset = R, !.writeset = W]]
    BY <1>10 DEF lwip_select
  <2>2. cb[t].pc = "none" /\ select_cb[t].pc = "idle"
    BY <1>10 DEF lwip_select, Free
  <2>3. /\ select_cb'[t].pc = "wait" /\ select_cb'[t].readset = R
        /\ select_cb'[t].sem_signalled = 0 /\ select_cb'[t].sem = 0
    BY <1>1, <2>1 DEF NoSelect, SelectTypeOK
  <2>4. ASSUME t \notin Timeouts PROVE SignalledOnce(t)'
    <3>1. \A u \in Threads : ~(cb[u].pc = "signal" /\ cb[u].scb = t)
      BY <1>6, <2>2, <2>4 DEF SignalledOnce, IsIn
    <3>2. QED BY <1>2, <2>3, <3>1 DEF SignalledOnce, IsIn
  <2>5. FindsData(t)'
    BY <1>2, <2>1, <2>3 DEF FindsData
  <2>6. QED BY <2>2, <2>4, <2>5
<1>11. CASE Woken(t)
  <2>1. select_cb[t].pc = "wait" /\ select_cb[t].sem = 1
    BY <1>11 DEF Woken
  <2> DEFINE new == [select_cb EXCEPT ![t] = [@ EXCEPT !.sem = 0, !.pc = "woken"]]
  <2>2. Changed(new, t, "woken", select_cb[t].sem_signalled, 0) /\ select_cb' = new
    BY <1>1, <1>11, EntryChanges DEF Woken
  <2> HIDE DEF new
  <2>3. /\ select_cb'[t].pc = "woken" /\ select_cb'[t].sem = 0
        /\ select_cb'[t].sem_signalled = select_cb[t].sem_signalled
        /\ select_cb'[t].readset = select_cb[t].readset
        /\ select_cb'[t].writeset = select_cb[t].writeset
    BY <2>2 DEF Changed
  <2>4. ASSUME t \notin Timeouts PROVE SignalledOnce(t)'
    <3>1. /\ select_cb[t].sem_signalled = 1
          /\ \A u \in Threads : ~(cb[u].pc = "signal" /\ cb[u].scb = t)
      BY <1>6, <2>1, <2>4 DEF SignalledOnce, IsIn
    <3>2. QED BY <1>2, <2>3, <3>1 DEF SignalledOnce, IsIn
  <2>5. ASSUME t \notin Timeouts, OwnNumbers PROVE FindsData(t)'
    BY <1>2, <1>6, <2>1, <2>3, <2>5 DEF FindsData
  <2>6. QED BY <1>9, <2>1, <2>4, <2>5
<1>12. CASE Unlink(t)
  <2>1. UNCHANGED select_cb
    BY <1>12 DEF Unlink
  <2>2. ASSUME t \notin Timeouts PROVE SignalledOnce(t)'
    BY <1>2, <1>6, <2>1, <2>2, StaysSignalled
  <2>3. ASSUME t \notin Timeouts, OwnNumbers PROVE FindsData(t)'
    BY <1>2, <1>6, <2>1, <2>3 DEF FindsData
  <2>4. QED BY <1>9, <2>1, <2>2, <2>3
<1>13. CASE Return(t)
  <2>1. /\ select_cb[t].pc \in {"woken", "timeout"} /\ select_cb'[t].pc = "idle"
        /\ select_cb'[t].sem = 0
    BY <1>1, <1>13 DEF Return, NoSelect, SelectTypeOK
  <2>2. ASSUME t \notin Timeouts PROVE SignalledOnce(t)'
    <3>1. \A u \in Threads : ~(cb[u].pc = "signal" /\ cb[u].scb = t)
      BY <1>6, <2>1, <2>2 DEF SignalledOnce, IsIn
    <3>2. QED BY <1>2, <2>1, <3>1 DEF SignalledOnce, IsIn
  <2>3. FindsData(t)'
    BY <2>1 DEF FindsData
  <2>4. QED BY <2>1, <2>2, <2>3
<1>14. CASE TimesOut(t)
  BY <1>9, <1>14 DEF TimesOut
<1>15. QED BY <1>10, <1>11, <1>12, <1>13, <1>14 DEF Runs

LEMMA WakeInvStep == SelectInv /\ WakeInv /\ [Next]_vars => WakeInv'
<1> SUFFICES ASSUME SelectInv, WakeInv, [Next]_vars PROVE WakeInv'
  OBVIOUS
<1>1. OwnNumbers' => OwnNumbers
  BY NumbersStay DEF WakeInv
<1>2. CASE UNCHANGED vars
  BY <1>2 DEF vars, WakeInv, NumbersInv, EventsInv, SignalInv, SignalledOnce, AccountInv,
              Accounted, FindsInv, FindsData, OwnNumbers, IsIn
<1>3. ASSUME NEW t \in Threads, event_callback(t) PROVE WakeInv'
  <2>1. HasMoved(t) /\ UNCHANGED accept
    BY <1>3, CallbackDoes
  <2>2. NumbersInv' /\ EventsInv' /\ SignalInv'
    BY <1>1, <2>1, CallbackNumbers, CallbackEvents, CallbackSignals DEF WakeInv
  <2>3. AccountInv' /\ FindsInv'
    BY <1>1, <2>1, CallbackAccounts, CallbackFinds DEF WakeInv
  <2>4. QED BY <2>2, <2>3 DEF WakeInv
<1>4. ASSUME NEW c \in Conns, NEW t \in Apps,
             DataComes(c) \/ SendBufferChanges(c) \/ lwip_recvfrom(t, c)
      PROVE  WakeInv'
  BY <1>4, EventStarts, EventKeepsWake
<1>5. ASSUME NEW t \in Apps, NEW c \in Conns, Allocate(t, c) \/ TakeOver(t, c) \/ SetSocket(t, c)
      PROVE  WakeInv'
  BY <1>1, <1>5, AcceptKeepsWake
<1>6. ASSUME NEW t \in Apps, lwip_select(t) \/ Runs(t) \/ TimesOut(t) PROVE WakeInv'
  BY <1>6, SelectKeepsWake
<1>7. Owner[0] \in Apps
  BY SocketZero, SelectAssumption
<1>8. QED BY <1>2, <1>3, <1>4, <1>5, <1>6, <1>7 DEF Next

(* What a select is told is true, and is told to one that is there. *)
THEOREM WakeupsStayTrue == Spec => []WakeupsAreTrue
<1>1. Init => WakeInv
  <2> SUFFICES ASSUME Init PROVE WakeInv
    OBVIOUS
  <2>1. /\ \A t \in Threads : cb[t].pc = "none" /\ cb[t].evt = "none"
        /\ \A a \in Apps : select_cb[a] = NoSelect
        /\ \A c \in Conns : c \in Int /\ c >= 0
    BY NoEventType DEF Init, NoEvent, Callback, Conns
  <2>2. NumbersInv
    <3>1. \A c \in Conns : socket[c] <= c /\ (accept[c] # "done" => socket[c] < 0)
      BY <2>1 DEF Init
    <3>2. \A c \in Conns \ Fresh : accept[c] = "done" /\ socket[c] = c /\ sockets[c].used
      BY DEF Init
    <3>3. QED BY <2>1, <3>1, <3>2 DEF NumbersInv, IsIn
  <2>3. EventsInv /\ SignalInv /\ FindsInv
    BY <2>1 DEF EventsInv, SignalInv, SignalledOnce, FindsInv, FindsData, NoSelect, IsIn, Threads
  <2>4. AccountInv
    <3>1. \A c \in Conns : Owner[c] \in Threads /\ "tcpip" \in Threads
      BY SelectAssumption DEF Threads
    <3>2. \A c \in Conns : ~Announces(cb["tcpip"], c) /\ ~Takes(cb[Owner[c]], c)
      BY <2>1, <3>1 DEF Announces, Takes
    <3>3. \A c \in Conns : sockets[c].rcvevent = 0 /\ recvmbox[c] = 0
      BY DEF Init
    <3>4. QED BY <3>2, <3>3 DEF AccountInv, Accounted
  <2>5. QED BY <2>2, <2>3, <2>4 DEF WakeInv
<1>2. SelectInv /\ WakeInv => WakeupsAreTrue
  <2> SUFFICES ASSUME SelectInv, WakeInv PROVE WakeupsAreTrue
    OBVIOUS
  <2>1. /\ SelectTypeOK /\ CallbackInv /\ ListInv /\ SignalInv /\ AccountInv /\ FindsInv
    BY DEF SelectInv, WakeInv
  <2>2. DataIsSeen
    <3> SUFFICES ASSUME OwnNumbers, NEW c \in Conns \ Fresh
                 PROVE  recvmbox[c] <= sockets[c].rcvevent
      BY DEF DataIsSeen
    <3>1. recvmbox[c] \in Int /\ Accounted(c)
      BY <2>1 DEF SelectTypeOK, AccountInv
    <3>2. QED BY <3>1 DEF Accounted
  <2>3. SignalledInTime
    <3> SUFFICES ASSUME NEW t \in Threads, IsIn(t, {"signal"}), cb[t].scb \notin Timeouts
                 PROVE  cb[t].scb \in ToSet(list)
      BY DEF SignalledInTime
    <3>1. cb[t].scb \in Apps \ Timeouts
      BY <2>1 DEF CallbackInv
    <3>2. select_cb[cb[t].scb].pc = "wait"
      BY <2>1, <3>1 DEF SignalInv, SignalledOnce
    <3>3. QED BY <2>1, <3>1, <3>2 DEF ListInv
  <2>4. WokenFinds
    <3> SUFFICES ASSUME NEW a \in Apps, a \notin Timeouts, OwnNumbers,
                        select_cb[a].pc = "woken", select_cb[a].writeset = {},
                        \A s \in select_cb[a].readset : Owner[s] = a
                 PROVE  \E s \in select_cb[a].readset : Ready(s, a)
      BY DEF WokenFinds
    <3>1. select_cb[a].sem_signalled = 1
      BY <2>1 DEF SignalInv, SignalledOnce
    <3>2. PICK s \in select_cb[a].readset : sockets[s].rcvevent > 0
      BY <2>1, <3>1 DEF FindsInv, FindsData
    <3>3. QED BY <3>2 DEF Ready
  <2>5. QED BY <2>2, <2>3, <2>4 DEF WakeupsAreTrue
<1>3. QED BY <1>1, <1>2, SelectInitInv, SelectInvStep, WakeInvStep, PTL DEF Spec
=============================================================================
