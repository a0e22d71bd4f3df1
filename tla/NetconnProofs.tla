---------------------------- MODULE NetconnProofs ----------------------------
(***************************************************************************)
(* Proofs about the calls of the netconn API, for any number of            *)
(* connections, messages and setups.                                       *)
(*                                                                         *)
(* The argument has two parts.  Who is asked and who answers: a connection *)
(* has one message on its way at most, and only while its thread waits for *)
(* just that call (AsksInv).  Whose a block is: the free list, the mailbox, *)
(* the tcpip thread and the writes share the blocks out among them         *)
(* (SharedOut).                                                            *)
(***************************************************************************)
EXTENDS Netconn, SequenceTheorems, TLAPS

Blocks == 1 .. MEMP_NUM_API_MSG
Pools == [head : 0 .. MEMP_NUM_API_MSG, next : [Blocks -> 0 .. MEMP_NUM_API_MSG]]

----------------------------------------------------------------------------
(* The pool.  A list of free blocks runs from the head to NULL. *)
On(l) == {l[i] : i \in 1 .. Len(l)}
IsFreeList(p, l) ==
    /\ l \in Seq(Blocks)
    /\ \A i, j \in 1 .. Len(l) : l[i] = l[j] => i = j
    /\ p.head = IF Len(l) = 0 THEN NULL ELSE l[1]
    /\ \A i \in 1 .. Len(l) : p.next[l[i]] = IF i = Len(l) THEN NULL ELSE l[i + 1]

(* What is reached from the head is on that list. *)
LEMMA FreeIsOnList ==
    ASSUME NEW p \in Pools, NEW l, IsFreeList(p, l)
    PROVE  Free(p) \subseteq On(l)
<1>1. On(l) \in SUBSET DOMAIN p.next
  BY DEF Pools, On, IsFreeList
<1>2. p.head # NULL => p.head \in On(l)
  BY DEF On, IsFreeList
<1>3. ASSUME NEW b \in On(l), p.next[b] # NULL PROVE p.next[b] \in On(l)
  <2>1. PICK i \in 1 .. Len(l) : b = l[i]
    BY DEF On
  <2>2. i # Len(l) /\ p.next[b] = l[i + 1]
    BY <1>3, <2>1 DEF IsFreeList
  <2>3. i + 1 \in 1 .. Len(l)
    BY <2>1, <2>2 DEF IsFreeList
  <2>4. QED BY <2>2, <2>3 DEF On
<1>4. Closed(p, On(l))
  BY <1>2, <1>3 DEF Closed
<1>5. QED BY <1>1, <1>4 DEF Free

(* A new pool is all free. *)
LEMMA InitIsFree ==
    /\ memp_init(MEMP_NUM_API_MSG) \in Pools
    /\ \E l : IsFreeList(memp_init(MEMP_NUM_API_MSG), l)
<1> DEFINE n == MEMP_NUM_API_MSG
           p == memp_init(n)
           l == [i \in 1 .. n |-> i]
<1>1. n \in Nat
  BY NetconnAssumption
<1>2. /\ p.head = IF n = 0 THEN NULL ELSE 1
      /\ p.next = [b \in 1 .. n |-> IF b = n THEN NULL ELSE b + 1]
      /\ p = [head |-> p.head, next |-> p.next]
  BY DEF memp_init
<1>3. p \in Pools
  BY <1>1, <1>2 DEF Pools, NULL, Blocks
<1>4. l \in Seq(Blocks) /\ Len(l) = n
  BY <1>1 DEF Blocks
<1>5. IsFreeList(p, l)
  BY <1>1, <1>2, <1>4 DEF IsFreeList, NULL
<1>6. QED BY <1>3, <1>5

(* The first block is taken off the list. *)
LEMMA TakeHead ==
    ASSUME NEW p \in Pools, ~IsEmpty(p)
    PROVE  /\ p.head \in Blocks /\ Taken(p) \in Pools
           /\ \A l : IsFreeList(p, l) =>
                 /\ p.head \in On(l)
                 /\ \E t : IsFreeList(Taken(p), t) /\ On(t) = On(l) \ {p.head}
<1> DEFINE h == p.head
           q == Taken(p)
<1>0. MEMP_NUM_API_MSG \in Nat
  BY NetconnAssumption
<1>1. h \in Blocks
  BY <1>0 DEF IsEmpty, Pools, Blocks, NULL
<1>2. /\ q.head = p.next[h] /\ q.next = [p.next EXCEPT ![h] = NULL]
      /\ q = [head |-> q.head, next |-> q.next]
  BY DEF Taken, Pools
<1>3. q \in Pools
  BY <1>0, <1>1, <1>2 DEF Pools, NULL
<1>4. ASSUME NEW l, IsFreeList(p, l)
      PROVE  h \in On(l) /\ \E t : IsFreeList(q, t) /\ On(t) = On(l) \ {h}
  <2> DEFINE t == Tail(l)
  <2> HIDE DEF q
  <2>1. l \in Seq(Blocks) /\ Len(l) \in Nat
    BY <1>4 DEF IsFreeList
  <2>2. Len(l) # 0 /\ h = l[1]
    BY <1>4, <1>1 DEF IsFreeList, IsEmpty
  <2>3. /\ t \in Seq(Blocks) /\ Len(t) = Len(l) - 1
        /\ \A i \in 1 .. Len(t) : t[i] = l[i + 1]
    BY <2>1, <2>2
  <2> HIDE DEF t, h
  <2>4. \A i \in 1 .. Len(t) : i + 1 \in 1 .. Len(l) /\ l[i + 1] # h
    BY <2>1, <2>2, <2>3, <1>4 DEF IsFreeList
  <2>5. \A i, j \in 1 .. Len(t) : t[i] = t[j] => i = j
    BY <2>1, <2>3, <2>4, <1>4 DEF IsFreeList
  <2>6. q.head = IF Len(t) = 0 THEN NULL ELSE t[1]
    <3>1. 1 \in 1 .. Len(l)
      BY <2>1, <2>2
    <3>2. q.head = IF 1 = Len(l) THEN NULL ELSE l[1 + 1]
      BY <3>1, <1>2, <2>2, <1>4 DEF IsFreeList, h
    <3>3. QED BY <3>2, <2>1, <2>2, <2>3
  <2>7. ASSUME NEW i \in 1 .. Len(t)
        PROVE  q.next[t[i]] = IF i = Len(t) THEN NULL ELSE t[i + 1]
    <3>1. i + 1 \in 1 .. Len(l) /\ l[i + 1] # h /\ t[i] = l[i + 1] /\ l[i + 1] \in Blocks
      BY <2>1, <2>3, <2>4
    <3>2. q.next[t[i]] = p.next[l[i + 1]]
      BY <3>1, <1>2 DEF Pools
    <3>3. p.next[l[i + 1]] = IF i + 1 = Len(l) THEN NULL ELSE l[i + 1 + 1]
      BY <3>1, <1>4 DEF IsFreeList
    <3>4. QED BY <3>2, <3>3, <2>1, <2>3
  <2>8. IsFreeList(q, t)
    BY <2>3, <2>5, <2>6, <2>7 DEF IsFreeList
  <2>9. On(t) = On(l) \ {h}
    <3>1. ASSUME NEW b \in On(t) PROVE b \in On(l) \ {h}
      BY <2>3, <2>4 DEF On
    <3>2. ASSUME NEW b \in On(l), b # h PROVE b \in On(t)
      <4>1. PICK i \in 1 .. Len(l) : b = l[i]
        BY DEF On
      <4>2. i - 1 \in 1 .. Len(t) /\ t[i - 1] = l[i]
        BY <4>1, <3>2, <2>1, <2>2, <2>3
      <4>3. QED BY <4>1, <4>2 DEF On
    <3>3. QED BY <3>1, <3>2
  <2>10. h \in On(l)
    BY <2>1, <2>2 DEF On
  <2>11. QED BY <2>8, <2>9, <2>10
<1>5. QED BY <1>1, <1>3, <1>4

(* A block that is not on the list is put in front of it. *)
LEMMA PutBack ==
    ASSUME NEW p \in Pools, NEW b \in Blocks
    PROVE  /\ memp_free(p, b) \in Pools
           /\ \A l : IsFreeList(p, l) /\ b \notin On(l) =>
                 \E t : IsFreeList(memp_free(p, b), t) /\ On(t) = On(l) \cup {b}
<1> DEFINE q == memp_free(p, b)
<1>0. MEMP_NUM_API_MSG \in Nat
  BY NetconnAssumption
<1>1. /\ q.head = b /\ q.next = [p.next EXCEPT ![b] = p.head]
      /\ q = [head |-> q.head, next |-> q.next]
  BY DEF memp_free, Pools
<1>2. q \in Pools
  BY <1>0, <1>1 DEF Pools, Blocks
<1>3. ASSUME NEW l, IsFreeList(p, l), b \notin On(l)
      PROVE  \E t : IsFreeList(q, t) /\ On(t) = On(l) \cup {b}
  <2> DEFINE t == <<b>> \o l
  <2> HIDE DEF q
  <2>1. l \in Seq(Blocks) /\ Len(l) \in Nat
    BY <1>3 DEF IsFreeList
  <2>2. /\ t \in Seq(Blocks) /\ Len(t) = Len(l) + 1 /\ t[1] = b
        /\ \A i \in 1 .. Len(l) : t[i + 1] = l[i]
        /\ \A i \in 2 .. Len(t) : i - 1 \in 1 .. Len(l) /\ t[i] = l[i - 1]
    BY <2>1
  <2> HIDE DEF t
  <2>3. \A i \in 2 .. Len(t) : t[i] # b
    BY <2>2, <1>3 DEF On
  <2>4. ASSUME NEW i \in 1 .. Len(t), NEW j \in 1 .. Len(t), t[i] = t[j] PROVE i = j
    <3>1. CASE i = 1 \/ j = 1
      BY <3>1, <2>1, <2>2, <2>3, <2>4
    <3>2. CASE i # 1 /\ j # 1
      <4>1. i \in 2 .. Len(t) /\ j \in 2 .. Len(t)
        BY <3>2, <2>1, <2>2
      <4>2. i - 1 = j - 1
        BY <4>1, <2>2, <2>4, <1>3 DEF IsFreeList
      <4>3. QED BY <4>2
    <3>3. QED BY <3>1, <3>2
  <2>5. q.head = IF Len(t) = 0 THEN NULL ELSE t[1]
    BY <1>1, <2>1, <2>2
  <2>6. ASSUME NEW i \in 1 .. Len(t)
        PROVE  q.next[t[i]] = IF i = Len(t) THEN NULL ELSE t[i + 1]
    <3>1. CASE i = 1
      <4>1. q.next[t[i]] = p.head
        BY <3>1, <1>1, <2>2 DEF Pools
      <4>2. p.head = IF Len(l) = 0 THEN NULL ELSE l[1]
        BY <1>3 DEF IsFreeList
      <4>3. Len(l) # 0 => 1 \in 1 .. Len(l)
        BY <2>1
      <4>4. QED BY <3>1, <4>1, <4>2, <4>3, <2>1, <2>2
    <3>2. CASE i # 1
      <4>1. i \in 2 .. Len(t) /\ i - 1 \in 1 .. Len(l)
        BY <3>2, <2>1, <2>2
      <4>2. t[i] = l[i - 1] /\ t[i] # b /\ t[i] \in Blocks
        BY <4>1, <2>1, <2>2, <2>3
      <4>3. q.next[t[i]] = p.next[l[i - 1]]
        BY <4>2, <1>1 DEF Pools
      <4>4. p.next[l[i - 1]] = IF i - 1 = Len(l) THEN NULL ELSE l[i - 1 + 1]
        BY <4>1, <1>3 DEF IsFreeList
      <4>5. i - 1 # Len(l) => i \in 1 .. Len(l)
        BY <4>1, <2>1
      <4>6. QED BY <4>1, <4>3, <4>4, <4>5, <2>1, <2>2
    <3>3. QED BY <3>1, <3>2
  <2>7. IsFreeList(q, t)
    BY <2>2, <2>4, <2>5, <2>6 DEF IsFreeList
  <2>8. On(t) = On(l) \cup {b}
    <3>1. ASSUME NEW x \in On(t) PROVE x \in On(l) \cup {b}
      <4>1. PICK i \in 1 .. Len(t) : x = t[i]
        BY DEF On
      <4>2. i = 1 \/ i \in 2 .. Len(t)
        BY <2>1, <2>2
      <4>3. QED BY <4>1, <4>2, <2>2 DEF On
    <3>2. ASSUME NEW x \in On(l) PROVE x \in On(t)
      <4>1. PICK i \in 1 .. Len(l) : x = l[i]
        BY DEF On
      <4>2. i + 1 \in 1 .. Len(t) /\ t[i + 1] = x
        BY <4>1, <2>1, <2>2
      <4>3. QED BY <4>2 DEF On
    <3>3. b \in On(t)
      BY <2>1, <2>2 DEF On
    <3>4. QED BY <3>1, <3>2, <3>3
  <2>9. QED BY <2>7, <2>8
<1>4. QED BY <1>2, <1>3

----------------------------------------------------------------------------
(* What the variables hold. *)
CallTypes == {"NEWCONN", "CONNECT", "WRITE", "RECV", "CLOSE", "DELCONN"}
Messages == [msg : Blocks, type : CallTypes, conn : Conns, len : Nat]
Netconns == [exists : BOOLEAN,
             pcb : {"NONE", "CLOSED", "SYN_SENT", "ESTABLISHED", "CLOSE_WAIT"},
             sndbuf : Nat, err : {"OK", "MEM", "ABRT", "CONN"},
             state : {"NONE", "CLOSE", "WRITE"}, mbox : Seq(CallTypes \cup {"ERROR"}),
             open : BOOLEAN, recvmbox : Seq({"DATA", "END"}), sem : -1 .. 1, owed : Int]
Places == {"idle", "waiting", "recv", "write", "full", "again"}
Threads == [pc : Places, type : CallTypes, msg : 0 .. MEMP_NUM_API_MSG, size : Nat, len : Nat]

(* A write has its message, from the first to the last of its parts. *)
HasMessage(a) == /\ a.type = "WRITE" => a.msg \in Blocks
                 /\ a.pc \in {"write", "full"} => a.type = "WRITE"
                 /\ a.pc = "waiting" /\ a.type = "WRITE" => a.len <= a.size

NetTypes ==
    /\ setup \in Setups
    /\ apis \in Pools /\ tcpips \in Nat /\ mbox \in Seq(Messages \cup {Input})
    /\ handled \in 0 .. MEMP_NUM_API_MSG
    /\ conn \in [Conns -> Netconns]
    /\ app \in [Conns -> Threads] /\ \A c \in Conns : HasMessage(app[c])
    /\ \A c \in Conns : app[c].pc = "again" /\ app[c].type = "WRITE" => twice
    /\ calls \in [Conns -> Nat] /\ short \in Nat /\ errors \in Nat /\ twice \in BOOLEAN

(* What the assumption says of a setup. *)
LEMMA SetupTypes ==
    ASSUME NEW s \in Setups
    PROVE  /\ s.conns \subseteq Conns /\ s.sndBuf \in Nat \ {0} /\ s.writeSize \in Nat \ {0}
           /\ s.tcpips \in Nat /\ s.maxCalls \in Nat /\ s.maxShort \in Nat /\ s.maxErrors \in Nat
BY NetconnAssumption

(* A message is not a packet. *)
LEMMA MessageIsNoInput == \A m \in Messages : m # Input
BY DEF Messages, Input, CallTypes

(* A new netconn and one that is gone. *)
LEMMA NewConnTypes ==
    /\ NewConn \in Netconns /\ [NewConn EXCEPT !.exists = FALSE] \in Netconns
    /\ Idle \in Threads /\ HasMessage(Idle)
<1>1. <<>> \in Seq(CallTypes \cup {"ERROR"}) /\ <<>> \in Seq({"DATA", "END"})
  OBVIOUS
<1>2. NewConn \in Netconns
  BY <1>1 DEF NewConn, Netconns
<1>3. [NewConn EXCEPT !.exists = FALSE] \in Netconns
  BY <1>2 DEF Netconns
<1>4. Idle \in Threads /\ HasMessage(Idle)
  BY NetconnAssumption DEF Idle, Threads, HasMessage, Places, CallTypes, NULL
<1>5. QED BY <1>2, <1>3, <1>4

(* What an answer and a signal change. *)
LEMMA AnswerTypes ==
    ASSUME NEW k \in Netconns, NEW type \in CallTypes \cup {"ERROR"}
    PROVE  /\ Answer(k, type) \in Netconns
           /\ Answer(k, type).mbox = IF k.exists THEN Append(k.mbox, type) ELSE k.mbox
           /\ Answer(k, type).exists = k.exists /\ Answer(k, type).pcb = k.pcb
           /\ Answer(k, type).sndbuf = k.sndbuf
<1> DEFINE l == Append(k.mbox, type)
<1>1. k.mbox \in Seq(CallTypes \cup {"ERROR"})
  BY DEF Netconns
<1>2. l \in Seq(CallTypes \cup {"ERROR"})
  BY <1>1
<1> HIDE DEF l
<1> DEFINE r == [k EXCEPT !.mbox = l]
<1>3. r \in Netconns
  BY <1>2 DEF Netconns
<1>4. r.mbox = l /\ r.exists = k.exists /\ r.pcb = k.pcb /\ r.sndbuf = k.sndbuf
  BY DEF Netconns
<1>5. Answer(k, type) = IF k.exists THEN r ELSE k
  BY DEF Answer, l
<1> HIDE DEF r
<1>6. QED BY <1>3, <1>4, <1>5 DEF l

(* A signal changes the semaphore only. *)
LEMMA SignalTypes ==
    ASSUME NEW k \in Netconns
    PROVE  /\ Signal(k) \in Netconns /\ Signal(k).mbox = k.mbox /\ Signal(k).exists = k.exists
           /\ Signal(k).pcb = k.pcb /\ Signal(k).sndbuf = k.sndbuf
BY DEF Signal, Netconns

----------------------------------------------------------------------------
(* What the tcpip thread makes of a netconn: r of k, by a message of a     *)
(* type.                                                                   *)
Deed(type, k, r) ==
    /\ r \in Netconns /\ r.exists = k.exists
    /\ k.sndbuf <= SndBuf => r.sndbuf <= SndBuf
    /\ r.mbox \in {k.mbox, Append(k.mbox, type)}
    /\ r.pcb = "SYN_SENT" => k.pcb = "SYN_SENT" \/ (type = "CONNECT" /\ r.mbox = k.mbox)

(* A netconn whose answers are not touched is answered. *)
LEMMA AnswerIsDeed ==
    ASSUME NEW k \in Netconns, NEW j \in Netconns, NEW type \in CallTypes,
           j.exists = k.exists, j.mbox = k.mbox,
           j.pcb = "SYN_SENT" => k.pcb = "SYN_SENT",
           k.sndbuf <= SndBuf => j.sndbuf <= SndBuf
    PROVE  Deed(type, k, Answer(j, type))
<1> DEFINE r == Answer(j, type)
<1>1. /\ r \in Netconns /\ r.exists = j.exists /\ r.pcb = j.pcb /\ r.sndbuf = j.sndbuf
      /\ r.mbox = IF j.exists THEN Append(j.mbox, type) ELSE j.mbox
  BY AnswerTypes
<1> HIDE DEF r
<1>2. r.mbox \in {k.mbox, Append(k.mbox, type)}
  BY <1>1
<1>3. Deed(type, k, r)
  BY <1>1, <1>2 DEF Deed
<1>4. QED BY <1>3 DEF r

(* The handlers. *)
LEMMA Handlers ==
    ASSUME NEW k \in Netconns, NEW m \in Messages, SndBuf \in Nat,
           NEW outcome \in decode(m, k)
    PROVE  Deed(m.type, k, outcome.conn) /\ outcome.short \in Nat
<1> DEFINE Is(j) == j \in Netconns /\ j.exists = k.exists /\ j.mbox = k.mbox
<1>1. Is(k)
  OBVIOUS
<1>2. ASSUME NEW e \in {"OK", "MEM", "ABRT", "CONN"}
      PROVE  Is([k EXCEPT !.err = e]) /\ [k EXCEPT !.err = e].pcb = k.pcb
             /\ [k EXCEPT !.err = e].sndbuf = k.sndbuf
  BY DEF Netconns
<1>3. CASE m.type = "NEWCONN"
  <2> DEFINE j == [k EXCEPT !.err = "OK", !.pcb = "CLOSED", !.sndbuf = SndBuf]
             g == [k EXCEPT !.err = "MEM"]
  <2>1. Is(j) /\ j.pcb = "CLOSED" /\ j.sndbuf = SndBuf
    BY DEF Netconns
  <2>2. Is(g) /\ g.pcb = k.pcb /\ g.sndbuf = k.sndbuf
    BY <1>2
  <2>3. /\ outcome.conn \in {Answer(k, "NEWCONN"), Answer(j, "NEWCONN"), Answer(g, "NEWCONN")}
        /\ outcome.short \in {0, 1}
    BY <1>3 DEF decode, do_newconn, Fine, Short
  <2> HIDE DEF j, g
  <2>4. QED BY <1>3, <2>1, <2>2, <2>3, AnswerIsDeed DEF CallTypes
<1>4. CASE m.type = "CONNECT"
  <2> DEFINE j == [k EXCEPT !.pcb = "SYN_SENT"]
  <2>1. Is(j) /\ j.sndbuf = k.sndbuf
    BY DEF Netconns
  <2>2. outcome.conn \in {j, k} /\ outcome.short \in {0, 1}
    BY <1>4 DEF decode, do_connect, Fine, Short
  <2> HIDE DEF j
  <2>3. QED BY <1>4, <2>1, <2>2 DEF Deed
<1>5. CASE m.type = "WRITE"
  <2> DEFINE j == [k EXCEPT !.sndbuf = @ - m.len, !.err = "OK"]
             g == [k EXCEPT !.err = "MEM"]
  <2>1. m.len \in Nat /\ k.sndbuf \in Nat
    BY DEF Messages, Netconns
  <2>2. m.len <= k.sndbuf => k.sndbuf - m.len \in Nat /\ k.sndbuf - m.len <= k.sndbuf
    BY <2>1
  <2>3. m.len <= k.sndbuf => Is(j) /\ j.pcb = k.pcb /\ j.sndbuf = k.sndbuf - m.len
    BY <2>2 DEF Netconns
  <2>4. Is(g) /\ g.pcb = k.pcb /\ g.sndbuf = k.sndbuf
    BY <1>2
  <2>5. /\ \/ outcome.conn \in {Answer(k, "WRITE"), Answer(g, "WRITE")}
           \/ ~(m.len > k.sndbuf) /\ outcome.conn = Answer(j, "WRITE")
        /\ outcome.short \in {0, 1}
    BY <1>5 DEF decode, do_write, Fine, Short
  <2>6. ~(m.len > k.sndbuf) => m.len <= k.sndbuf
    BY <2>1
  <2>7. m.len <= k.sndbuf /\ k.sndbuf <= SndBuf => k.sndbuf - m.len <= SndBuf
    BY <2>1
  <2> HIDE DEF j, g
  <2>8. CASE outcome.conn \in {Answer(k, "WRITE"), Answer(g, "WRITE")}
    BY <1>5, <2>4, <2>5, <2>8, AnswerIsDeed DEF CallTypes
  <2>9. CASE ~(m.len > k.sndbuf) /\ outcome.conn = Answer(j, "WRITE")
    BY <1>5, <2>3, <2>5, <2>6, <2>7, <2>9, AnswerIsDeed DEF CallTypes
  <2>10. QED BY <2>5, <2>8, <2>9
<1>6. CASE m.type = "RECV"
  <2> DEFINE j == [k EXCEPT !.owed = @ - 1]
  <2>1. Is(j) /\ j.pcb = k.pcb /\ j.sndbuf = k.sndbuf
    BY DEF Netconns
  <2>2. outcome.conn \in {Answer(k, "RECV"), Answer(j, "RECV")} /\ outcome.short = 0
    BY <1>6 DEF decode, do_recv, Fine
  <2> HIDE DEF j
  <2>3. QED BY <1>6, <2>1, <2>2, AnswerIsDeed DEF CallTypes
<1>7. CASE m.type = "CLOSE"
  <2> DEFINE j == [k EXCEPT !.err = "OK"]
  <2>1. Is(j) /\ j.pcb = k.pcb /\ j.sndbuf = k.sndbuf
    BY <1>2
  <2>2. outcome.conn \in {Answer(k, "CLOSE"), Answer(j, "CLOSE")} /\ outcome.short = 0
    BY <1>7 DEF decode, do_close, Fine
  <2> HIDE DEF j
  <2>3. QED BY <1>7, <2>1, <2>2, AnswerIsDeed DEF CallTypes
<1>8. CASE m.type = "DELCONN"
  <2> DEFINE j == [k EXCEPT !.pcb = "NONE"]
  <2>1. Is(j) /\ j.pcb = "NONE" /\ j.sndbuf = k.sndbuf
    BY DEF Netconns
  <2>2. outcome.conn = Answer(j, "DELCONN") /\ outcome.short = 0
    BY <1>8 DEF decode, do_delconn, Fine
  <2> HIDE DEF j
  <2>3. QED BY <1>8, <2>1, <2>2, AnswerIsDeed DEF CallTypes
<1>9. QED BY <1>3, <1>4, <1>5, <1>6, <1>7, <1>8 DEF Messages, CallTypes

(* The callbacks: what an event that is no message may do.  Only a reset   *)
(* leaves an answer that nobody has asked for. *)
Event(k, r) ==
    /\ r \in Netconns /\ r.exists = k.exists
    /\ k.sndbuf <= SndBuf => r.sndbuf <= SndBuf
    /\ \/ r.mbox = k.mbox /\ r.pcb = k.pcb
       \/ r.mbox = k.mbox /\ k.pcb = "ESTABLISHED" /\ r.pcb = "CLOSE_WAIT"
       \/ /\ k.pcb = "SYN_SENT" /\ r.pcb = "ESTABLISHED"
          /\ r.mbox = IF k.exists THEN Append(k.mbox, "CONNECT") ELSE k.mbox

(* Each of TCP's callbacks is such an event, or a reset. *)
LEMMA Callbacks ==
    ASSUME NEW k \in Netconns, SndBuf \in Nat
    PROVE  /\ k.pcb = "SYN_SENT" => Event(k, do_connected(k))
           /\ Event(k, recv_tcp(k, "DATA"))
           /\ k.pcb = "ESTABLISHED" =>
                 Event(k, [recv_tcp(k, "END") EXCEPT !.pcb = "CLOSE_WAIT"])
           /\ Event(k, sent_tcp(k)) /\ Event(k, poll_tcp(k))
           /\ err_tcp(k) \in Netconns
           /\ k.sndbuf <= SndBuf => err_tcp(k).sndbuf <= SndBuf
<1>1. ASSUME k.pcb = "SYN_SENT" PROVE Event(k, do_connected(k))
  <2> DEFINE j == [k EXCEPT !.pcb = "ESTABLISHED", !.err = "OK"]
  <2>1. j \in Netconns /\ j.exists = k.exists /\ j.mbox = k.mbox /\ j.pcb = "ESTABLISHED"
        /\ j.sndbuf = k.sndbuf
    BY DEF Netconns
  <2>2. do_connected(k) = Answer(j, "CONNECT")
    BY DEF do_connected
  <2> HIDE DEF j
  <2> DEFINE r == Answer(j, "CONNECT")
  <2>3. /\ r \in Netconns /\ r.exists = j.exists /\ r.pcb = j.pcb /\ r.sndbuf = j.sndbuf
        /\ r.mbox = IF j.exists THEN Append(j.mbox, "CONNECT") ELSE j.mbox
    BY <2>1, AnswerTypes DEF CallTypes
  <2> HIDE DEF r
  <2>4. Event(k, r)
    BY <1>1, <2>1, <2>3 DEF Event
  <2>5. QED BY <2>2, <2>4 DEF r
<1>2. ASSUME NEW p \in {"DATA", "END"}
      PROVE  /\ recv_tcp(k, p) \in Netconns /\ recv_tcp(k, p).exists = k.exists
             /\ recv_tcp(k, p).mbox = k.mbox /\ recv_tcp(k, p).pcb = k.pcb
             /\ recv_tcp(k, p).sndbuf = k.sndbuf
  <2> DEFINE l == Append(k.recvmbox, p)
             j == [k EXCEPT !.err = "OK", !.recvmbox = l]
  <2>1. k.recvmbox \in Seq({"DATA", "END"})
    BY DEF Netconns
  <2>2. l \in Seq({"DATA", "END"})
    BY <2>1
  <2> HIDE DEF l
  <2>3. j \in Netconns /\ j.exists = k.exists /\ j.mbox = k.mbox /\ j.pcb = k.pcb
        /\ j.sndbuf = k.sndbuf
    BY <2>2 DEF Netconns
  <2>4. recv_tcp(k, p) = IF k.open THEN j ELSE k
    BY DEF recv_tcp, l
  <2> HIDE DEF j
  <2>5. QED BY <2>3, <2>4
<1>3. Event(k, recv_tcp(k, "DATA"))
  BY <1>2 DEF Event
<1>4. ASSUME k.pcb = "ESTABLISHED"
      PROVE  Event(k, [recv_tcp(k, "END") EXCEPT !.pcb = "CLOSE_WAIT"])
  <2> DEFINE i == recv_tcp(k, "END")
             j == [i EXCEPT !.pcb = "CLOSE_WAIT"]
  <2>1. i \in Netconns /\ i.exists = k.exists /\ i.mbox = k.mbox /\ i.sndbuf = k.sndbuf
    BY <1>2
  <2> HIDE DEF i
  <2>2. j \in Netconns /\ j.exists = i.exists /\ j.mbox = i.mbox /\ j.sndbuf = i.sndbuf
        /\ j.pcb = "CLOSE_WAIT"
    BY <2>1 DEF Netconns
  <2> HIDE DEF j
  <2>3. Event(k, j)
    BY <1>4, <2>1, <2>2 DEF Event
  <2>4. QED BY <2>3 DEF j, i
<1>5. Event(k, sent_tcp(k))
  <2> DEFINE j == [k EXCEPT !.sndbuf = SndBuf]
  <2>1. j \in Netconns /\ j.exists = k.exists /\ j.mbox = k.mbox /\ j.pcb = k.pcb
        /\ j.sndbuf = SndBuf
    BY DEF Netconns
  <2>2. sent_tcp(k) = Signal(j)
    BY DEF sent_tcp
  <2> HIDE DEF j
  <2>3. /\ Signal(j) \in Netconns /\ Signal(j).mbox = j.mbox /\ Signal(j).exists = j.exists
        /\ Signal(j).pcb = j.pcb /\ Signal(j).sndbuf = j.sndbuf
    BY <2>1, SignalTypes
  <2>4. SndBuf <= SndBuf
    OBVIOUS
  <2>5. QED BY <2>1, <2>2, <2>3, <2>4 DEF Event
<1>6. Event(k, poll_tcp(k))
  BY SignalTypes DEF poll_tcp, Event
<1>7. err_tcp(k) \in Netconns /\ (k.sndbuf <= SndBuf => err_tcp(k).sndbuf <= SndBuf)
  <2> DEFINE l == IF k.open THEN Append(k.recvmbox, "END") ELSE k.recvmbox
             j == [k EXCEPT !.pcb = "NONE", !.err = "ABRT", !.recvmbox = l]
             t == IF k.pcb = "SYN_SENT" THEN "CONNECT" ELSE "ERROR"
  <2>1. k.recvmbox \in Seq({"DATA", "END"})
    BY DEF Netconns
  <2>2. l \in Seq({"DATA", "END"})
    BY <2>1
  <2>3. err_tcp(k) = Signal(Answer(j, t))
    BY DEF err_tcp
  <2> HIDE DEF l
  <2>4. j \in Netconns /\ j.sndbuf = k.sndbuf
    BY <2>2 DEF Netconns
  <2>5. t \in CallTypes \cup {"ERROR"}
    BY DEF CallTypes
  <2> HIDE DEF j, t
  <2>6. Answer(j, t) \in Netconns /\ Answer(j, t).sndbuf = j.sndbuf
    BY <2>4, <2>5, AnswerTypes
  <2>7. Signal(Answer(j, t)) \in Netconns /\ Signal(Answer(j, t)).sndbuf = j.sndbuf
    BY <2>6, SignalTypes
  <2>8. QED BY <2>3, <2>4, <2>7
<1>8. QED BY <1>1, <1>3, <1>4, <1>5, <1>6, <1>7

----------------------------------------------------------------------------
(* A step of one application thread, and what it may do to its netconn.    *)
Only(c) ==
    /\ conn' \in [Conns -> Netconns] /\ app' \in [Conns -> Threads] /\ HasMessage(app'[c])
    /\ \A d \in Conns \ {c} : conn'[d] = conn[d] /\ app'[d] = app[d]
    /\ conn[c].sndbuf <= SndBuf => conn'[c].sndbuf <= SndBuf
    /\ conn'[c].mbox \in {conn[c].mbox, <<>>}
       \/ (app[c].pc = "waiting" /\ conn'[c].mbox = Tail(conn[c].mbox))
    /\ conn'[c].pcb \in {conn[c].pcb, "NONE"}
    /\ app'[c].pc # "idle" =>
          conn'[c].exists \/ (app[c].pc # "idle" /\ conn'[c].exists = conn[c].exists)

(* It asks the tcpip thread for something, with a new message or with the  *)
(* one it holds. *)
Asks(c) ==
    /\ app[c].pc # "waiting" /\ app'[c].pc = "waiting"
    /\ app'[c].type = "CONNECT" => conn'[c].pcb = "CLOSED"
    /\ \E b \in Blocks, len \in Nat :
          \/ ~IsEmpty(apis) /\ b = apis.head /\ Post(c, Taken(apis), b, app'[c].type, len)
          \/ b \in Holds(c) /\ Post(c, apis, b, app'[c].type, len)

(* It goes on by itself, after an answer if it has asked: it may take a    *)
(* message, free the one it holds or forget it; one that it has had posted *)
(* before it gets back only in a write that goes round again. *)
Works(c) ==
    /\ app[c].pc = "waiting" => conn[c].mbox # <<>> /\ conn'[c].mbox \in {<<>>, Tail(conn[c].mbox)}
    /\ app'[c].pc # "waiting" /\ UNCHANGED <<tcpips, mbox>>
    /\ app'[c].pc = "again" => app[c].pc = "waiting" /\ app[c].type = app'[c].type
    /\ \/ UNCHANGED apis /\ (twice' \/ Holds(c)' \subseteq Holds(c))
       \/ ~IsEmpty(apis) /\ apis' = Taken(apis) /\ Holds(c)' = {apis.head}
       \/ \E b \in Blocks : b \in Holds(c) /\ apis' = memp_free(apis, b) /\ Holds(c)' = {}

Turn(c) == Only(c) /\ (Asks(c) \/ Works(c)) /\ UNCHANGED <<handled, errors, short>>

(* A change of one netconn and its thread. *)
Same(k, c) == /\ k.mbox = conn[c].mbox /\ k.pcb = conn[c].pcb /\ k.exists = conn[c].exists
              /\ k.sndbuf = conn[c].sndbuf
LEMMA OnlyOne ==
    ASSUME NetTypes, NEW c \in Conns, NEW k \in Netconns, NEW a \in Threads, HasMessage(a),
           conn' = [conn EXCEPT ![c] = k], app' = [app EXCEPT ![c] = a]
    PROVE  /\ conn'[c] = k /\ app'[c] = a
           /\ Same(k, c) /\ (a.pc = "idle" \/ app[c].pc # "idle" \/ k.exists) => Only(c)
BY DEF NetTypes, Only, Same

(* A netconn with some of its other fields changed. *)
LEMMA SameFields ==
    ASSUME NetTypes, NEW c \in Conns
    PROVE  LET k == conn[c] IN
           /\ k \in Netconns /\ Same(k, c)
           /\ \A e \in {"OK", "MEM", "ABRT", "CONN"}, s \in {"NONE", "CLOSE", "WRITE"} :
                 /\ [k EXCEPT !.err = e] \in Netconns /\ Same([k EXCEPT !.err = e], c)
                 /\ [k EXCEPT !.state = s] \in Netconns /\ Same([k EXCEPT !.state = s], c)
                 /\ [k EXCEPT !.state = s, !.err = e] \in Netconns
                 /\ Same([k EXCEPT !.state = s, !.err = e], c)
           /\ [k EXCEPT !.open = TRUE] \in Netconns /\ Same([k EXCEPT !.open = TRUE], c)
           /\ [k EXCEPT !.sem = 0] \in Netconns /\ Same([k EXCEPT !.sem = 0], c)
           /\ Written(k) \in Netconns /\ Same(Written(k), c)
<1> DEFINE k == conn[c]
<1>1. k \in Netconns
  BY DEF NetTypes
<1> HIDE DEF k
<1> DEFINE Fit(r) == r \in Netconns /\ r.mbox = k.mbox /\ r.pcb = k.pcb /\ r.exists = k.exists
                     /\ r.sndbuf = k.sndbuf
<1>2. ASSUME NEW e \in {"OK", "MEM", "ABRT", "CONN"}, NEW s \in {"NONE", "CLOSE", "WRITE"}
      PROVE  Fit([k EXCEPT !.err = e]) /\ Fit([k EXCEPT !.state = s])
             /\ Fit([k EXCEPT !.state = s, !.err = e])
  BY <1>1 DEF Netconns
<1>3. Fit([k EXCEPT !.open = TRUE])
  BY <1>1 DEF Netconns
<1>4. ASSUME NEW n \in -1 .. 1
      PROVE  Fit([k EXCEPT !.sem = n]) /\ Fit([k EXCEPT !.state = "NONE", !.sem = n])
  BY <1>1 DEF Netconns
<1>7. 0 \in -1 .. 1 /\ -1 \in -1 .. 1
  OBVIOUS
<1>8. Fit([k EXCEPT !.sem = 0]) /\ Fit(Written(k))
  BY <1>4, <1>7 DEF Written
<1>5. Fit(k)
  BY <1>1
<1>6. QED BY <1>2, <1>3, <1>8, <1>5 DEF Same, k

(* The thread after one of the plain changes. *)
LEMMA ThreadTypes ==
    ASSUME NEW type \in CallTypes
    PROVE  /\ [Idle EXCEPT !.pc = "waiting", !.type = type].pc = "waiting"
           /\ [Idle EXCEPT !.pc = "waiting", !.type = type].type = type
           /\ [Idle EXCEPT !.pc = "waiting", !.type = type] \in Threads
BY NewConnTypes DEF Threads, Places

(* A call that sends a new message and waits. *)
LEMMA SendTurn ==
    ASSUME NetTypes, NEW c \in Conns, NEW k \in Netconns, Same(k, c),
           NEW type \in CallTypes \ {"WRITE"}, NEW len \in Nat,
           app[c].pc # "waiting", app[c].pc # "idle" \/ k.exists,
           type = "CONNECT" => k.pcb = "CLOSED", ~IsEmpty(apis),
           conn' = [conn EXCEPT ![c] = k], Send(c, type, len), Waits(c, type)
    PROVE  Only(c) /\ Asks(c)
<1> DEFINE a == [Idle EXCEPT !.pc = "waiting", !.type = type]
<1>1. a.pc = "waiting" /\ a.type = type /\ a \in Threads /\ HasMessage(a)
  BY ThreadTypes DEF HasMessage
<1>2. app' = [app EXCEPT ![c] = a]
  BY DEF Waits
<1> HIDE DEF a
<1>3. conn'[c] = k /\ app'[c] = a /\ Only(c)
  BY <1>1, <1>2, OnlyOne
<1>4. apis.head \in Blocks
  BY TakeHead DEF NetTypes
<1>5. Post(c, Taken(apis), apis.head, app'[c].type, len)
  BY <1>1, <1>3 DEF Send
<1>6. Asks(c)
  BY <1>1, <1>3, <1>4, <1>5 DEF Asks
<1>7. QED BY <1>3, <1>6

(* A step that leaves the pools alone. *)
LEMMA AloneTurn ==
    ASSUME NetTypes, NEW c \in Conns, NEW k \in Netconns, Same(k, c),
           NEW a \in Threads, HasMessage(a), a.pc \notin {"idle", "waiting"} => app[c].pc # "idle" \/ k.exists,
           app[c].pc # "waiting", a.pc \notin {"waiting", "again"},
           a.pc \in {"idle", "recv"} \/ (app[c].pc = "write" /\ app[c].size # 0 /\ a.msg = app[c].msg) \/ twice',
           conn' = [conn EXCEPT ![c] = k], app' = [app EXCEPT ![c] = a],
           UNCHANGED <<pools>>
    PROVE  Only(c) /\ Works(c)
<1>1. conn'[c] = k /\ app'[c] = a /\ Only(c)
  BY OnlyOne
<1>2. app[c] \in Threads
  BY DEF NetTypes
<1>3. twice' \/ Holds(c)' \subseteq Holds(c)
  <2>1. CASE a.pc \in {"idle", "recv"}
    BY <1>1, <2>1 DEF Holds
  <2>2. CASE app[c].pc = "write" /\ app[c].size # 0 /\ a.msg = app[c].msg
    <3>1. app[c].size > 0
      BY <1>2, <2>2 DEF Threads
    <3>2. QED BY <1>1, <2>2, <3>1 DEF Holds
  <2>3. QED BY <2>1, <2>2
<1>4. Works(c)
  BY <1>1, <1>3 DEF Works, pools
<1>5. QED BY <1>1, <1>4

(* The calls. *)
LEMMA CallTurns ==
    ASSUME NetTypes, NEW c \in Conns, Calls(c)
    PROVE  Turn(c)
<1>0. conn[c] \in Netconns /\ app[c] \in Threads /\ HasMessage(app[c]) /\ 0 \in Nat
      /\ conn = [conn EXCEPT ![c] = conn[c]] /\ app = [app EXCEPT ![c] = app[c]]
  BY DEF NetTypes
<1>1. app[c].pc = "idle" /\ UNCHANGED <<handled, errors, short>>
  BY DEF Calls, netconn_new, netconn_connect, netconn_write, netconn_recv, netconn_close,
         netconn_delete, Begins, bounds
<1>2. Same(conn[c], c)
  BY SameFields
<1>3. ASSUME UNCHANGED <<pools, conn, app>> PROVE Turn(c)
  BY <1>0, <1>1, <1>2, <1>3, AloneTurn DEF Turn
<1>4. CASE netconn_new(c)
  <2>1. CASE IsEmpty(apis)
    BY <1>3, <1>4, <2>1 DEF netconn_new
  <2>2. CASE ~IsEmpty(apis)
    <3>1. NewConn \in Netconns /\ NewConn.exists /\ NewConn.mbox = <<>> /\ NewConn.pcb = "NONE"
          /\ NewConn.sndbuf = 0
      BY NewConnTypes DEF NewConn
    <3>2. conn' = [conn EXCEPT ![c] = NewConn] /\ Send(c, "NEWCONN", 0) /\ Waits(c, "NEWCONN")
      BY <1>4, <2>2 DEF netconn_new
    <3> DEFINE a == [Idle EXCEPT !.pc = "waiting", !.type = "NEWCONN"]
    <3>3. a.pc = "waiting" /\ a.type = "NEWCONN" /\ a \in Threads /\ HasMessage(a)
      BY ThreadTypes DEF HasMessage, CallTypes
    <3>4. app' = [app EXCEPT ![c] = a]
      BY <3>2 DEF Waits
    <3> HIDE DEF a
    <3>5. conn'[c] = NewConn /\ app'[c] = a
      BY <3>2, <3>4, <1>0 DEF NetTypes
    <3>6. SndBuf \in Nat /\ 0 <= SndBuf
      BY SetupTypes DEF NetTypes, SndBuf
    <3>7. conn' \in [Conns -> Netconns] /\ app' \in [Conns -> Threads]
          /\ \A d \in Conns \ {c} : conn'[d] = conn[d] /\ app'[d] = app[d]
      BY <3>1, <3>2, <3>3, <3>4 DEF NetTypes
    <3>8. Only(c)
      BY <3>1, <3>3, <3>5, <3>6, <3>7 DEF Only
    <3>9. apis.head \in Blocks
      BY <2>2, TakeHead DEF NetTypes
    <3>10. Asks(c)
      BY <1>0, <1>1, <2>2, <3>2, <3>3, <3>5, <3>9 DEF Asks, Send
    <3>11. QED BY <1>1, <3>8, <3>10 DEF Turn
  <2>3. QED BY <2>1, <2>2
<1>5. CASE netconn_connect(c)
  <2> DEFINE k == [conn[c] EXCEPT !.open = TRUE]
  <2>1. k \in Netconns /\ Same(k, c)
    BY SameFields
  <2>2. conn' = [conn EXCEPT ![c] = k] /\ conn[c].exists /\ conn[c].pcb = "CLOSED"
    BY <1>5 DEF netconn_connect
  <2> HIDE DEF k
  <2>3. CASE IsEmpty(apis)
    <3>1. app' = [app EXCEPT ![c] = app[c]] /\ UNCHANGED pools
      BY <1>5, <1>0, <2>3 DEF netconn_connect
    <3>2. QED BY <1>0, <1>1, <2>1, <2>2, <3>1, AloneTurn DEF Turn
  <2>4. CASE ~IsEmpty(apis)
    <3>1. Send(c, "CONNECT", 0) /\ Waits(c, "CONNECT")
      BY <1>5, <2>4 DEF netconn_connect
    <3>2. QED BY <1>0, <1>1, <2>1, <2>2, <2>4, <3>1, SendTurn DEF Turn, Same, CallTypes
  <2>5. QED BY <2>3, <2>4
<1>6. CASE netconn_close(c)
  <2>1. CASE IsEmpty(apis)
    <3> DEFINE k == [conn[c] EXCEPT !.state = "CLOSE", !.err = "MEM"]
    <3>1. k \in Netconns /\ Same(k, c)
      BY SameFields
    <3>2. conn' = [conn EXCEPT ![c] = k] /\ app' = [app EXCEPT ![c] = app[c]] /\ UNCHANGED pools
      BY <1>6, <1>0, <2>1 DEF netconn_close
    <3> HIDE DEF k
    <3>3. QED BY <1>0, <1>1, <3>1, <3>2, AloneTurn DEF Turn
  <2>2. CASE ~IsEmpty(apis)
    <3> DEFINE k == [conn[c] EXCEPT !.state = "CLOSE"]
    <3>1. k \in Netconns /\ Same(k, c)
      BY SameFields
    <3>2. conn' = [conn EXCEPT ![c] = k] /\ Send(c, "CLOSE", 0) /\ Waits(c, "CLOSE") /\ conn[c].exists
      BY <1>6, <2>2 DEF netconn_close
    <3> HIDE DEF k
    <3>3. QED BY <1>0, <1>1, <2>2, <3>1, <3>2, SendTurn DEF Turn, Same, CallTypes
  <2>3. QED BY <2>1, <2>2
<1>7. CASE netconn_delete(c)
  <2>1. CASE IsEmpty(apis)
    BY <1>3, <1>7, <2>1 DEF netconn_delete
  <2>2. CASE ~IsEmpty(apis)
    <3>1. conn' = [conn EXCEPT ![c] = conn[c]] /\ Send(c, "DELCONN", 0) /\ Waits(c, "DELCONN")
          /\ conn[c].exists
      BY <1>0, <1>7, <2>2 DEF netconn_delete
    <3>2. QED BY <1>0, <1>1, <1>2, <2>2, <3>1, SendTurn DEF Turn, CallTypes
  <2>3. QED BY <2>1, <2>2
<1>8. CASE netconn_recv(c)
  <2>1. CASE ~conn[c].open
    <3> DEFINE k == [conn[c] EXCEPT !.err = "CONN"]
    <3>1. k \in Netconns /\ Same(k, c)
      BY SameFields
    <3>2. conn' = [conn EXCEPT ![c] = k] /\ app' = [app EXCEPT ![c] = app[c]] /\ UNCHANGED pools
      BY <1>8, <1>0, <2>1 DEF netconn_recv
    <3> HIDE DEF k
    <3>3. QED BY <1>0, <1>1, <3>1, <3>2, AloneTurn DEF Turn
  <2>2. CASE conn[c].open
    <3> DEFINE a == [app[c] EXCEPT !.pc = "recv"]
    <3>1. a \in Threads /\ a.pc = "recv" /\ HasMessage(a)
      BY <1>0 DEF Threads, Places, HasMessage
    <3>2. conn' = conn /\ UNCHANGED pools /\ conn[c].exists
          /\ app' = IF conn[c].err = "OK" THEN [app EXCEPT ![c] = a] ELSE app
      BY <1>8, <2>2 DEF netconn_recv
    <3> HIDE DEF a
    <3>3. conn' = [conn EXCEPT ![c] = conn[c]]
      BY <1>0, <3>2
    <3>4. CASE app' = [app EXCEPT ![c] = a]
      BY <1>0, <1>1, <1>2, <3>1, <3>2, <3>3, <3>4, AloneTurn DEF Turn
    <3>5. CASE app' = app
      BY <1>3, <3>2, <3>5
    <3>6. QED BY <3>2, <3>4, <3>5
  <2>3. QED BY <2>1, <2>2
<1>9. CASE netconn_write(c)
  <2> DEFINE k == [conn[c] EXCEPT !.sem = IF @ = -1 THEN 0 ELSE @]
             j == IF IsEmpty(apis) THEN [k EXCEPT !.err = "MEM"] ELSE [k EXCEPT !.state = "WRITE"]
  <2>1. j \in Netconns /\ Same(j, c)
    <3>1. k \in Netconns /\ Same(k, c)
      <4>1. k = IF conn[c].sem = -1 THEN [conn[c] EXCEPT !.sem = 0] ELSE conn[c]
        BY <1>0 DEF Netconns
      <4>2. QED BY <4>1, SameFields
    <3> HIDE DEF k
    <3>2. QED BY <3>1 DEF Netconns, Same
  <2>2. conn' = [conn EXCEPT ![c] = j] /\ conn[c].exists /\ UNCHANGED <<tcpips, mbox>>
    BY <1>9 DEF netconn_write
  <2> HIDE DEF j
  <2>3. CASE IsEmpty(apis)
    <3>1. app' = [app EXCEPT ![c] = app[c]] /\ UNCHANGED pools
      BY <1>9, <1>0, <2>2, <2>3 DEF netconn_write, pools
    <3>2. QED BY <1>0, <1>1, <2>1, <2>2, <3>1, AloneTurn DEF Turn
  <2>4. CASE ~IsEmpty(apis)
    <3> DEFINE a == [pc |-> "write", type |-> "WRITE", msg |-> apis.head,
                     size |-> setup.writeSize, len |-> 0]
    <3>1. apis.head \in Blocks /\ apis.head \in 0 .. MEMP_NUM_API_MSG
      BY <2>4, TakeHead DEF NetTypes, Pools
    <3>2. setup.writeSize \in Nat /\ setup.writeSize > 0
      BY SetupTypes DEF NetTypes
    <3>3. a \in Threads /\ HasMessage(a) /\ a.pc = "write" /\ a.msg = apis.head /\ a.size > 0
      BY <3>1, <3>2 DEF Threads, HasMessage, Places, CallTypes
    <3>4. apis' = Taken(apis) /\ app' = [app EXCEPT ![c] = a]
      BY <1>9, <2>4 DEF netconn_write
    <3> HIDE DEF a
    <3>5. app'[c] = a /\ Only(c)
      BY <1>0, <2>1, <2>2, <3>3, <3>4, OnlyOne DEF Same
    <3>6. Holds(c)' = {apis.head}
      BY <3>3, <3>5 DEF Holds
    <3>7. Works(c)
      BY <1>1, <2>2, <2>4, <3>3, <3>4, <3>5, <3>6 DEF Works
    <3>8. QED BY <1>1, <3>5, <3>7 DEF Turn
  <2>5. QED BY <2>3, <2>4
<1>10. QED BY <1>4, <1>5, <1>6, <1>7, <1>8, <1>9 DEF Calls

(* A part of a write is posted, in the message the thread holds. *)
LEMMA PostWriteTurn ==
    ASSUME NetTypes, NEW c \in Conns, NEW k \in Netconns, Same(k, c), NEW room \in Nat,
           app[c].pc \in {"write", "full"}, app[c].pc = "write" => app[c].size # 0,
           conn' = [conn EXCEPT ![c] = k], PostWrite(c, room)
    PROVE  Only(c) /\ Asks(c)
<1> DEFINE len == IF app[c].size > room THEN room ELSE app[c].size
           b == app[c].msg
           a == [app[c] EXCEPT !.pc = "waiting", !.len = len]
<1>1. app[c] \in Threads /\ app[c].size \in Nat /\ app[c].type = "WRITE" /\ b \in Blocks
  BY DEF NetTypes, Threads, HasMessage
<1>2. len \in Nat /\ len <= app[c].size
  BY <1>1
<1>3. Post(c, apis, b, "WRITE", len) /\ app' = [app EXCEPT ![c] = a]
  BY DEF PostWrite, NetTypes
<1> HIDE DEF len
<1>4. a \in Threads /\ a.pc = "waiting" /\ a.type = "WRITE" /\ a.msg = b
      /\ a.len = len /\ a.size = app[c].size
  BY <1>1, <1>2 DEF Threads, Places
<1>5. HasMessage(a)
  BY <1>1, <1>2, <1>4 DEF HasMessage
<1> HIDE DEF a
<1>6. app'[c] = a /\ conn'[c] = k /\ Only(c)
  BY <1>3, <1>4, <1>5, OnlyOne
<1>7. b \in Holds(c)
  BY <1>1 DEF Holds
<1>8. Post(c, apis, b, app'[c].type, len)
  BY <1>3, <1>4, <1>6
<1>9. Asks(c)
  BY <1>1, <1>2, <1>4, <1>6, <1>7, <1>8 DEF Asks
<1>10. QED BY <1>6, <1>9

(* What there is room for is a number. *)
LEMMA RoomIsNat ==
    ASSUME NetTypes, NEW c \in Conns
    PROVE  Room(c) \subseteq Nat
<1>1. SndBuf \in Nat /\ conn[c].sndbuf \in Nat
  BY SetupTypes DEF NetTypes, SndBuf, Netconns
<1>2. QED BY <1>1 DEF Room

(* Taking the answer to a call. *)
LEMMA AnsweredTurn ==
    ASSUME NetTypes, NEW c \in Conns, Answered(c), Goes
    PROVE  Only(c) /\ Works(c)
<1> DEFINE l == Tail(conn[c].mbox)
           k == [conn[c] EXCEPT !.mbox = l]
           type == app[c].type
           r == After(type, k)
           a == IF Retries(type, k) THEN [app[c] EXCEPT !.pc = "again"]
                ELSE IF type = "WRITE" /\ k.err = "OK"
                THEN [app[c] EXCEPT !.pc = "write", !.size = @ - app[c].len]
                ELSE Idle
<1>1. app[c].pc = "waiting" /\ conn[c].mbox # <<>> /\ UNCHANGED pools
  BY DEF Answered
<1>2. conn' = [conn EXCEPT ![c] = r]
  BY DEF Answered
<1>3. app' = [app EXCEPT ![c] = a]
  BY DEF Answered
<1>4. conn[c] \in Netconns /\ app[c] \in Threads /\ HasMessage(app[c])
  BY DEF NetTypes
<1>5. l \in Seq(CallTypes \cup {"ERROR"})
  BY <1>1, <1>4 DEF Netconns
<1>6. k \in Netconns /\ k.mbox = l /\ k.pcb = conn[c].pcb /\ k.exists = conn[c].exists
      /\ k.sndbuf = conn[c].sndbuf
  <2> HIDE DEF l
  <2>1. QED BY <1>4, <1>5 DEF Netconns
<1> HIDE DEF l, k
<1>7. /\ r \in Netconns
      /\ r.mbox \in {l, <<>>} /\ r.pcb \in {k.pcb, "NONE"} /\ r.sndbuf \in {k.sndbuf, 0}
      /\ r.exists = k.exists \/ Deletes(type, k)
  <2>1. ASSUME NEW e \in {"OK", "MEM", "ABRT", "CONN"}, NEW s \in {"NONE", "CLOSE", "WRITE"}
        PROVE  /\ [k EXCEPT !.err = e] \in Netconns /\ [k EXCEPT !.state = s] \in Netconns
               /\ [k EXCEPT !.err = e].mbox = k.mbox /\ [k EXCEPT !.state = s].mbox = k.mbox
               /\ [k EXCEPT !.err = e].pcb = k.pcb /\ [k EXCEPT !.state = s].pcb = k.pcb
               /\ [k EXCEPT !.err = e].sndbuf = k.sndbuf /\ [k EXCEPT !.state = s].sndbuf = k.sndbuf
               /\ [k EXCEPT !.err = e].exists = k.exists /\ [k EXCEPT !.state = s].exists = k.exists
    BY <1>6 DEF Netconns
  <2> DEFINE w == Written(k)
             g == [NewConn EXCEPT !.exists = FALSE]
  <2>2. w \in Netconns /\ w.mbox = k.mbox /\ w.pcb = k.pcb /\ w.sndbuf = k.sndbuf
        /\ w.exists = k.exists
    <3>1. ASSUME NEW n \in -1 .. 1
          PROVE  LET j == [k EXCEPT !.state = "NONE", !.sem = n] IN
                 j \in Netconns /\ j.mbox = k.mbox /\ j.pcb = k.pcb /\ j.sndbuf = k.sndbuf
                 /\ j.exists = k.exists
      BY <1>6 DEF Netconns
    <3>2. -1 \in -1 .. 1
      OBVIOUS
    <3>3. QED BY <3>1, <3>2 DEF Written
  <2>3. g \in Netconns /\ g.mbox = <<>> /\ g.pcb = "NONE" /\ g.sndbuf = 0
    BY NewConnTypes DEF NewConn
  <2> DEFINE e == [k EXCEPT !.err = "OK"]
             s == [k EXCEPT !.state = "NONE"]
  <2>4. r \in {g, e, k, s, w} /\ (r = g => Deletes(type, k) \/ r \in {e, k, s, w})
    <3>1. CASE Deletes(type, k)
      BY <3>1 DEF After
    <3>2. CASE ~Deletes(type, k) /\ Retries(type, k)
      BY <3>2 DEF After
    <3>3. CASE ~Deletes(type, k) /\ ~Retries(type, k) /\ type = "CLOSE"
      BY <3>3 DEF After
    <3>4. CASE ~Deletes(type, k) /\ ~Retries(type, k) /\ type # "CLOSE"
      BY <3>4 DEF After
    <3>5. QED BY <3>1, <3>2, <3>3, <3>4
  <2>5. /\ e \in Netconns /\ e.mbox = k.mbox /\ e.pcb = k.pcb /\ e.sndbuf = k.sndbuf /\ e.exists = k.exists
        /\ s \in Netconns /\ s.mbox = k.mbox /\ s.pcb = k.pcb /\ s.sndbuf = k.sndbuf /\ s.exists = k.exists
    BY <2>1
  <2> HIDE DEF g, e, s, w, r
  <2>6. QED BY <2>2, <2>3, <2>4, <2>5, <1>6
<1>8. /\ a \in Threads /\ HasMessage(a) /\ a.pc \in {"again", "write", "idle"}
      /\ a.type = "WRITE" => a.msg = app[c].msg /\ type = "WRITE"
      /\ a.pc = "again" => a.type = type
      /\ Deletes(type, k) => a.pc = "idle"
  <2>1. CASE Retries(type, k)
    <3>1. a = [app[c] EXCEPT !.pc = "again"] /\ type \in {"WRITE", "CLOSE"} /\ k.err = "MEM"
      BY <2>1 DEF Retries
    <3>2. ~Deletes(type, k)
      BY <3>1 DEF Deletes
    <3>3. QED BY <1>4, <3>1, <3>2 DEF Threads, Places, HasMessage
  <2>2. CASE ~Retries(type, k) /\ type = "WRITE" /\ k.err = "OK"
    <3>1. a = [app[c] EXCEPT !.pc = "write", !.size = @ - app[c].len] /\ ~Deletes(type, k)
      BY <2>2 DEF Deletes
    <3>2. app[c].size - app[c].len \in Nat
      BY <1>1, <1>4, <2>2 DEF Threads, NetTypes, HasMessage
    <3>3. QED BY <1>4, <2>2, <3>1, <3>2 DEF Threads, Places, HasMessage
  <2>3. CASE ~Retries(type, k) /\ ~(type = "WRITE" /\ k.err = "OK")
    BY <2>3, NewConnTypes DEF Idle
  <2>4. QED BY <2>1, <2>2, <2>3
<1> HIDE DEF r, a
<1>9. conn'[c] = r /\ app'[c] = a
  BY <1>2, <1>3, <1>7, <1>8, OnlyOne
<1>10. SndBuf \in Nat /\ 0 <= SndBuf
  BY SetupTypes DEF NetTypes, SndBuf
<1>11. Only(c)
  <2>1. conn' \in [Conns -> Netconns] /\ app' \in [Conns -> Threads]
        /\ \A d \in Conns \ {c} : conn'[d] = conn[d] /\ app'[d] = app[d]
    BY <1>2, <1>3, <1>7, <1>8 DEF NetTypes
  <2>2. r.mbox \in {conn[c].mbox, <<>>} \/ (app[c].pc = "waiting" /\ r.mbox = Tail(conn[c].mbox))
    BY <1>1, <1>7 DEF l
  <2>3. conn[c].sndbuf <= SndBuf => r.sndbuf <= SndBuf
    BY <1>6, <1>7, <1>10
  <2>4. a.pc # "idle" => r.exists \/ (app[c].pc # "idle" /\ r.exists = conn[c].exists)
    BY <1>1, <1>6, <1>7, <1>8
  <2>5. r.pcb \in {conn[c].pcb, "NONE"}
    BY <1>6, <1>7
  <2>6. QED BY <1>8, <1>9, <2>1, <2>2, <2>3, <2>4, <2>5 DEF Only
<1>12. twice' \/ Holds(c)' \subseteq Holds(c)
  <2>1. CASE a.pc = "write" /\ a.size > 0
    <3>1. app[c].type = "WRITE"
      BY <1>8, <2>1 DEF HasMessage
    <3>2. GoesRound(c)
      BY <1>1, <1>9, <2>1, <3>1 DEF GoesRound
    <3>3. QED BY <3>2 DEF Goes
  <2>2. CASE ~(a.pc = "write" /\ a.size > 0)
    BY <1>8, <1>9, <2>2 DEF Holds
  <2>3. QED BY <2>1, <2>2
<1>13. Works(c)
  BY <1>1, <1>7, <1>8, <1>9, <1>12 DEF Works, pools, l
<1>14. QED BY <1>11, <1>13

(* Going on with a call. *)
LEMMA GoesOnTurns ==
    ASSUME NetTypes, NEW c \in Conns, GoesOn(c), Goes
    PROVE  Turn(c)
<1>0. conn[c] \in Netconns /\ app[c] \in Threads /\ HasMessage(app[c]) /\ Same(conn[c], c)
      /\ conn = [conn EXCEPT ![c] = conn[c]] /\ app = [app EXCEPT ![c] = app[c]]
  BY SameFields DEF NetTypes
<1>1. app[c].pc # "idle" /\ UNCHANGED <<handled, errors, short>>
  BY DEF GoesOn, WriteNext, WriteWoken, Again, Answered, Receive, bounds
<1>2. CASE Answered(c)
  BY <1>1, <1>2, AnsweredTurn DEF Turn
<1>3. Idle \in Threads /\ HasMessage(Idle) /\ Idle.pc = "idle"
  BY NewConnTypes DEF Idle
<1>4. Written(conn[c]) \in Netconns /\ Same(Written(conn[c]), c)
  BY SameFields
<1>5. CASE WriteNext(c)
  <2>1. app[c].pc = "write"
    BY <1>5 DEF WriteNext
  <2>2. CASE conn[c].err # "OK" \/ app[c].size = 0
    <3>1. conn' = [conn EXCEPT ![c] = Written(conn[c])] /\ app' = [app EXCEPT ![c] = Idle]
          /\ UNCHANGED pools
      BY <1>5, <2>2 DEF WriteNext, EndWrite, Returns
    <3>2. QED BY <1>1, <1>3, <1>4, <2>1, <3>1, AloneTurn DEF Turn
  <2>3. CASE ~(conn[c].err # "OK" \/ app[c].size = 0)
    <3>1. PICK room \in Room(c) :
             IF room = 0 THEN app' = [app EXCEPT ![c] = [@ EXCEPT !.pc = "full"]] /\ UNCHANGED <<pools, conn>>
             ELSE PostWrite(c, room) /\ UNCHANGED conn
      BY <1>5, <2>3 DEF WriteNext
    <3>2. room \in Nat
      BY RoomIsNat
    <3>3. conn' = [conn EXCEPT ![c] = conn[c]]
      BY <1>0, <3>1
    <3>4. CASE room = 0
      <4> DEFINE a == [app[c] EXCEPT !.pc = "full"]
      <4>1. a \in Threads /\ a.pc = "full" /\ HasMessage(a) /\ a.msg = app[c].msg
        BY <1>0, <2>1 DEF Threads, Places, HasMessage
      <4>2. app' = [app EXCEPT ![c] = a] /\ UNCHANGED <<pools>>
        BY <3>1, <3>4
      <4> HIDE DEF a
      <4>3. QED BY <1>0, <1>1, <2>1, <2>3, <3>3, <4>1, <4>2, AloneTurn DEF Turn
    <3>5. CASE room # 0
      BY <1>0, <1>1, <2>1, <2>3, <3>1, <3>2, <3>3, <3>5, PostWriteTurn DEF Turn
    <3>6. QED BY <3>4, <3>5
  <2>4. QED BY <2>2, <2>3
<1>6. CASE WriteWoken(c)
  <2>1. app[c].pc = "full"
    BY <1>6 DEF WriteWoken
  <2>2. CASE conn[c].err # "OK"
    <3> DEFINE b == app[c].msg
    <3>1. conn' = [conn EXCEPT ![c] = Written(conn[c])] /\ app' = [app EXCEPT ![c] = Idle]
          /\ apis' = memp_free(apis, b) /\ UNCHANGED <<tcpips, mbox>>
      BY <1>6, <2>2 DEF WriteWoken, EndWrite, Returns
    <3>2. conn'[c] = Written(conn[c]) /\ app'[c] = Idle /\ Only(c)
      BY <1>3, <1>4, <3>1, OnlyOne
    <3>3. b \in Blocks /\ b \in Holds(c) /\ Holds(c)' = {}
      BY <1>0, <1>3, <2>1, <3>2 DEF HasMessage, Holds
    <3>4. Works(c)
      BY <1>3, <2>1, <3>1, <3>2, <3>3 DEF Works
    <3>5. QED BY <1>1, <3>2, <3>4 DEF Turn
  <2>3. CASE conn[c].err = "OK"
    <3> DEFINE k == [conn[c] EXCEPT !.sem = 0]
    <3>1. PICK room \in Room(c) : PostWrite(c, room) /\ conn' = [conn EXCEPT ![c] = k]
      BY <1>6, <2>3 DEF WriteWoken
    <3>2. room \in Nat
      BY RoomIsNat
    <3>3. k \in Netconns /\ Same(k, c)
      BY SameFields
    <3> HIDE DEF k
    <3>4. QED BY <1>1, <2>1, <3>1, <3>2, <3>3, PostWriteTurn DEF Turn
  <2>4. QED BY <2>2, <2>3
<1>7. CASE Again(c)
  <2> DEFINE k == [conn[c] EXCEPT !.sem = 0]
  <2>1. app[c].pc = "again" /\ conn' = [conn EXCEPT ![c] = k]
    BY <1>7 DEF Again
  <2>2. k \in Netconns /\ Same(k, c)
    BY SameFields
  <2> HIDE DEF k
  <2>3. CASE app[c].type = "WRITE"
    <3> DEFINE a == [app[c] EXCEPT !.pc = "write"]
    <3>1. a \in Threads /\ a.pc = "write" /\ HasMessage(a)
      BY <1>0, <2>3 DEF Threads, Places, HasMessage
    <3>2. app' = [app EXCEPT ![c] = a] /\ UNCHANGED <<pools>>
      BY <1>7, <2>3 DEF Again
    <3>3. twice'
      BY <2>1, <2>3 DEF NetTypes, Goes
    <3> HIDE DEF a
    <3>4. QED BY <1>1, <2>1, <2>2, <3>1, <3>2, <3>3, AloneTurn DEF Turn
  <2>4. CASE app[c].type # "WRITE" /\ IsEmpty(apis)
    <3>1. app' = [app EXCEPT ![c] = Idle] /\ UNCHANGED <<pools>>
      BY <1>7, <2>4 DEF Again, Returns
    <3>2. QED BY <1>1, <1>3, <2>1, <2>2, <3>1, AloneTurn DEF Turn
  <2>5. CASE app[c].type # "WRITE" /\ ~IsEmpty(apis)
    <3>1. Send(c, "CLOSE", 0) /\ Waits(c, "CLOSE")
      BY <1>7, <2>5 DEF Again
    <3>2. QED BY <1>1, <2>1, <2>2, <2>5, <3>1, SendTurn DEF Turn, CallTypes
  <2>6. QED BY <2>3, <2>4, <2>5
<1>8. CASE Receive(c)
  <2> DEFINE l == Tail(conn[c].recvmbox)
             k == [conn[c] EXCEPT !.recvmbox = l]
             e == [k EXCEPT !.open = FALSE, !.recvmbox = <<>>]
             f == [k EXCEPT !.owed = @ + 1, !.err = "MEM"]
             g == [k EXCEPT !.owed = @ + 1]
  <2>1. app[c].pc = "recv" /\ conn[c].recvmbox # <<>>
    BY <1>8 DEF Receive
  <2>2. l \in Seq({"DATA", "END"}) /\ <<>> \in Seq({"DATA", "END"})
    BY <1>0, <2>1 DEF Netconns
  <2>3. \/ conn' = [conn EXCEPT ![c] = e] /\ Returns(c) /\ UNCHANGED pools
        \/ conn' = [conn EXCEPT ![c] = f] /\ Returns(c) /\ UNCHANGED pools
        \/ ~IsEmpty(apis) /\ conn' = [conn EXCEPT ![c] = g] /\ Send(c, "RECV", 1) /\ Waits(c, "RECV")
    BY <1>8 DEF Receive
  <2> HIDE DEF l
  <2>4. k \in Netconns /\ Same(k, c)
    BY <1>0, <2>2 DEF Netconns, Same
  <2> HIDE DEF k
  <2>5. e \in Netconns /\ Same(e, c)
    BY <2>2, <2>4 DEF Netconns, Same
  <2>6. f \in Netconns /\ Same(f, c) /\ g \in Netconns /\ Same(g, c)
    <3> DEFINE n == k.owed + 1
    <3>1. n \in Int
      BY <2>4 DEF Netconns
    <3>2. f = [k EXCEPT !.owed = n, !.err = "MEM"] /\ g = [k EXCEPT !.owed = n]
      OBVIOUS
    <3> HIDE DEF n, f, g
    <3>3. f \in Netconns /\ Same(f, c)
      BY <2>4, <3>1, <3>2 DEF Netconns, Same
    <3>4. g \in Netconns /\ Same(g, c)
      BY <2>4, <3>1, <3>2 DEF Netconns, Same
    <3>5. QED BY <3>3, <3>4
  <2> HIDE DEF e, f, g
  <2>7. ASSUME NEW j \in {e, f}, conn' = [conn EXCEPT ![c] = j], Returns(c), UNCHANGED pools
        PROVE  Turn(c)
    <3>1. app' = [app EXCEPT ![c] = Idle] /\ UNCHANGED <<pools>>
      BY <2>7 DEF Returns
    <3>2. QED BY <1>1, <1>3, <2>1, <2>5, <2>6, <2>7, <3>1, AloneTurn DEF Turn
  <2>8. ASSUME ~IsEmpty(apis), conn' = [conn EXCEPT ![c] = g], Send(c, "RECV", 1), Waits(c, "RECV")
        PROVE  Turn(c)
    BY <1>1, <2>1, <2>6, <2>8, SendTurn DEF Turn, CallTypes
  <2>9. QED BY <2>3, <2>7, <2>8
<1>9. QED BY <1>2, <1>5, <1>6, <1>7, <1>8 DEF GoesOn

(* What asking does to pools and mailbox: the message is sent, or there is *)
(* no tcpip message for it and it is freed.                                *)
Sent(c) == \E m \in Messages :
    /\ m.conn = c /\ m.type = app'[c].type
    /\ mbox' = Append(mbox, m) /\ tcpips' = tcpips - 1 /\ tcpips # 0
    /\ \/ ~IsEmpty(apis) /\ m.msg = apis.head /\ apis' = Taken(apis)
       \/ m.msg \in Holds(c) /\ apis' = apis
Refused(c) ==
    /\ UNCHANGED <<mbox, tcpips>>
    /\ \/ ~IsEmpty(apis) /\ apis' = memp_free(Taken(apis), apis.head)
       \/ \E b \in Blocks : b \in Holds(c) /\ apis' = memp_free(apis, b)

LEMMA AskedOrRefused ==
    ASSUME NetTypes, NEW c \in Conns, Only(c), Asks(c)
    PROVE  /\ Sent(c) \/ Refused(c)
           /\ apis' \in Pools /\ mbox' \in Seq(Messages \cup {Input}) /\ tcpips' \in Nat
<1> DEFINE type == app'[c].type
<1>1. type \in CallTypes
  BY DEF Only, Threads
<1>2. PICK b \in Blocks, len \in Nat :
          \/ ~IsEmpty(apis) /\ b = apis.head /\ Post(c, Taken(apis), b, type, len)
          \/ b \in Holds(c) /\ Post(c, apis, b, type, len)
  BY DEF Asks
<1>3. PICK pool \in Pools :
          /\ Post(c, pool, b, type, len)
          /\ \/ ~IsEmpty(apis) /\ b = apis.head /\ pool = Taken(apis)
             \/ b \in Holds(c) /\ pool = apis
  BY <1>2, TakeHead DEF NetTypes
<1> HIDE DEF type
<1> DEFINE m == [msg |-> b, type |-> type, conn |-> c, len |-> len]
<1>4. m \in Messages /\ m.msg = b /\ m.type = type /\ m.conn = c
  BY <1>1 DEF Messages
<1>5. CASE tcpips = 0
  <2>1. apis' = memp_free(pool, b) /\ UNCHANGED <<mbox, tcpips>>
    BY <1>3, <1>5 DEF Post
  <2>2. apis' \in Pools
    BY <2>1, PutBack
  <2>3. Refused(c)
    BY <1>3, <2>1 DEF Refused
  <2>4. QED BY <2>1, <2>2, <2>3 DEF NetTypes
<1>6. CASE tcpips # 0
  <2>1. apis' = pool /\ tcpips' = tcpips - 1 /\ mbox' = Append(mbox, m)
    BY <1>3, <1>6 DEF Post
  <2> HIDE DEF m
  <2>2. mbox' \in Seq(Messages \cup {Input}) /\ tcpips' \in Nat
    BY <1>4, <1>6, <2>1 DEF NetTypes
  <2>3. Sent(c)
    BY <1>3, <1>4, <1>6, <2>1 DEF Sent, type
  <2>4. QED BY <2>1, <2>2, <2>3
<1>7. QED BY <1>5, <1>6

(* The tcpip thread handles a message. *)
Handles(m) ==
    /\ handled = NULL /\ mbox # <<>> /\ m = Head(mbox) /\ handled' = m.msg
    /\ mbox' = Tail(mbox) /\ mbox' \in Seq(Messages \cup {Input})
    /\ conn' \in [Conns -> Netconns] /\ Deed(m.type, conn[m.conn], conn'[m.conn])
    /\ \A d \in Conns \ {m.conn} : conn'[d] = conn[d]
    /\ short' \in Nat /\ UNCHANGED <<apis, tcpips, app, calls, errors>>

LEMMA InputHandles ==
    ASSUME NetTypes, api_msg_input
    PROVE  \E m \in Messages : Handles(m)
<1> DEFINE m == Head(mbox)
<1>1. handled = NULL /\ mbox # <<>> /\ m # Input /\ handled' = m.msg /\ mbox' = Tail(mbox)
      /\ UNCHANGED <<apis, tcpips, app, calls, errors>>
  BY DEF api_msg_input
<1>2. m \in Messages /\ mbox' \in Seq(Messages \cup {Input})
  BY <1>1 DEF NetTypes
<1>3. PICK outcome \in decode(m, conn[m.conn]) :
         short' = short + outcome.short /\ conn' = [conn EXCEPT ![m.conn] = outcome.conn]
  BY DEF api_msg_input
<1> HIDE DEF m
<1>4. m.conn \in Conns /\ conn[m.conn] \in Netconns
  BY <1>2 DEF Messages, NetTypes
<1>5. SndBuf \in Nat
  BY SetupTypes DEF NetTypes, SndBuf
<1>6. Deed(m.type, conn[m.conn], outcome.conn) /\ outcome.short \in Nat
  BY <1>2, <1>4, <1>5, Handlers
<1>7. conn' \in [Conns -> Netconns] /\ conn'[m.conn] = outcome.conn
      /\ \A d \in Conns \ {m.conn} : conn'[d] = conn[d]
  BY <1>3, <1>4, <1>6 DEF Deed, NetTypes
<1>8. short' \in Nat
  BY <1>3, <1>6 DEF NetTypes
<1>9. Handles(m)
  BY <1>1, <1>2, <1>6, <1>7, <1>8 DEF Handles, m
<1>10. QED BY <1>2, <1>9

(* A packet or the timer: TCP calls back, or resets a connection. *)
Happens ==
    /\ handled = NULL /\ UNCHANGED <<apis, handled, app, calls, short>>
    /\ \/ UNCHANGED <<mbox, tcpips>>
       \/ mbox # <<>> /\ Head(mbox) = Input /\ mbox' = Tail(mbox) /\ tcpips' = tcpips + 1
    /\ conn' \in [Conns -> Netconns] /\ errors' \in Nat
    /\ \A c \in Conns : conn[c].sndbuf <= SndBuf => conn'[c].sndbuf <= SndBuf
    /\ errors' = 0 => errors = 0 /\ \A c \in Conns : Event(conn[c], conn'[c])

LEMMA EventsHappen ==
    ASSUME NetTypes, tcpip_thread
    PROVE  api_msg_input \/ FreeHandled \/ Happens
<1> DEFINE Changed == /\ conn' \in [Conns -> Netconns] /\ errors' \in Nat
                      /\ \A d \in Conns : conn[d].sndbuf <= SndBuf => conn'[d].sndbuf <= SndBuf
                      /\ errors' = 0 => errors = 0 /\ \A d \in Conns : Event(conn[d], conn'[d])
<1>1. SndBuf \in Nat
  BY SetupTypes DEF NetTypes, SndBuf
<1>2. \A d \in Conns : conn[d] \in Netconns /\ Event(conn[d], conn[d])
  BY DEF NetTypes, Event
<1>3. ASSUME UNCHANGED <<conn, errors>> PROVE Changed
  BY <1>2, <1>3 DEF NetTypes
<1>4. ASSUME NEW c \in Conns, NEW r, conn' = [conn EXCEPT ![c] = r], Event(conn[c], r),
             UNCHANGED errors
      PROVE  Changed
  <2>1. r \in Netconns /\ (conn[c].sndbuf <= SndBuf => r.sndbuf <= SndBuf)
    BY <1>4 DEF Event
  <2>2. conn' \in [Conns -> Netconns] /\ \A d \in Conns : conn'[d] = IF d = c THEN r ELSE conn[d]
    BY <1>4, <2>1 DEF NetTypes
  <2>3. QED BY <1>2, <1>4, <2>1, <2>2 DEF NetTypes
<1>5. ASSUME NEW c \in Conns, Connected(c) \/ DataComes(c) \/ EndComes(c) \/ AckComes(c) \/ Polled(c)
      PROVE  Changed
  <2>1. conn[c] \in Netconns
    BY <1>2
  <2>2. CASE Connected(c)
    BY <1>1, <1>4, <2>1, <2>2, Callbacks DEF Connected, Changes
  <2>3. CASE DataComes(c)
    BY <1>1, <1>4, <2>1, <2>3, Callbacks DEF DataComes, Changes
  <2>4. CASE EndComes(c)
    BY <1>1, <1>4, <2>1, <2>4, Callbacks DEF EndComes, Changes
  <2>5. CASE AckComes(c)
    BY <1>1, <1>4, <2>1, <2>5, Callbacks DEF AckComes, Changes
  <2>6. CASE Polled(c)
    BY <1>1, <1>4, <2>1, <2>6, Callbacks DEF Polled, Changes
  <2>7. QED BY <1>5, <2>2, <2>3, <2>4, <2>5, <2>6
<1>6. ASSUME NEW c \in Conns, Fails(c) PROVE Changed
  <2>1. errors' = errors + 1 /\ conn' = [conn EXCEPT ![c] = err_tcp(conn[c])]
    BY <1>6 DEF Fails, Changes
  <2>2. err_tcp(conn[c]) \in Netconns
        /\ (conn[c].sndbuf <= SndBuf => err_tcp(conn[c]).sndbuf <= SndBuf)
    BY <1>1, <1>2, Callbacks
  <2>3. conn' \in [Conns -> Netconns]
        /\ \A d \in Conns : conn'[d] = IF d = c THEN err_tcp(conn[c]) ELSE conn[d]
    BY <2>1, <2>2 DEF NetTypes
  <2>4. errors' \in Nat /\ errors' # 0
    BY <2>1 DEF NetTypes
  <2>5. QED BY <2>2, <2>3, <2>4
<1> DEFINE Mail == /\ mbox # <<>> /\ Head(mbox) = Input
                   /\ mbox' = Tail(mbox) /\ tcpips' = tcpips + 1
           Rest == handled = NULL /\ UNCHANGED <<apis, handled, app, calls, short>>
<1>7. ASSUME Changed, Rest, Mail \/ UNCHANGED <<mbox, tcpips>> PROVE Happens
  BY <1>7 DEF Happens
<1>8. CASE Packet(UNCHANGED <<conn, errors>>)
  <2>1. UNCHANGED <<conn, errors>> /\ Rest /\ Mail
    BY <1>8 DEF Packet
  <2> HIDE DEF Rest, Mail, Changed
  <2>2. QED BY <1>3, <1>7, <2>1
<1>9. ASSUME NEW c \in Conns,
             \/ Packet(Connected(c)) \/ Packet(DataComes(c)) \/ Packet(EndComes(c))
             \/ Packet(AckComes(c)) \/ Packet(Fails(c))
      PROVE  Happens
  <2>1. /\ Rest /\ Mail
        /\ Connected(c) \/ DataComes(c) \/ EndComes(c) \/ AckComes(c) \/ Fails(c)
    BY <1>9 DEF Packet
  <2> HIDE DEF Rest, Mail, Changed
  <2>2. QED BY <1>5, <1>6, <1>7, <2>1
<1>10. ASSUME NEW c \in Conns, Timer(Fails(c)) \/ Timer(Polled(c)) PROVE Happens
  <2>1. Rest /\ UNCHANGED <<mbox, tcpips>> /\ (Fails(c) \/ Polled(c))
    BY <1>10 DEF Timer, pools
  <2> HIDE DEF Rest, Mail, Changed
  <2>2. QED BY <1>5, <1>6, <1>7, <2>1
<1>11. QED BY <1>8, <1>9, <1>10 DEF tcpip_thread

(* All steps. *)
LEMMA Steps ==
    ASSUME NetTypes, Next
    PROVE  /\ Goes
           /\ \/ tcpip_input \/ FreeHandled \/ Happens
              \/ \E m \in Messages : Handles(m)
              \/ \E c \in Conns : Turn(c)
<1>1. Goes
  BY DEF Next
<1>2. ASSUME NEW c \in Conns, Calls(c) \/ GoesOn(c) PROVE Turn(c)
  BY <1>1, <1>2, CallTurns, GoesOnTurns
<1>3. ASSUME tcpip_thread PROVE FreeHandled \/ Happens \/ \E m \in Messages : Handles(m)
  BY <1>3, EventsHappen, InputHandles
<1>4. QED BY <1>1, <1>2, <1>3 DEF Next

----------------------------------------------------------------------------
(* Types are kept. *)
LEMMA TypesInit == Init => NetTypes
<1> SUFFICES ASSUME Init PROVE NetTypes
  OBVIOUS
<1>1. apis \in Pools
  BY InitIsFree DEF Init
<1>2. conn \in [Conns -> Netconns]
  BY NewConnTypes DEF Init
<1>3. app \in [Conns -> Threads] /\ \A c \in Conns : app[c] = Idle /\ HasMessage(app[c])
  BY NewConnTypes DEF Init
<1>4. \A c \in Conns : app[c].pc = "idle"
  BY <1>3 DEF Idle
<1>5. tcpips \in Nat /\ setup \in Setups
  BY SetupTypes DEF Init, MEMP_NUM_TCPIP_MSG
<1>6. mbox \in Seq(Messages \cup {Input}) /\ handled \in 0 .. MEMP_NUM_API_MSG
  BY NetconnAssumption DEF Init, NULL
<1>7. calls \in [Conns -> Nat] /\ short \in Nat /\ errors \in Nat /\ twice \in BOOLEAN
  BY DEF Init
<1>8. QED BY <1>1, <1>2, <1>3, <1>4, <1>5, <1>6, <1>7 DEF NetTypes

(* Every step keeps them. *)
LEMMA TypesStep ==
    ASSUME NetTypes, Next
    PROVE  NetTypes'
<1>1. Goes /\ setup' \in Setups
  BY Steps DEF Goes, NetTypes
<1>2. calls' \in [Conns -> Nat]
  <2>1. \/ UNCHANGED calls
        \/ \E c \in Conns : calls' = [calls EXCEPT ![c] = @ + 1]
    BY DEF Next, tcpip_input, tcpip_thread, api_msg_input, FreeHandled, Packet, Timer,
           GoesOn, WriteNext, WriteWoken, Again, Answered, Receive, Calls, netconn_new,
           netconn_connect, netconn_write, netconn_recv, netconn_close, netconn_delete, Begins
  <2>2. QED BY <2>1 DEF NetTypes
<1>3. twice' \in BOOLEAN /\ (twice => twice')
  <2>1. (\E c \in Conns : GoesRound(c)) \in BOOLEAN
    OBVIOUS
  <2>2. QED BY <1>1, <2>1 DEF Goes, NetTypes
<1> DEFINE Pool == apis' \in Pools /\ tcpips' \in Nat /\ mbox' \in Seq(Messages \cup {Input})
                   /\ handled' \in 0 .. MEMP_NUM_API_MSG /\ short' \in Nat /\ errors' \in Nat
           Ours == /\ conn' \in [Conns -> Netconns]
                   /\ app' \in [Conns -> Threads] /\ \A c \in Conns : HasMessage(app'[c])
                   /\ \A c \in Conns : app'[c].pc = "again" /\ app'[c].type = "WRITE" => twice'
<1>4. UNCHANGED app /\ conn' \in [Conns -> Netconns] => Ours
  BY <1>3 DEF NetTypes
<1>5. CASE tcpip_input
  <2>1. UNCHANGED <<apis, handled, conn, app, short, errors>> /\ mbox' = Append(mbox, Input)
        /\ tcpips' = tcpips - 1 /\ tcpips > 0
    BY <1>5 DEF tcpip_input, bounds
  <2>2. mbox' \in Seq(Messages \cup {Input})
    BY <2>1 DEF NetTypes
  <2>3. Pool /\ Ours
    BY <1>4, <2>1, <2>2 DEF NetTypes
  <2>4. QED BY <1>1, <1>2, <1>3, <2>3 DEF NetTypes
<1>6. CASE FreeHandled
  <2>1. UNCHANGED <<mbox, conn, app, short, errors>> /\ apis' = memp_free(apis, handled)
        /\ tcpips' = tcpips + 1 /\ handled' = NULL /\ handled # NULL
    BY <1>6 DEF FreeHandled, bounds
  <2>2. handled \in Blocks /\ NULL \in 0 .. MEMP_NUM_API_MSG
    BY <2>1, NetconnAssumption DEF NetTypes, Blocks, NULL
  <2>3. apis' \in Pools
    BY <2>1, <2>2, PutBack DEF NetTypes
  <2>4. Pool /\ Ours
    BY <1>4, <2>1, <2>2, <2>3 DEF NetTypes
  <2>5. QED BY <1>1, <1>2, <1>3, <2>4 DEF NetTypes
<1>7. CASE Happens
  <2>1. mbox' \in Seq(Messages \cup {Input}) /\ tcpips' \in Nat
    <3>1. CASE UNCHANGED <<mbox, tcpips>>
      BY <3>1 DEF NetTypes
    <3>2. CASE mbox # <<>> /\ mbox' = Tail(mbox) /\ tcpips' = tcpips + 1
      BY <3>2 DEF NetTypes
    <3>3. QED BY <1>7, <3>1, <3>2 DEF Happens
  <2>2. Pool /\ Ours
    BY <1>4, <1>7, <2>1 DEF Happens, NetTypes
  <2>3. QED BY <1>1, <1>2, <1>3, <2>2 DEF NetTypes
<1>8. ASSUME NEW m \in Messages, Handles(m) PROVE NetTypes'
  <2>1. handled' \in 0 .. MEMP_NUM_API_MSG
    BY <1>8, NetconnAssumption DEF Handles, Messages, Blocks
  <2>2. Pool /\ Ours
    BY <1>4, <1>8, <2>1 DEF Handles, NetTypes
  <2>3. QED BY <1>1, <1>2, <1>3, <2>2 DEF NetTypes
<1>9. ASSUME NEW c \in Conns, Turn(c) PROVE NetTypes'
  <2>1. Only(c) /\ UNCHANGED <<handled, errors, short>>
    BY <1>9 DEF Turn
  <2>2. apis' \in Pools /\ mbox' \in Seq(Messages \cup {Input}) /\ tcpips' \in Nat
    <3>1. CASE Asks(c)
      BY <2>1, <3>1, AskedOrRefused
    <3>2. CASE Works(c)
      BY <3>2, TakeHead, PutBack DEF Works, NetTypes
    <3>3. QED BY <1>9, <3>1, <3>2 DEF Turn
  <2>3. app'[c].pc = "again" /\ app'[c].type = "WRITE" => twice'
    <3>1. CASE Asks(c)
      BY <3>1 DEF Asks
    <3>2. CASE Works(c)
      BY <1>1, <3>2 DEF Works, GoesRound, Goes
    <3>3. QED BY <1>9, <3>1, <3>2 DEF Turn
  <2>4. Ours
    BY <1>3, <2>1, <2>3 DEF Only, NetTypes
  <2>5. Pool
    BY <2>1, <2>2 DEF NetTypes
  <2>6. QED BY <1>1, <1>2, <1>3, <2>4, <2>5 DEF NetTypes
<1>10. QED BY <1>5, <1>6, <1>7, <1>8, <1>9, Steps

----------------------------------------------------------------------------
(* Who is asked and who answers, as long as no connection is reset.  An    *)
(* answer is there while its thread waits for it, a connection is being    *)
(* made while its thread waits for that, and a thread that does something  *)
(* has its netconn. *)
Attends(c) ==
    /\ conn[c].mbox # <<>> => app[c].pc = "waiting" /\ conn[c].mbox = <<app[c].type>>
    /\ conn[c].pcb = "SYN_SENT" =>
          app[c].pc = "waiting" /\ app[c].type = "CONNECT" /\ conn[c].mbox = <<>>
    /\ app[c].pc # "idle" => conn[c].exists

(* A message is on its way while its thread waits for just this answer,    *)
(* and there is none yet. *)
Awaited(m) ==
    /\ app[m.conn].pc = "waiting" /\ app[m.conn].type = m.type /\ conn[m.conn].mbox = <<>>
    /\ m.type = "CONNECT" => conn[m.conn].pcb = "CLOSED"

AwaitedNext(m) ==
    /\ app'[m.conn].pc = "waiting" /\ app'[m.conn].type = m.type /\ conn'[m.conn].mbox = <<>>
    /\ m.type = "CONNECT" => conn'[m.conn].pcb = "CLOSED"

AsksInv == errors = 0 =>
    /\ \A c \in Conns : Attends(c)
    /\ \A i \in 1 .. Len(mbox) : mbox[i] # Input => Awaited(mbox[i])
    /\ \A i, j \in 1 .. Len(mbox) :
          mbox[i] # Input /\ mbox[j] # Input /\ mbox[i].conn = mbox[j].conn => i = j

(* What is in a mailbox, without its first. *)
LEMMA TailOf ==
    ASSUME NEW S, NEW q \in Seq(S), q # <<>>
    PROVE  /\ Tail(q) \in Seq(S) /\ Len(Tail(q)) = Len(q) - 1
           /\ Head(q) = q[1] /\ 1 \in 1 .. Len(q) /\ q[1] \in S
           /\ \A i \in 1 .. Len(Tail(q)) : i + 1 \in 1 .. Len(q) /\ Tail(q)[i] = q[i + 1]
OBVIOUS

(* And with one more. *)
LEMMA AppendTo ==
    ASSUME NEW S, NEW q \in Seq(S), NEW x \in S
    PROVE  /\ Append(q, x) \in Seq(S) /\ Len(Append(q, x)) = Len(q) + 1
           /\ Append(q, x)[Len(q) + 1] = x
           /\ \A i \in 1 .. Len(q) : Append(q, x)[i] = q[i] /\ i \in 1 .. Len(q) + 1
           /\ \A i \in 1 .. Len(q) + 1 : i \in 1 .. Len(q) \/ i = Len(q) + 1
OBVIOUS

(* The mailbox as it was, without its first, or with a packet more: what   *)
(* is to be shown is about the letters that were there before. *)
LEMMA OldLetters ==
    ASSUME NetTypes, mbox' \in {mbox, Append(mbox, Input)} \/ (mbox # <<>> /\ mbox' = Tail(mbox)),
           errors = 0, AsksInv
    PROVE  /\ \A i \in 1 .. Len(mbox') : mbox'[i] # Input =>
                \E k \in 1 .. Len(mbox) : mbox'[i] = mbox[k] /\ (mbox' = Tail(mbox) /\ mbox # <<>> => k # 1)
           /\ \A i, j \in 1 .. Len(mbox') :
                mbox'[i] # Input /\ mbox'[j] # Input /\ mbox'[i].conn = mbox'[j].conn => i = j
<1>1. mbox \in Seq(Messages \cup {Input}) /\ Input \in Messages \cup {Input}
  BY DEF NetTypes
<1>2. CASE mbox # <<>> /\ mbox' = Tail(mbox)
  <2>1. \A i \in 1 .. Len(mbox') : i + 1 \in 1 .. Len(mbox) /\ mbox'[i] = mbox[i + 1] /\ i + 1 # 1
    BY <1>1, <1>2, TailOf
  <2>2. ASSUME NEW i \in 1 .. Len(mbox'), NEW j \in 1 .. Len(mbox'),
               mbox'[i] # Input, mbox'[j] # Input, mbox'[i].conn = mbox'[j].conn
        PROVE  i = j
    <3>1. i + 1 = j + 1
      BY <2>1, <2>2 DEF AsksInv
    <3>2. QED BY <3>1
  <2>3. QED BY <2>1, <2>2
<1>3. CASE mbox' = mbox /\ ~(mbox # <<>> /\ mbox' = Tail(mbox))
  BY <1>3 DEF AsksInv
<1>4. CASE mbox' = Append(mbox, Input) /\ ~(mbox # <<>> /\ mbox' = Tail(mbox))
  <2>1. \A i \in 1 .. Len(mbox') : mbox'[i] # Input => i \in 1 .. Len(mbox) /\ mbox'[i] = mbox[i]
    BY <1>1, <1>4, AppendTo
  <2>2. QED BY <1>4, <2>1 DEF AsksInv
<1>5. QED BY <1>2, <1>3, <1>4

LEMMA AsksInit == Init => AsksInv
<1> SUFFICES ASSUME Init PROVE AsksInv
  OBVIOUS
<1>1. \A c \in Conns : conn[c].mbox = <<>> /\ conn[c].pcb = "NONE" /\ app[c].pc = "idle"
  BY DEF Init, NewConn, Idle
<1>2. Len(mbox) = 0
  BY DEF Init
<1>3. \A i \in 1 .. Len(mbox) : FALSE
  BY <1>2
<1>4. QED BY <1>1, <1>3 DEF AsksInv, Attends

(* A mailbox with one answer. *)
LEMMA OneAnswer == \A x : Append(<<>>, x) = <<x>> /\ Tail(<<x>>) = <<>>
OBVIOUS

(* An event answers nobody but a thread that waits for its connection.     *)
LEMMA AsksHappens ==
    ASSUME NetTypes, AsksInv, Happens, errors' = 0
    PROVE  AsksInv'
<1>1. errors = 0 /\ UNCHANGED app /\ \A c \in Conns : Event(conn[c], conn'[c]) /\ conn[c] \in Netconns
  BY DEF Happens, NetTypes
<1>2. mbox \in Seq(Messages \cup {Input})
  BY DEF NetTypes
<1>3. mbox' = mbox \/ (mbox # <<>> /\ mbox' = Tail(mbox))
  BY DEF Happens
<1>4. ASSUME NEW c \in Conns PROVE Attends(c)'
  <2>1. Attends(c)
    BY <1>1 DEF AsksInv
  <2>2. conn[c].pcb = "SYN_SENT" => conn[c].exists /\ Append(conn[c].mbox, "CONNECT") = <<app[c].type>>
    BY <2>1, OneAnswer DEF Attends
  <2>3. QED BY <1>1, <2>1, <2>2 DEF Attends, Event
<1>5. ASSUME NEW m \in Messages, Awaited(m) PROVE AwaitedNext(m)
  <2>1. m.conn \in Conns
    BY DEF Messages
  <2>2. Attends(m.conn)
    BY <1>1, <2>1 DEF AsksInv
  <2>3. conn[m.conn].pcb # "SYN_SENT"
    BY <2>2, <1>5 DEF Attends, Awaited
  <2>4. QED BY <1>1, <1>5, <2>1, <2>3 DEF Awaited, AwaitedNext, Event
<1>6. /\ \A i \in 1 .. Len(mbox') : mbox'[i] # Input => \E k \in 1 .. Len(mbox) : mbox'[i] = mbox[k]
      /\ \A i, j \in 1 .. Len(mbox') :
            mbox'[i] # Input /\ mbox'[j] # Input /\ mbox'[i].conn = mbox'[j].conn => i = j
  BY <1>1, <1>3, OldLetters
<1>7. \A k \in 1 .. Len(mbox) : mbox[k] # Input => mbox[k] \in Messages /\ Awaited(mbox[k])
  BY <1>1, <1>2 DEF AsksInv
<1>8. \A i \in 1 .. Len(mbox') : mbox'[i] # Input => AwaitedNext(mbox'[i])
  BY <1>5, <1>6, <1>7
<1>9. QED BY <1>4, <1>6, <1>8 DEF AsksInv, Awaited, AwaitedNext

(* A message is answered once: no other of its connection is on its way.   *)
LEMMA AsksHandles ==
    ASSUME NetTypes, AsksInv, NEW m \in Messages, Handles(m), errors' = 0
    PROVE  AsksInv'
<1> DEFINE d == m.conn
<1>1. errors = 0 /\ UNCHANGED app /\ d \in Conns /\ mbox # <<>> /\ mbox' = Tail(mbox)
      /\ m = Head(mbox) /\ Deed(m.type, conn[d], conn'[d])
      /\ \A c \in Conns \ {d} : conn'[c] = conn[c]
  BY DEF Handles, Messages
<1>2. mbox \in Seq(Messages \cup {Input})
  BY DEF NetTypes
<1>3. 1 \in 1 .. Len(mbox) /\ m = mbox[1] /\ m # Input
  BY <1>1, <1>2, TailOf, MessageIsNoInput
<1>4. Awaited(m) /\ Attends(d)
  BY <1>1, <1>3 DEF AsksInv
<1>5. Attends(d)'
  <2>1. conn[d].mbox = <<>> /\ app[d].pc = "waiting" /\ app[d].type = m.type
        /\ conn[d].pcb # "SYN_SENT" /\ conn[d].exists
    BY <1>4 DEF Awaited, Attends
  <2>2. Append(conn[d].mbox, m.type) = <<app[d].type>>
    BY <2>1, OneAnswer
  <2> HIDE DEF d
  <2>3. QED BY <1>1, <2>1, <2>2 DEF Attends, Deed
<1>6. ASSUME NEW c \in Conns \ {d} PROVE Attends(c)'
  <2>1. Attends(c) /\ conn'[c] = conn[c] /\ app'[c] = app[c]
    BY <1>1, <1>6 DEF AsksInv
  <2>2. QED BY <2>1 DEF Attends
<1>7. /\ \A i \in 1 .. Len(mbox') : mbox'[i] # Input =>
            \E k \in 1 .. Len(mbox) : mbox'[i] = mbox[k] /\ k # 1
      /\ \A i, j \in 1 .. Len(mbox') :
            mbox'[i] # Input /\ mbox'[j] # Input /\ mbox'[i].conn = mbox'[j].conn => i = j
  BY <1>1, OldLetters
<1>8. ASSUME NEW i \in 1 .. Len(mbox'), mbox'[i] # Input PROVE AwaitedNext(mbox'[i])
  <2>1. PICK k \in 1 .. Len(mbox) : mbox'[i] = mbox[k] /\ k # 1
    BY <1>7, <1>8
  <2>2. Awaited(mbox[k]) /\ mbox[k].conn # d /\ mbox[k] \in Messages
    BY <1>1, <1>2, <1>3, <1>8, <2>1 DEF AsksInv
  <2>3. mbox[k].conn \in Conns \ {d}
    BY <2>2 DEF Messages
  <2>4. QED BY <1>1, <2>1, <2>2, <2>3 DEF Awaited, AwaitedNext
<1>9. \A c \in Conns : Attends(c)'
  BY <1>5, <1>6
<1>10. QED BY <1>7, <1>8, <1>9 DEF AsksInv, Awaited, AwaitedNext

(* A thread asks when nothing of its own is on its way.                    *)
LEMMA AsksTurn ==
    ASSUME NetTypes, AsksInv, NEW c \in Conns, Turn(c), errors' = 0
    PROVE  AsksInv'
<1>1. errors = 0 /\ Only(c)
  BY DEF Turn
<1>2. conn'[c] \in Netconns /\ app'[c] \in Threads /\ conn[c] \in Netconns
      /\ mbox \in Seq(Messages \cup {Input})
      /\ \A d \in Conns \ {c} : conn'[d] = conn[d] /\ app'[d] = app[d]
  BY <1>1 DEF NetTypes, Only
<1>3. /\ \A d \in Conns : Attends(d)
      /\ \A i \in 1 .. Len(mbox) : mbox[i] # Input => Awaited(mbox[i]) /\ mbox[i].conn \in Conns
  BY <1>1, <1>2 DEF AsksInv, Messages
<1>4. \A i \in 1 .. Len(mbox) : mbox[i] # Input => mbox[i].conn # c
  <2>1. CASE Asks(c)
    BY <1>3, <2>1 DEF Asks, Awaited
  <2>2. CASE Works(c)
    <3>1. SUFFICES ASSUME NEW i \in 1 .. Len(mbox), mbox[i] # Input, mbox[i].conn = c PROVE FALSE
      OBVIOUS
    <3>2. app[c].pc = "waiting" /\ conn[c].mbox = <<>>
      BY <1>3, <3>1 DEF Awaited
    <3>3. QED BY <2>2, <3>2 DEF Works
  <2>3. QED BY <2>1, <2>2 DEF Turn
<1>5. conn'[c].mbox = <<>> /\ conn'[c].pcb # "SYN_SENT" /\ (app'[c].pc # "idle" => conn'[c].exists)
  <2>1. Attends(c)
    BY <1>3
  <2>2. app'[c].pc # "idle" => conn'[c].exists
    BY <1>1, <2>1 DEF Only, Attends
  <2>3. CASE Asks(c)
    BY <1>1, <2>1, <2>2, <2>3 DEF Asks, Only, Attends
  <2>4. CASE Works(c)
    <3>1. CASE app[c].pc = "waiting"
      <4>1. conn[c].mbox = <<app[c].type>> /\ Tail(conn[c].mbox) = <<>>
        BY <2>1, <2>4, <3>1, OneAnswer DEF Works, Attends
      <4>2. conn'[c].mbox = <<>> /\ conn[c].pcb # "SYN_SENT"
        BY <2>1, <2>4, <3>1, <4>1 DEF Works, Attends
      <4>3. QED BY <1>1, <2>2, <4>2 DEF Only
    <3>2. CASE app[c].pc # "waiting"
      BY <1>1, <2>1, <2>2, <3>2 DEF Only, Attends
    <3>3. QED BY <3>1, <3>2
  <2>5. QED BY <2>3, <2>4 DEF Turn
<1>6. \A d \in Conns : Attends(d)'
  <2>1. Attends(c)'
    BY <1>5 DEF Attends
  <2>2. \A d \in Conns \ {c} : Attends(d)'
    BY <1>2, <1>3 DEF Attends
  <2>3. QED BY <2>1, <2>2
<1>7. ASSUME NEW m, m.conn \in Conns \ {c}, Awaited(m) PROVE AwaitedNext(m)
  BY <1>2, <1>7 DEF Awaited, AwaitedNext
<1>8. CASE mbox' = mbox
  <2>1. ASSUME NEW i \in 1 .. Len(mbox'), mbox'[i] # Input PROVE AwaitedNext(mbox'[i])
    BY <1>3, <1>4, <1>7, <1>8, <2>1
  <2>2. \A i, j \in 1 .. Len(mbox') :
           mbox'[i] # Input /\ mbox'[j] # Input /\ mbox'[i].conn = mbox'[j].conn => i = j
    BY <1>1, <1>8 DEF AsksInv
  <2>3. QED BY <1>6, <2>1, <2>2 DEF AsksInv, Awaited, AwaitedNext
<1>9. CASE Asks(c) /\ Sent(c)
  <2>1. PICK m \in Messages : m.conn = c /\ m.type = app'[c].type /\ mbox' = Append(mbox, m)
    BY <1>9 DEF Sent
  <2>2. /\ Len(mbox') = Len(mbox) + 1 /\ mbox'[Len(mbox) + 1] = m
        /\ \A i \in 1 .. Len(mbox) : mbox'[i] = mbox[i]
        /\ \A i \in 1 .. Len(mbox') : i \in 1 .. Len(mbox) \/ i = Len(mbox) + 1
    BY <1>2, <2>1, AppendTo
  <2>3. AwaitedNext(m)
    BY <1>5, <1>9, <2>1 DEF Asks, AwaitedNext
  <2>4. ASSUME NEW i \in 1 .. Len(mbox'), mbox'[i] # Input PROVE AwaitedNext(mbox'[i])
    <3>1. CASE i = Len(mbox) + 1
      BY <2>2, <2>3, <3>1
    <3>2. CASE i \in 1 .. Len(mbox)
      BY <1>3, <1>4, <1>7, <2>2, <2>4, <3>2
    <3>3. QED BY <2>2, <3>1, <3>2
  <2>5. ASSUME NEW i \in 1 .. Len(mbox'), NEW j \in 1 .. Len(mbox'),
               mbox'[i] # Input, mbox'[j] # Input, mbox'[i].conn = mbox'[j].conn
        PROVE  i = j
    <3>1. CASE i = Len(mbox) + 1 \/ j = Len(mbox) + 1
      BY <1>4, <2>1, <2>2, <2>5, <3>1
    <3>2. CASE i # Len(mbox) + 1 /\ j # Len(mbox) + 1
      <4>1. i \in 1 .. Len(mbox) /\ j \in 1 .. Len(mbox)
        BY <2>2, <3>2
      <4>2. QED BY <1>1, <2>2, <2>5, <4>1 DEF AsksInv
    <3>3. QED BY <3>1, <3>2
  <2>6. QED BY <1>6, <2>4, <2>5 DEF AsksInv, Awaited, AwaitedNext
<1>10. Works(c) \/ Refused(c) => mbox' = mbox
  BY DEF Works, Refused
<1>11. QED BY <1>1, <1>8, <1>9, <1>10, AskedOrRefused DEF Turn

(* Every step. *)
LEMMA AsksStep ==
    ASSUME NetTypes, AsksInv, [Next]_vars
    PROVE  AsksInv'
<1> SUFFICES ASSUME errors' = 0 PROVE AsksInv'
  BY DEF AsksInv
<1>1. CASE UNCHANGED vars
  BY <1>1 DEF AsksInv, vars, Attends, Awaited
<1>2. CASE FreeHandled
  BY <1>2 DEF FreeHandled, bounds, AsksInv, Attends, Awaited
<1>3. CASE tcpip_input
  <2>1. errors = 0 /\ UNCHANGED <<conn, app>> /\ mbox' = Append(mbox, Input)
    BY <1>3 DEF tcpip_input, bounds
  <2>2. /\ \A i \in 1 .. Len(mbox') : mbox'[i] # Input => \E k \in 1 .. Len(mbox) : mbox'[i] = mbox[k]
        /\ \A i, j \in 1 .. Len(mbox') :
              mbox'[i] # Input /\ mbox'[j] # Input /\ mbox'[i].conn = mbox'[j].conn => i = j
    BY <2>1, OldLetters
  <2>3. \A i \in 1 .. Len(mbox') : mbox'[i] # Input => AwaitedNext(mbox'[i])
    BY <2>1, <2>2 DEF AsksInv, Awaited, AwaitedNext
  <2>4. \A c \in Conns : Attends(c)'
    BY <2>1 DEF AsksInv, Attends
  <2>5. QED BY <2>2, <2>3, <2>4 DEF AsksInv, Awaited, AwaitedNext
<1>4. CASE Happens
  BY <1>4, AsksHappens
<1>5. CASE \E m \in Messages : Handles(m)
  BY <1>5, AsksHandles
<1>6. CASE \E c \in Conns : Turn(c)
  BY <1>6, AsksTurn
<1>7. QED BY <1>1, <1>2, <1>3, <1>4, <1>5, <1>6, Steps

----------------------------------------------------------------------------
(* The numbers: each tcpip message is somewhere, and the send buffer has   *)
(* its size at most. *)
CountInv ==
    /\ tcpips + Len(mbox) + (IF handled = NULL THEN 0 ELSE 1) = MEMP_NUM_TCPIP_MSG
    /\ \A c \in Conns : conn[c].sndbuf <= SndBuf

LEMMA CountInit == Init => CountInv
<1> SUFFICES ASSUME Init PROVE CountInv
  OBVIOUS
<1>1. setup.tcpips \in Nat /\ SndBuf \in Nat
  BY SetupTypes DEF Init, SndBuf
<1>2. Len(mbox) = 0 /\ handled = NULL /\ tcpips = MEMP_NUM_TCPIP_MSG
  BY DEF Init
<1>3. \A c \in Conns : conn[c].sndbuf = 0
  BY DEF Init, NewConn
<1>4. QED BY <1>1, <1>2, <1>3 DEF CountInv, MEMP_NUM_TCPIP_MSG

LEMMA CountStep ==
    ASSUME NetTypes, CountInv, [Next]_vars
    PROVE  CountInv'
<1>0. mbox \in Seq(Messages \cup {Input}) /\ Len(mbox) \in Nat /\ tcpips \in Nat
      /\ Input \in Messages \cup {Input}
  BY DEF NetTypes
<1>1. CASE UNCHANGED vars
  BY <1>1 DEF CountInv, vars, MEMP_NUM_TCPIP_MSG, SndBuf
<1> DEFINE Sum == tcpips' + Len(mbox') + (IF handled' = NULL THEN 0 ELSE 1)
                     = tcpips + Len(mbox) + (IF handled = NULL THEN 0 ELSE 1)
           Fits == \A c \in Conns : conn[c].sndbuf <= SndBuf => conn'[c].sndbuf <= SndBuf
<1>2. ASSUME Goes, Sum, Fits PROVE CountInv'
  BY <1>2 DEF CountInv, Goes, MEMP_NUM_TCPIP_MSG, SndBuf
<1>3. CASE FreeHandled
  <2>1. Sum /\ Fits
    BY <1>0, <1>3 DEF FreeHandled
  <2>2. CASE Next
    BY <1>2, <2>1, <2>2, Steps
  <2>3. QED BY <1>1, <2>2
<1>4. ASSUME Next, tcpip_input PROVE CountInv'
  <2>1. Len(mbox') = Len(mbox) + 1 /\ tcpips' = tcpips - 1 /\ UNCHANGED <<handled, conn>>
    BY <1>0, <1>4, AppendTo DEF tcpip_input
  <2>2. Sum /\ Fits
    BY <1>0, <2>1
  <2>3. QED BY <1>2, <1>4, <2>2, Steps
<1>5. ASSUME Next, Happens PROVE CountInv'
  <2>1. Fits /\ handled' = handled
    BY <1>5 DEF Happens
  <2>2. CASE UNCHANGED <<mbox, tcpips>>
    BY <1>2, <1>5, <2>1, <2>2, Steps
  <2>3. CASE mbox # <<>> /\ mbox' = Tail(mbox) /\ tcpips' = tcpips + 1
    <3>1. Len(mbox') = Len(mbox) - 1
      BY <1>0, <2>3, TailOf
    <3>2. Sum
      BY <1>0, <2>1, <2>3, <3>1
    <3>3. QED BY <1>2, <1>5, <2>1, <3>2, Steps
  <2>4. QED BY <1>5, <2>2, <2>3 DEF Happens
<1>6. ASSUME Next, NEW m \in Messages, Handles(m) PROVE CountInv'
  <2>1. Len(mbox') = Len(mbox) - 1 /\ tcpips' = tcpips /\ handled = NULL /\ handled' # NULL
    BY <1>0, <1>6, TailOf, NetconnAssumption DEF Handles, Messages, Blocks, NULL
  <2>2. Sum
    BY <1>0, <2>1
  <2>3. Fits
    BY <1>6 DEF Handles, Deed, Messages
  <2>4. QED BY <1>2, <1>6, <2>2, <2>3, Steps
<1>7. ASSUME Next, NEW c \in Conns, Turn(c) PROVE CountInv'
  <2>1. Fits /\ handled' = handled
    BY <1>7 DEF Turn, Only
  <2>2. CASE UNCHANGED <<mbox, tcpips>>
    BY <1>2, <1>7, <2>1, <2>2, Steps
  <2>3. CASE Sent(c)
    <3>1. Len(mbox') = Len(mbox) + 1 /\ tcpips' = tcpips - 1
      BY <1>0, <2>3, AppendTo DEF Sent
    <3>2. Sum
      BY <1>0, <2>1, <3>1
    <3>3. QED BY <1>2, <1>7, <2>1, <3>2, Steps
  <2>4. QED BY <1>7, <2>2, <2>3, AskedOrRefused DEF Turn, Works, Refused
<1>8. QED BY <1>1, <1>3, <1>4, <1>5, <1>6, <1>7, Steps

(* Types and numbers together are TypeOK. *)
LEMMA CountIsTypeOK == NetTypes /\ CountInv => TypeOK
<1> SUFFICES ASSUME NetTypes, CountInv PROVE TypeOK
  OBVIOUS
<1>1. SndBuf \in Nat
  BY SetupTypes DEF NetTypes, SndBuf
<1>2. ASSUME NEW c \in Conns PROVE conn[c].sem \in -1 .. 1 /\ conn[c].sndbuf \in 0 .. SndBuf
  BY <1>1 DEF NetTypes, CountInv, Netconns
<1>3. QED BY <1>2 DEF TypeOK, NetTypes, CountInv

----------------------------------------------------------------------------
(* Whose the blocks are, L being those on the free list. *)
Apart(L) ==
    /\ \A i \in 1 .. Len(mbox) : mbox[i] # Input =>
          /\ mbox[i].msg \notin L /\ mbox[i].msg # handled
          /\ \A c \in Conns : mbox[i].msg \notin Holds(c)
    /\ \A i, j \in 1 .. Len(mbox) :
          mbox[i] # Input /\ mbox[j] # Input /\ mbox[i].msg = mbox[j].msg => i = j
    /\ handled \notin L /\ \A c \in Conns : handled \notin Holds(c) /\ Holds(c) \cap L = {}
    /\ \A c, d \in Conns : c # d => Holds(c) \cap Holds(d) = {}

SharedOut == Whole => \E l : IsFreeList(apis, l) /\ Apart(On(l))

(* A write holds one of the blocks. *)
LEMMA HeldIsBlock ==
    ASSUME NetTypes, NEW c \in Conns
    PROVE  Holds(c) \subseteq Blocks
BY DEF NetTypes, HasMessage, Holds

(* A thread disposes of what is free and of what it holds itself. *)
LEMMA ApartTurn ==
    ASSUME NetTypes, NEW c \in Conns, NEW L, Apart(L), NEW M,
           \A d \in Conns \ {c} : app'[d] = app[d], handled' = handled,
           M \subseteq L \cup Holds(c), Holds(c)' \subseteq L \cup Holds(c), Holds(c)' \cap M = {},
           \/ mbox' = mbox
           \/ \E m \in Messages : /\ mbox' = Append(mbox, m) /\ m.msg \in L \cup Holds(c)
                                  /\ m.msg \notin M /\ m.msg \notin Holds(c)'
    PROVE  Apart(M)'
<1>1. mbox \in Seq(Messages \cup {Input})
  BY DEF NetTypes
<1>2. \A d \in Conns \ {c} : Holds(d)' = Holds(d)
  BY DEF Holds
<1>3. handled' \notin M /\ \A d \in Conns : handled' \notin Holds(d)' /\ Holds(d)' \cap M = {}
  BY <1>2 DEF Apart
<1>4. \A d, e \in Conns : d # e => Holds(d)' \cap Holds(e)' = {}
  BY <1>2 DEF Apart
<1>5. \A i \in 1 .. Len(mbox) : mbox[i] # Input =>
          /\ mbox[i].msg \notin M /\ mbox[i].msg # handled'
          /\ \A d \in Conns : mbox[i].msg \notin Holds(d)'
  BY <1>2 DEF Apart
<1>6. CASE mbox' = mbox
  BY <1>3, <1>4, <1>5, <1>6 DEF Apart
<1>7. CASE mbox' # mbox
  <2>1. PICK m \in Messages : /\ mbox' = Append(mbox, m) /\ m.msg \in L \cup Holds(c)
                              /\ m.msg \notin M /\ m.msg \notin Holds(c)'
    BY <1>7
  <2>2. /\ mbox'[Len(mbox) + 1] = m
        /\ \A i \in 1 .. Len(mbox) : mbox'[i] = mbox[i]
        /\ \A i \in 1 .. Len(mbox') : i \in 1 .. Len(mbox) \/ i = Len(mbox) + 1
    BY <1>1, <2>1, AppendTo
  <2>3. m.msg \notin M /\ m.msg # handled' /\ \A d \in Conns : m.msg \notin Holds(d)'
    BY <1>2, <2>1 DEF Apart
  <2>4. \A i \in 1 .. Len(mbox') : mbox'[i] # Input =>
            /\ mbox'[i].msg \notin M /\ mbox'[i].msg # handled'
            /\ \A d \in Conns : mbox'[i].msg \notin Holds(d)'
    BY <1>5, <2>2, <2>3
  <2>5. \A i \in 1 .. Len(mbox) : mbox[i] # Input => mbox[i].msg # m.msg
    BY <2>1 DEF Apart
  <2>6. ASSUME NEW i \in 1 .. Len(mbox'), NEW j \in 1 .. Len(mbox'),
               mbox'[i] # Input, mbox'[j] # Input, mbox'[i].msg = mbox'[j].msg
        PROVE  i = j
    <3>1. CASE i \in 1 .. Len(mbox) /\ j \in 1 .. Len(mbox)
      BY <2>2, <2>6, <3>1 DEF Apart
    <3>2. CASE i = Len(mbox) + 1 \/ j = Len(mbox) + 1
      BY <2>2, <2>5, <2>6, <3>2
    <3>3. QED BY <2>2, <3>1, <3>2
  <2>7. QED BY <1>3, <1>4, <2>4, <2>6 DEF Apart
<1>8. QED BY <1>6, <1>7

(* The tcpip thread and the driver: no write's block changes hands.        *)
LEMMA ApartMail ==
    ASSUME NetTypes, NEW L, Apart(L), NEW M, UNCHANGED app,
           mbox' \in {mbox, Append(mbox, Input)} \/ (mbox # <<>> /\ mbox' = Tail(mbox)),
           \/ M = L /\ handled' = handled
           \/ M = L \cup {handled} /\ handled' = NULL /\ mbox' = mbox /\ L \subseteq Blocks /\ handled # NULL
           \/ /\ M = L /\ mbox # <<>> /\ mbox' = Tail(mbox) /\ Head(mbox) # Input
              /\ handled' = Head(mbox).msg
    PROVE  Apart(M)'
<1>1. mbox \in Seq(Messages \cup {Input}) /\ Input \in Messages \cup {Input}
  BY DEF NetTypes
<1>2. \A d \in Conns : Holds(d)' = Holds(d) /\ Holds(d) \subseteq Blocks
  BY HeldIsBlock DEF Holds
<1>3. NULL \notin Blocks
  BY DEF Blocks, NULL
<1>4. \A d, e \in Conns : d # e => Holds(d)' \cap Holds(e)' = {}
  BY <1>2 DEF Apart
<1>5. PICK o \in {0, 1} :
         /\ \A i \in 1 .. Len(mbox') : mbox'[i] # Input =>
                i + o \in 1 .. Len(mbox) /\ mbox'[i] = mbox[i + o]
         /\ mbox # <<>> /\ mbox' = Tail(mbox) => o = 1
         /\ o = 1 => mbox # <<>> /\ mbox' = Tail(mbox)
  <2>1. CASE mbox # <<>> /\ mbox' = Tail(mbox)
    BY <1>1, <2>1, TailOf
  <2>2. CASE mbox' = mbox /\ ~(mbox # <<>> /\ mbox' = Tail(mbox))
    <3>1. \A i \in 1 .. Len(mbox) : i + 0 = i
      OBVIOUS
    <3>2. QED BY <2>2, <3>1
  <2>3. CASE mbox' = Append(mbox, Input) /\ ~(mbox # <<>> /\ mbox' = Tail(mbox))
    <3>1. \A i \in 1 .. Len(mbox') : mbox'[i] # Input => i \in 1 .. Len(mbox) /\ mbox'[i] = mbox[i]
      BY <1>1, <2>3, AppendTo
    <3>2. \A i \in 1 .. Len(mbox) : i + 0 = i
      OBVIOUS
    <3>3. QED BY <2>3, <3>1, <3>2
  <2>4. QED BY <2>1, <2>2, <2>3
<1>6. ASSUME NEW i \in 1 .. Len(mbox'), NEW j \in 1 .. Len(mbox'),
             mbox'[i] # Input, mbox'[j] # Input, mbox'[i].msg = mbox'[j].msg
      PROVE  i = j
  <2>1. i + o = j + o
    BY <1>5, <1>6 DEF Apart
  <2>2. QED BY <2>1
<1>7. \A i \in 1 .. Len(mbox') : mbox'[i] # Input =>
          /\ mbox'[i].msg \notin L /\ mbox'[i].msg # handled /\ mbox'[i].msg # NULL
          /\ \A d \in Conns : mbox'[i].msg \notin Holds(d)
  <2>1. \A i \in 1 .. Len(mbox) : mbox[i] # Input => mbox[i].msg \in Blocks
    BY <1>1 DEF Messages
  <2>2. QED BY <1>3, <1>5, <2>1 DEF Apart
<1>8. CASE M = L /\ handled' = handled
  BY <1>2, <1>4, <1>6, <1>7, <1>8 DEF Apart
<1>9. CASE M = L \cup {handled} /\ handled' = NULL /\ mbox' = mbox /\ L \subseteq Blocks /\ handled # NULL
  <2>1. handled' \notin M /\ \A d \in Conns : handled' \notin Holds(d) /\ Holds(d) \cap M = {}
    BY <1>2, <1>3, <1>9 DEF Apart
  <2>2. \A i \in 1 .. Len(mbox') : mbox'[i] # Input =>
            /\ mbox'[i].msg \notin M /\ mbox'[i].msg # handled'
            /\ \A d \in Conns : mbox'[i].msg \notin Holds(d)'
    BY <1>2, <1>7, <1>9
  <2>3. QED BY <1>2, <1>4, <1>6, <2>1, <2>2 DEF Apart
<1>10. CASE /\ M = L /\ mbox # <<>> /\ mbox' = Tail(mbox) /\ Head(mbox) # Input
            /\ handled' = Head(mbox).msg
  <2>1. 1 \in 1 .. Len(mbox) /\ Head(mbox) = mbox[1]
    BY <1>1, <1>10, TailOf
  <2>2. handled' \notin M /\ \A d \in Conns : handled' \notin Holds(d) /\ Holds(d) \cap M = {}
    BY <1>10, <2>1 DEF Apart
  <2>3. \A i \in 1 .. Len(mbox') : mbox'[i] # Input => mbox'[i].msg # handled'
    <3>1. SUFFICES ASSUME NEW i \in 1 .. Len(mbox'), mbox'[i] # Input, mbox'[i].msg = handled'
                   PROVE FALSE
      OBVIOUS
    <3>2. o = 1 /\ i + 1 \in 1 .. Len(mbox) /\ mbox[i + 1] # Input /\ mbox[i + 1].msg = mbox[1].msg
      BY <1>5, <1>10, <2>1, <3>1
    <3>3. i + 1 = 1
      BY <1>10, <2>1, <3>2 DEF Apart
    <3>4. QED BY <3>3
  <2>4. QED BY <1>2, <1>4, <1>6, <1>7, <1>10, <2>2, <2>3 DEF Apart
<1>11. QED BY <1>8, <1>9, <1>10

LEMMA SharedInit == Init => SharedOut
<1> SUFFICES ASSUME Init PROVE SharedOut
  OBVIOUS
<1>1. PICK l : IsFreeList(apis, l)
  BY InitIsFree DEF Init
<1>2. On(l) \subseteq Blocks
  BY <1>1 DEF IsFreeList, On
<1>3. \A c \in Conns : Holds(c) = {}
  BY DEF Init, Idle, Holds
<1>4. \A i \in 1 .. Len(mbox) : FALSE
  BY DEF Init
<1>5. handled \notin Blocks
  BY DEF Init, NULL, Blocks
<1>6. Apart(On(l))
  BY <1>2, <1>3, <1>4, <1>5 DEF Apart
<1>7. QED BY <1>1, <1>6 DEF SharedOut

(* A thread that asks: the block goes with the message, or back.           *)
LEMMA SharedAsks ==
    ASSUME NetTypes, NEW c \in Conns, Turn(c), Asks(c),
           NEW l, IsFreeList(apis, l), Apart(On(l))
    PROVE  \E t : IsFreeList(apis', t) /\ Apart(On(t))'
<1>1. Only(c) /\ handled' = handled /\ apis \in Pools
  BY DEF Turn, NetTypes
<1>2. \A d \in Conns \ {c} : app'[d] = app[d]
  BY <1>1 DEF Only
<1>3. Holds(c)' = {}
  BY DEF Asks, Holds
<1>4. ASSUME Sent(c) PROVE \E t : IsFreeList(apis', t) /\ Apart(On(t))'
  <2>1. PICK m \in Messages :
           /\ mbox' = Append(mbox, m)
           /\ \/ ~IsEmpty(apis) /\ m.msg = apis.head /\ apis' = Taken(apis)
              \/ m.msg \in Holds(c) /\ apis' = apis
    BY <1>4 DEF Sent
  <2>2. CASE ~IsEmpty(apis) /\ m.msg = apis.head /\ apis' = Taken(apis)
    <3>1. PICK t : IsFreeList(apis', t) /\ On(t) = On(l) \ {m.msg} /\ m.msg \in On(l)
      BY <1>1, <2>2, TakeHead
    <3>2. Apart(On(t))'
      BY <1>1, <1>2, <1>3, <2>1, <3>1, ApartTurn
    <3>3. QED BY <3>1, <3>2
  <2>3. CASE m.msg \in Holds(c) /\ apis' = apis
    <3>1. m.msg \notin On(l)
      BY <2>3 DEF Apart
    <3>2. Apart(On(l))'
      BY <1>1, <1>2, <1>3, <2>1, <2>3, <3>1, ApartTurn
    <3>3. QED BY <2>3, <3>2
  <2>4. QED BY <2>1, <2>2, <2>3
<1>5. ASSUME Refused(c) PROVE \E t : IsFreeList(apis', t) /\ Apart(On(t))'
  <2>1. CASE ~IsEmpty(apis) /\ apis' = memp_free(Taken(apis), apis.head)
    <3>1. PICK s : IsFreeList(Taken(apis), s) /\ On(s) = On(l) \ {apis.head}
                   /\ apis.head \in On(l) /\ Taken(apis) \in Pools /\ apis.head \in Blocks
      BY <1>1, <2>1, TakeHead
    <3>2. PICK t : IsFreeList(apis', t) /\ On(t) = On(s) \cup {apis.head}
      BY <2>1, <3>1, PutBack
    <3>3. On(t) = On(l)
      BY <3>1, <3>2
    <3>4. Apart(On(t))'
      BY <1>1, <1>2, <1>3, <1>5, <3>3, ApartTurn DEF Refused
    <3>5. QED BY <3>2, <3>4
  <2>2. ASSUME NEW b \in Blocks, b \in Holds(c), apis' = memp_free(apis, b)
        PROVE  \E t : IsFreeList(apis', t) /\ Apart(On(t))'
    <3>1. b \notin On(l)
      BY <2>2 DEF Apart
    <3>2. PICK t : IsFreeList(apis', t) /\ On(t) = On(l) \cup {b}
      BY <1>1, <2>2, <3>1, PutBack
    <3>3. Apart(On(t))'
      BY <1>1, <1>2, <1>3, <1>5, <2>2, <3>2, ApartTurn DEF Refused
    <3>4. QED BY <3>2, <3>3
  <2>3. QED BY <1>5, <2>1, <2>2 DEF Refused
<1>6. QED BY <1>1, <1>4, <1>5, AskedOrRefused

(* A thread that goes on by itself: it takes a block, frees or keeps it.   *)
LEMMA SharedWorks ==
    ASSUME NetTypes, NEW c \in Conns, Turn(c), Works(c), ~twice',
           NEW l, IsFreeList(apis, l), Apart(On(l))
    PROVE  \E t : IsFreeList(apis', t) /\ Apart(On(t))'
<1>1. Only(c) /\ handled' = handled /\ apis \in Pools /\ mbox' = mbox
  BY DEF Turn, NetTypes, Works
<1>2. \A d \in Conns \ {c} : app'[d] = app[d]
  BY <1>1 DEF Only
<1>3. Holds(c) \cap On(l) = {}
  BY DEF Apart
<1>4. CASE UNCHANGED apis /\ Holds(c)' \subseteq Holds(c)
  <2>1. Apart(On(l))'
    BY <1>1, <1>2, <1>3, <1>4, ApartTurn
  <2>2. QED BY <1>4, <2>1
<1>5. CASE ~IsEmpty(apis) /\ apis' = Taken(apis) /\ Holds(c)' = {apis.head}
  <2>1. PICK t : IsFreeList(apis', t) /\ On(t) = On(l) \ {apis.head} /\ apis.head \in On(l)
    BY <1>1, <1>5, TakeHead
  <2>2. Apart(On(t))'
    BY <1>1, <1>2, <1>5, <2>1, ApartTurn
  <2>3. QED BY <2>1, <2>2
<1>6. ASSUME NEW b \in Blocks, b \in Holds(c), apis' = memp_free(apis, b), Holds(c)' = {}
      PROVE  \E t : IsFreeList(apis', t) /\ Apart(On(t))'
  <2>1. PICK t : IsFreeList(apis', t) /\ On(t) = On(l) \cup {b}
    BY <1>1, <1>3, <1>6, PutBack
  <2>2. Apart(On(t))'
    BY <1>1, <1>2, <1>6, <2>1, ApartTurn
  <2>3. QED BY <2>1, <2>2
<1>7. QED BY <1>4, <1>5, <1>6 DEF Works

(* Every step. *)
LEMMA SharedStep ==
    ASSUME NetTypes, SharedOut, [Next]_vars
    PROVE  SharedOut'
<1>1. CASE UNCHANGED vars
  <2>1. SUFFICES ASSUME Whole' PROVE \E t : IsFreeList(apis', t) /\ Apart(On(t))'
    BY DEF SharedOut
  <2>2. PICK l : IsFreeList(apis, l) /\ Apart(On(l))
    BY <1>1, <2>1 DEF vars, SharedOut, Whole
  <2>3. \A c \in Conns : Holds(c)' = Holds(c)
    BY <1>1 DEF vars, Holds
  <2>4. Apart(On(l))'
    BY <1>1, <2>2, <2>3 DEF vars, Apart
  <2>5. QED BY <1>1, <2>2, <2>4 DEF vars
<1> SUFFICES ASSUME Next, Whole' PROVE \E t : IsFreeList(apis', t) /\ Apart(On(t))'
  BY <1>1 DEF SharedOut
<1>2. errors' = 0 /\ ~twice' /\ ~twice
  BY Steps DEF Whole, Goes
<1>3. ASSUME errors = 0 PROVE \E l : IsFreeList(apis, l) /\ Apart(On(l))
  BY <1>2, <1>3 DEF SharedOut, Whole
<1>4. CASE FreeHandled
  <2>1. PICK l : IsFreeList(apis, l) /\ Apart(On(l))
    BY <1>2, <1>3, <1>4 DEF FreeHandled, bounds
  <2>2. handled # NULL /\ apis' = memp_free(apis, handled) /\ handled' = NULL /\ UNCHANGED <<mbox, app>>
    BY <1>4 DEF FreeHandled
  <2>3. handled \in Blocks /\ handled \notin On(l) /\ On(l) \subseteq Blocks /\ apis \in Pools
    BY <2>1, <2>2, NetconnAssumption DEF NetTypes, Blocks, NULL, Apart, IsFreeList, On
  <2>4. PICK t : IsFreeList(apis', t) /\ On(t) = On(l) \cup {handled}
    BY <2>1, <2>2, <2>3, PutBack
  <2>5. Apart(On(t))'
    BY <2>1, <2>2, <2>3, <2>4, ApartMail
  <2>6. QED BY <2>4, <2>5
<1>5. CASE tcpip_input \/ Happens
  <2>1. /\ errors = 0 /\ UNCHANGED <<apis, handled, app>>
        /\ mbox' \in {mbox, Append(mbox, Input)} \/ (mbox # <<>> /\ mbox' = Tail(mbox))
    BY <1>2, <1>5 DEF tcpip_input, Happens, bounds
  <2>2. PICK l : IsFreeList(apis, l) /\ Apart(On(l))
    BY <1>3, <2>1
  <2>3. Apart(On(l))'
    BY <2>1, <2>2, ApartMail
  <2>4. QED BY <2>1, <2>2, <2>3
<1>6. ASSUME NEW m \in Messages, Handles(m) PROVE \E t : IsFreeList(apis', t) /\ Apart(On(t))'
  <2>1. /\ errors = 0 /\ UNCHANGED <<apis, app>> /\ mbox # <<>> /\ mbox' = Tail(mbox)
        /\ m = Head(mbox) /\ handled' = m.msg
    BY <1>2, <1>6 DEF Handles
  <2>2. PICK l : IsFreeList(apis, l) /\ Apart(On(l))
    BY <1>3, <2>1
  <2>3. Apart(On(l))'
    BY <2>1, <2>2, MessageIsNoInput, ApartMail
  <2>4. QED BY <2>1, <2>2, <2>3
<1>7. ASSUME NEW c \in Conns, Turn(c) PROVE \E t : IsFreeList(apis', t) /\ Apart(On(t))'
  <2>1. PICK l : IsFreeList(apis, l) /\ Apart(On(l))
    BY <1>2, <1>3, <1>7 DEF Turn
  <2>2. QED BY <1>2, <1>7, <2>1, SharedAsks, SharedWorks DEF Turn
<1>8. QED BY <1>4, <1>5, <1>6, <1>7, Steps

----------------------------------------------------------------------------
(* The invariant, and what it says. *)
NetconnInv == NetTypes /\ CountInv /\ AsksInv /\ SharedOut

LEMMA NetconnInvariant == Spec => []NetconnInv
<1>1. Init => NetconnInv
  BY TypesInit, CountInit, AsksInit, SharedInit DEF NetconnInv
<1>2. NetconnInv /\ [Next]_vars => NetconnInv'
  <2> SUFFICES ASSUME NetconnInv, [Next]_vars PROVE NetconnInv'
    OBVIOUS
  <2>1. NetTypes'
    <3>1. CASE UNCHANGED vars
      BY <3>1 DEF NetconnInv, NetTypes, vars, Pools, Threads, Netconns, Messages, HasMessage
    <3>2. QED BY <3>1, TypesStep DEF NetconnInv
  <2>2. QED BY <2>1, CountStep, AsksStep, SharedStep DEF NetconnInv
<1>3. QED BY <1>1, <1>2, PTL DEF Spec

LEMMA SharedIsNotFree == NetTypes /\ SharedOut => NotFree
<1> SUFFICES ASSUME NetTypes, SharedOut, Whole
             PROVE  /\ Free(apis) \cap (OnTheWay \cup {handled} \cup UNION {Holds(c) : c \in Conns}) = {}
                    /\ \A c \in Conns : Holds(c) \cap (OnTheWay \cup {handled}) = {}
                    /\ \A c, d \in Conns : c # d => Holds(c) \cap Holds(d) = {}
  BY DEF NotFree
<1>1. PICK l : IsFreeList(apis, l) /\ Apart(On(l))
  BY DEF SharedOut
<1>2. Free(apis) \subseteq On(l)
  BY <1>1, FreeIsOnList DEF NetTypes
<1>3. ASSUME NEW b \in OnTheWay PROVE b \notin On(l) /\ \A c \in Conns : b \notin Holds(c)
  <2>1. PICK i \in 1 .. Len(mbox) : b = mbox[i].msg /\ b # NULL
    BY <1>3 DEF OnTheWay, NetTypes
  <2>2. mbox[i] # Input
    BY <2>1 DEF Input
  <2>3. QED BY <1>1, <2>1, <2>2 DEF Apart
<1>4. QED BY <1>1, <1>2, <1>3 DEF Apart

(* In every behaviour the tcpip messages are all accounted for; as long as *)
(* no connection is reset, a message that is handled finds its netconn;    *)
(* and as long as no write goes round its loop again either, no block that *)
(* is in use is free or has a second user. *)
THEOREM MessagesStaySound == Spec => []MessagesAreSound
<1>1. NetconnInv => MessagesAreSound
  <2> SUFFICES ASSUME NetconnInv PROVE MessagesAreSound
    OBVIOUS
  <2>1. ConnIsThere
    <3>1. SUFFICES ASSUME errors = 0, NEW i \in 1 .. Len(mbox), mbox[i] # Input
                   PROVE  conn[mbox[i].conn].exists
      BY DEF ConnIsThere, NetconnInv, NetTypes
    <3>2. Awaited(mbox[i]) /\ mbox[i].conn \in Conns
      BY <3>1 DEF NetconnInv, AsksInv, NetTypes, Messages
    <3>3. Attends(mbox[i].conn)
      BY <3>1, <3>2 DEF NetconnInv, AsksInv
    <3>4. QED BY <3>2, <3>3 DEF Awaited, Attends
  <2>2. QED BY <2>1, CountIsTypeOK, SharedIsNotFree DEF NetconnInv, MessagesAreSound
<1>2. QED BY <1>1, NetconnInvariant, PTL

(* As long as no connection is reset, a call returns with the answer to    *)
(* itself, and none is left over for the next one. *)
THEOREM AnswersStayMatched == Spec => []AnswersMatch
<1>1. NetconnInv => AnswersMatch
  BY DEF NetconnInv, AsksInv, Attends, AnswersMatch
<1>2. QED BY <1>1, NetconnInvariant, PTL
=============================================================================
