----------------------------- MODULE LanProofs ------------------------------
(***************************************************************************)
(* Proofs about the ARP cache, for any hosts, any size of the table and    *)
(* any scenario: leases, lost frames, two tasks in the cache.              *)
(***************************************************************************)
EXTENDS Lan, SequenceTheorems, WellFoundedInduction, TLAPS

States == {"EMPTY", "PENDING", "STABLE"}
IsSeq(s) == s \in Seq(ToSet(s))
IsEntry(e) ==
    /\ e = [state |-> e.state, ip |-> e.ip, hw |-> e.hw, ctime |-> e.ctime, p |-> e.p]
    /\ e.state \in States /\ e.ctime \in Nat
IsInterface(m) ==
    /\ DOMAIN m = {"ip", "gw", "up", "table", "out", "dhcp", "xid", "coarse"}
    /\ m.table = [i \in Slots |-> m.table[i]]
    /\ \A i \in Slots : IsEntry(m.table[i])
    /\ IsSeq(m.out)

(* The cache is sound, but for what waits on slot x, where the driver's    *)
(* task is at work. *)
Distinct(m) ==
    \A i, j \in Slots :
        m.table[i].state # "EMPTY" /\ m.table[j].state # "EMPTY" /\ m.table[i].ip = m.table[j].ip
            => i = j
MayWait(e) == e.state = "PENDING" /\ e.p.dip \in {e.ip} \cup Outside
Waiting(m, x) == \A i \in Slots \ {x} : m.table[i].p # NoPacket => MayWait(m.table[i])
Good(m, x) == IsInterface(m) /\ Distinct(m) /\ Waiting(m, x)

(* An empty slot that the driver's task has found: it is the one that any  *)
(* other would take, and nobody has taken another for the same address.    *)
Reserved(m, x) ==
    m.table[x].state = "EMPTY" =>
        \A i \in Slots : IF m.table[i].state = "EMPTY" THEN x <= i
                         ELSE m.table[i].ip # m.table[x].ip

----------------------------------------------------------------------------
Busy == {"found", "marked", "written"}
At == IF mac.pc \in Busy THEN mac.i ELSE 0

MacInv ==
    \/ mac = Idle
    \/ /\ mac = [pc |-> mac.pc, f |-> mac.f, i |-> mac.i]
       /\ mac.pc \in Busy \cup {"updated"}
       /\ mac.pc \in Busy => mac.i \in Slots
       /\ mac.pc = "found" => Reserved(n, mac.i)
QueryInv ==
    query # NoQuery =>
        /\ query.i \in Slots
        /\ n.table[query.i].state = "PENDING"
              => query.p.dip \in {n.table[query.i].ip} \cup Outside
CacheInv == Good(n, At) /\ n.out = <<>>
WiresInv == IsSeq(tx) /\ rx = [h \in Hosts |-> rx[h]] /\ \A h \in Hosts : IsSeq(rx[h])

(* Who has asked gets an answer. *)
IsRequest(f, a) == f.type = "arp" /\ f.op = "request" /\ f.dst = Bcast /\ f.dip = a
IsAnswer(f, a) == f.type = "arp" /\ f.sip = a
OnItsWay(a) == \/ \E f \in ToSet(tx) : IsRequest(f, a)
               \/ \E h \in Hosts : \E f \in ToSet(rx[h]) : IsAnswer(f, a)
AnswersInv ==
    \A i \in Slots : n.table[i].state = "PENDING" /\ n.table[i].ip \in Range(scene.hosts) =>
        \/ OnItsWay(n.table[i].ip)
        \/ mac.pc = "found" /\ mac.i = i
(* A device without a cable has no client and no address. *)
LinkInv ==
    /\ link = [up |-> link.up, start |-> link.start, stop |-> link.stop]
    /\ ~link.stop
    /\ ~link.up => ~n.up /\ n.dhcp = NoDhcp /\ ~link.start /\ query = NoQuery

LanInv ==
    /\ scene \in Scenarios
    /\ MacInv /\ QueryInv /\ CacheInv /\ WiresInv
    /\ mishaps = {} => AnswersInv /\ LinkInv

----------------------------------------------------------------------------
(* Sequences of anything. *)
LEMMA AnySeq == ASSUME NEW S, NEW s \in Seq(S) PROVE IsSeq(s)
<1>1. DOMAIN s = 1 .. Len(s) /\ Len(s) \in Nat
  OBVIOUS
<1>2. \A k \in 1 .. Len(s) : s[k] \in ToSet(s)
  BY <1>1 DEF ToSet
<1>3. s = [k \in 1 .. Len(s) |-> s[k]]
  OBVIOUS
<1>4. [k \in 1 .. Len(s) |-> s[k]] \in Seq(ToSet(s))
  BY <1>1, <1>2, IsASeq
<1>5. QED BY <1>3, <1>4 DEF IsSeq

(* What is empty is a sequence of nothing. *)
LEMMA NothingIn ==
    ASSUME NEW e, e = <<>>
    PROVE  IsSeq(e) /\ ToSet(e) = {}
<1>1. e \in Seq({})
  OBVIOUS
<1>2. DOMAIN e = {}
  OBVIOUS
<1>3. IsSeq(e)
  BY <1>1, AnySeq
<1>4. ToSet(e) = {}
  BY <1>2 DEF ToSet
<1>5. QED BY <1>3, <1>4

LEMMA AppendAdds ==
    ASSUME NEW s, IsSeq(s), NEW e
    PROVE  IsSeq(Append(s, e)) /\ ToSet(Append(s, e)) = ToSet(s) \cup {e}
<1> DEFINE S == ToSet(s) \cup {e}
           t == Append(s, e)
<1>1. s \in Seq(S) /\ e \in S
  BY SeqMonotonic DEF IsSeq
<1>2. t \in Seq(S) /\ DOMAIN t = 1 .. Len(s) + 1 /\ t[Len(s) + 1] = e /\ Len(s) \in Nat
      /\ DOMAIN s = 1 .. Len(s) /\ \A k \in 1 .. Len(s) : t[k] = s[k]
  BY <1>1
<1>3. IsSeq(t)
  BY <1>2, AnySeq
<1> HIDE DEF t, S
<1>4. ToSet(t) = ToSet(s) \cup {e}
  <2>1. \A k \in DOMAIN t : t[k] \in ToSet(s) \cup {e}
    BY <1>2 DEF ToSet
  <2>2. \A k \in DOMAIN s : s[k] \in ToSet(t)
    BY <1>2 DEF ToSet
  <2>3. e \in ToSet(t)
    BY <1>2 DEF ToSet
  <2>4. QED BY <2>1, <2>2, <2>3 DEF ToSet
<1>5. QED BY <1>3, <1>4 DEF t

LEMMA JoinUnites ==
    ASSUME NEW s, IsSeq(s), NEW t, IsSeq(t)
    PROVE  IsSeq(s \o t) /\ ToSet(s \o t) = ToSet(s) \cup ToSet(t)
<1> DEFINE S == ToSet(s) \cup ToSet(t)
           u == s \o t
<1>1. s \in Seq(S) /\ t \in Seq(S)
  BY SeqMonotonic DEF IsSeq
<1>2. /\ u \in Seq(S) /\ DOMAIN u = 1 .. Len(s) + Len(t) /\ Len(s) \in Nat /\ Len(t) \in Nat
      /\ DOMAIN s = 1 .. Len(s) /\ DOMAIN t = 1 .. Len(t)
      /\ \A k \in 1 .. Len(s) : u[k] = s[k]
      /\ \A k \in Len(s) + 1 .. Len(s) + Len(t) : u[k] = t[k - Len(s)]
  BY <1>1
<1>3. IsSeq(u)
  BY <1>2, AnySeq
<1>5. ASSUME NEW k \in 1 .. Len(t) PROVE k + Len(s) \in DOMAIN u /\ u[k + Len(s)] = t[k]
  BY <1>2
<1>7. ASSUME NEW k \in DOMAIN u, ~(k <= Len(s))
      PROVE  u[k] = t[k - Len(s)] /\ k - Len(s) \in DOMAIN t
  BY <1>2, <1>7
<1> HIDE DEF u, S
<1>4. ToSet(u) = ToSet(s) \cup ToSet(t)
  <2>1. ASSUME NEW k \in DOMAIN u PROVE u[k] \in ToSet(s) \cup ToSet(t)
    <3>1. CASE k <= Len(s)
      BY <3>1, <1>2 DEF ToSet
    <3>2. CASE ~(k <= Len(s))
      BY <3>2, <1>7 DEF ToSet
    <3>3. QED BY <3>1, <3>2
  <2>2. \A k \in DOMAIN s : s[k] \in ToSet(u)
    BY <1>2 DEF ToSet
  <2>3. \A k \in DOMAIN t : t[k] \in ToSet(u)
    BY <1>2, <1>5 DEF ToSet
  <2>4. QED BY <2>1, <2>2, <2>3 DEF ToSet
<1>6. QED BY <1>3, <1>4 DEF u

LEMMA TailLeaves ==
    ASSUME NEW s, IsSeq(s), s # <<>>
    PROVE  /\ IsSeq(Tail(s)) /\ Head(s) \in ToSet(s)
           /\ ToSet(Tail(s)) \subseteq ToSet(s) /\ ToSet(s) \subseteq ToSet(Tail(s)) \cup {Head(s)}
<1> DEFINE S == ToSet(s)
           t == Tail(s)
<1>1. s \in Seq(S)
  BY DEF IsSeq
<1>2. t \in Seq(S) /\ DOMAIN t = 1 .. Len(s) - 1 /\ Len(s) \in Nat /\ Len(s) >= 1
      /\ DOMAIN s = 1 .. Len(s) /\ Head(s) = s[1] /\ \A k \in 1 .. Len(s) - 1 : t[k] = s[k + 1]
  BY <1>1
<1>3. IsSeq(t)
  BY <1>2, AnySeq
<1> HIDE DEF t, S
<1>4. Head(s) \in ToSet(s)
  BY <1>2 DEF ToSet
<1>5. ToSet(t) \subseteq ToSet(s)
  <2>1. \A k \in DOMAIN t : k + 1 \in DOMAIN s /\ t[k] = s[k + 1]
    BY <1>2
  <2>2. QED BY <2>1 DEF ToSet
<1>6. ToSet(s) \subseteq ToSet(t) \cup {Head(s)}
  <2>1. \A k \in DOMAIN s : k = 1 \/ (k - 1 \in DOMAIN t /\ t[k - 1] = s[k])
    BY <1>2
  <2>2. QED BY <2>1, <1>2 DEF ToSet
<1>7. QED BY <1>3, <1>4, <1>5, <1>6 DEF t

(* The ends of a set of slots, and of one the oldest. *)
LEMMA MinIs ==
    ASSUME NEW S, S \subseteq Nat, S # {}
    PROVE  Min(S) \in S /\ \A k \in S : Min(S) <= k
<1>1. PICK j \in S : \A k \in S : ~(<<k, j>> \in OpToRel(<, Nat))
  BY NatLessThanWellFounded, WFMin
<1>2. \A k \in S : ~(k < j)
  BY <1>1 DEF OpToRel
<1>3. \A k \in S : j <= k
  BY <1>2
<1>4. QED BY <1>3 DEF Min

LEMMA MaxIs ==
    ASSUME NEW N \in Nat, NEW S, S \subseteq 1 .. N, S # {}
    PROVE  Max(S) \in S
<1> DEFINE U == {x \in Nat : \A k \in S : k <= x}
<1>1. U \subseteq Nat /\ N \in U
  OBVIOUS
<1>2. PICK j \in U : \A k \in U : ~(<<k, j>> \in OpToRel(<, Nat))
  BY <1>1, NatLessThanWellFounded, WFMin
<1>6. \A k \in U : ~(k < j)
  BY <1>2 DEF OpToRel
<1>3. \A k \in U : j <= k
  BY <1>6
<1>4. j \in S
  <2>1. SUFFICES ASSUME j \notin S PROVE FALSE
    OBVIOUS
  <2>2. PICK k \in S : TRUE
    OBVIOUS
  <2>3. j - 1 \in U
    BY <2>1, <2>2
  <2>4. QED BY <2>3, <1>3
<1>5. QED BY <1>4 DEF Max

LEMMA OldestIs ==
    ASSUME NEW m, IsInterface(m), NEW E, E \subseteq Slots, E # {}
    PROVE  Oldest(m, E) \in E
<1> DEFINE N == ARP_TABLE_SIZE
           age(i) == m.table[i].ctime
           OfFirst(k) == {i \in E : i <= k}
           HasOld(S) == \E i \in S : \A j \in S : age(j) <= age(i)
           G == {k \in 1 .. N : OfFirst(k) # {} /\ ~HasOld(OfFirst(k))}
<1>1. N \in Nat /\ Slots = 1 .. N
  BY EtharpAssumption DEF Slots
<1>2. \A i \in Slots : age(i) \in Nat
  BY DEF IsInterface, IsEntry
<1>3. G = {}
  <2>1. SUFFICES ASSUME G # {} PROVE FALSE
    OBVIOUS
  <2>2. G \subseteq Nat
    OBVIOUS
  <2>3. PICK k \in G : \A l \in G : ~(<<l, k>> \in OpToRel(<, Nat))
    BY <2>1, <2>2, NatLessThanWellFounded, WFMin
  <2>4. \A l \in G : ~(l < k)
    BY <2>3, <2>2 DEF OpToRel
  <2> k \in 1 .. N /\ k \in Int
    BY <1>1
  <2>5. k - 1 \notin G
    BY <2>4, <2>2
  <2>10. \A i \in E : i \in Int
    BY <1>1
  <2>6. OfFirst(k) \subseteq OfFirst(k - 1) \cup {k} /\ OfFirst(k - 1) \subseteq OfFirst(k)
    BY <2>10
  <2>7. CASE OfFirst(k - 1) = {}
    <3>1. OfFirst(k) = {k} /\ k \in E
      BY <2>6, <2>7
    <3>2. QED BY <3>1, <1>2
  <2>8. CASE OfFirst(k - 1) # {}
    <3>1. k - 1 \in 1 .. N
      <4>1. PICK i \in E : i <= k - 1
        BY <2>8
      <4>2. i \in 1 .. N
        BY <1>1
      <4>3. QED BY <4>1, <4>2, <1>1
    <3>2. PICK i \in OfFirst(k - 1) : \A j \in OfFirst(k - 1) : age(j) <= age(i)
      BY <3>1, <2>5, <2>8
    <3>3. CASE k \in E /\ age(k) > age(i)
      <4>1. k \in OfFirst(k)
        BY <3>3
      <4>2. ASSUME NEW j \in OfFirst(k) PROVE age(j) <= age(k)
        BY <3>2, <3>3, <2>6, <1>2
      <4>3. QED BY <4>1, <4>2
    <3>4. CASE ~(k \in E /\ age(k) > age(i))
      <4>1. ASSUME NEW j \in OfFirst(k) PROVE age(j) <= age(i)
        BY <3>2, <3>4, <2>6, <1>2
      <4>2. i \in OfFirst(k)
        BY <2>6
      <4>3. QED BY <4>1, <4>2
    <3>5. QED BY <3>3, <3>4
  <2>9. QED BY <2>7, <2>8
<1>4. OfFirst(N) = E /\ N \in 1 .. N
  <2>1. N \in Nat \ {0}
    BY EtharpAssumption
  <2>2. \A i \in E : i <= N
    BY <1>1
  <2>3. QED BY <2>1, <2>2
<1>5. HasOld(E)
  BY <1>3, <1>4
<1> DEFINE O == {i \in E : \A j \in E : m.table[j].ctime <= m.table[i].ctime}
<1>6. O # {} /\ O \subseteq 1 .. N
  BY <1>5, <1>1
<1>7. Max(O) \in O
  BY <1>6, <1>1, MaxIs
<1>8. QED BY <1>7 DEF Oldest

----------------------------------------------------------------------------
(* What is done to one entry. *)
Put(m, i, e) == [m EXCEPT !.table = [m.table EXCEPT ![i] = e]]
Entry(state, ip, hw, ctime, p) == [state |-> state, ip |-> ip, hw |-> hw, ctime |-> ctime, p |-> p]

LEMMA EntryIs ==
    ASSUME NEW state \in States, NEW ip, NEW hw, NEW ctime \in Nat, NEW p
    PROVE  LET e == Entry(state, ip, hw, ctime, p) IN
           IsEntry(e) /\ e.state = state /\ e.ip = ip /\ e.hw = hw /\ e.ctime = ctime /\ e.p = p
BY DEF Entry, IsEntry

LEMMA PutIs ==
    ASSUME NEW m, IsInterface(m), NEW i \in Slots, NEW e, IsEntry(e)
    PROVE  /\ IsInterface(Put(m, i, e))
           /\ Put(m, i, e).table[i] = e
           /\ \A j \in Slots \ {i} : Put(m, i, e).table[j] = m.table[j]
           /\ Put(m, i, e).ip = m.ip /\ Put(m, i, e).gw = m.gw /\ Put(m, i, e).up = m.up
           /\ Put(m, i, e).out = m.out /\ Put(m, i, e).dhcp = m.dhcp
<1> DEFINE t == [m.table EXCEPT ![i] = e]
<1>1. t = [j \in Slots |-> t[j]] /\ t[i] = e /\ \A j \in Slots \ {i} : t[j] = m.table[j]
  BY DEF IsInterface
<1>2. \A j \in Slots : IsEntry(t[j])
  BY <1>1 DEF IsInterface
<1>3. Put(m, i, e) = [m EXCEPT !.table = t]
  BY DEF Put
<1> HIDE DEF t
<1>4. QED BY <1>1, <1>2, <1>3 DEF IsInterface

(* A frame more to be sent. *)
LEMMA SendIs ==
    ASSUME NEW m, IsInterface(m), NEW f
    PROVE  /\ IsInterface(Send(m, f))
           /\ Send(m, f).table = m.table /\ ToSet(Send(m, f).out) = ToSet(m.out) \cup {f}
           /\ Send(m, f).ip = m.ip /\ Send(m, f).gw = m.gw /\ Send(m, f).up = m.up
           /\ Send(m, f).dhcp = m.dhcp
<1> DEFINE o == Append(m.out, f)
<1>1. IsSeq(o) /\ ToSet(o) = ToSet(m.out) \cup {f}
  BY AppendAdds DEF IsInterface
<1>2. Send(m, f) = [m EXCEPT !.out = o]
  BY DEF Send
<1> HIDE DEF o
<1>3. QED BY <1>1, <1>2 DEF IsInterface

(* find_entry: there is an entry of that address, or one is emptied for    *)
(* it, of which nothing is left but what waits on the driver's slot x.  An *)
(* empty one is taken if there is any, and the first. *)
Taken(m, i, ip, x, r) ==
    /\ \A j \in Slots : m.table[j].state # "EMPTY" => m.table[j].ip # ip
    /\ \A j \in Slots : m.table[j].state = "EMPTY" => m.table[i].state = "EMPTY" /\ i <= j
    /\ \E hw, p : /\ r = Put(m, i, Entry("EMPTY", ip, hw, 0, p))
                  /\ p # NoPacket => i = x
Found(m, i, ip, r) == r = m /\ m.table[i].state # "EMPTY" /\ m.table[i].ip = ip

LEMMA TakeEntry ==
    ASSUME NEW m, NEW x, Good(m, x), NEW i \in Slots, NEW ip
    PROVE  /\ Recycled(m, i, ip) = Put(m, i, Entry("EMPTY", ip, m.table[i].hw, 0, m.table[i].p))
           /\ [Recycled(m, i, ip) EXCEPT !.table[i].p = NoPacket]
                 = Put(m, i, Entry("EMPTY", ip, m.table[i].hw, 0, NoPacket))
<1> DEFINE e == m.table[i]
           e2 == Entry("EMPTY", ip, e.hw, 0, e.p)
           e3 == Entry("EMPTY", ip, e.hw, 0, NoPacket)
<1>1. e = [state |-> e.state, ip |-> e.ip, hw |-> e.hw, ctime |-> e.ctime, p |-> e.p]
  BY DEF Good, IsInterface, IsEntry
<1>2. [e EXCEPT !.state = "EMPTY", !.ip = ip, !.ctime = 0] = e2
  <2> HIDE DEF e
  <2> DEFINE r1 == [e EXCEPT !.state = "EMPTY"]
             r2 == [r1 EXCEPT !.ip = ip]
             r3 == [r2 EXCEPT !.ctime = 0]
  <2>1. [e EXCEPT !.state = "EMPTY", !.ip = ip, !.ctime = 0] = r3
    OBVIOUS
  <2>2. r1 = Entry("EMPTY", e.ip, e.hw, e.ctime, e.p)
    BY <1>1 DEF Entry
  <2> HIDE DEF r1
  <2>3. r2 = Entry("EMPTY", ip, e.hw, e.ctime, e.p)
    BY <2>2 DEF Entry
  <2> HIDE DEF r2
  <2>4. r3 = e2
    BY <2>3 DEF Entry
  <2>5. QED BY <2>1, <2>4
<1>3. [e2 EXCEPT !.p = NoPacket] = e3
  BY DEF Entry
<1>4. Recycled(m, i, ip) = Put(m, i, e2)
  <2>1. Recycled(m, i, ip) = [m EXCEPT !.table = [m.table EXCEPT ![i] = [e EXCEPT !.state = "EMPTY", !.ip = ip, !.ctime = 0]]]
    BY DEF Recycled, Good, IsInterface
  <2>2. QED BY <2>1, <1>2 DEF Put
<1>5. [Put(m, i, e2) EXCEPT !.table[i].p = NoPacket] = Put(m, i, [e2 EXCEPT !.p = NoPacket])
  BY DEF Put, Good, IsInterface
<1>6. QED BY <1>3, <1>4, <1>5

LEMMA FindIs ==
    ASSUME NEW m, NEW x, Good(m, x), NEW ip, NEW hard \in BOOLEAN
    PROVE  LET r == find_entry(m, ip, hard) IN
           \/ ~hard /\ r.i = 0 /\ r.n = m
           \/ /\ r.i \in Slots
              /\ Found(m, r.i, ip, r.n) \/ Taken(m, r.i, ip, x, r.n)
<1> DEFINE match == {i \in Slots : m.table[i].state # "EMPTY" /\ m.table[i].ip = ip}
           empty == In(m, "EMPTY")
           stable == In(m, "STABLE")
           pending == {i \in In(m, "PENDING") : m.table[i].p = NoPacket}
           queued == In(m, "PENDING") \ pending
           take(i) == [i |-> i, n |-> Recycled(m, i, ip)]
           drop(i) == [i |-> i, n |-> [Recycled(m, i, ip) EXCEPT !.table[i].p = NoPacket]]
           r == find_entry(m, ip, hard)
<1>1. r = CASE match # {} -> [i |-> Min(match), n |-> m]
            [] match = {} /\ empty # {} -> take(Min(empty))
            [] match = {} /\ empty = {} /\ ~hard -> [i |-> 0, n |-> m]
            [] OTHER -> IF stable # {} THEN take(Oldest(m, stable))
                        ELSE IF pending # {} THEN take(Oldest(m, pending))
                        ELSE drop(Oldest(m, queued))
  BY DEF find_entry
<1>2. IsInterface(m) /\ Waiting(m, x) /\ \A i \in Slots : m.table[i].state \in States
  BY DEF Good, IsInterface, IsEntry
<1>3. Slots \subseteq Nat /\ Slots # {}
  <2>1. ARP_TABLE_SIZE \in Nat \ {0}
    BY EtharpAssumption
  <2>2. 1 \in Slots
    BY <2>1 DEF Slots
  <2>3. QED BY <2>1, <2>2 DEF Slots
<1>4. ASSUME NEW i \in Slots, match = {},
             \A j \in Slots : m.table[j].state = "EMPTY" => m.table[i].state = "EMPTY" /\ i <= j
      PROVE  /\ (m.table[i].p # NoPacket => i = x) => Taken(m, i, ip, x, take(i).n)
             /\ Taken(m, i, ip, x, drop(i).n)
  <2>1. \A j \in Slots : m.table[j].state # "EMPTY" => m.table[j].ip # ip
    BY <1>4
  <2>2. /\ take(i).n = Put(m, i, Entry("EMPTY", ip, m.table[i].hw, 0, m.table[i].p))
        /\ drop(i).n = Put(m, i, Entry("EMPTY", ip, m.table[i].hw, 0, NoPacket))
    BY TakeEntry
  <2> HIDE DEF take, drop, match
  <2>3. QED BY <2>1, <2>2, <1>4 DEF Taken
<1> HIDE DEF r
<1>5. CASE match # {}
  <2>1. r = [i |-> Min(match), n |-> m]
    BY <1>1, <1>5
  <2>2. Min(match) \in match
    BY <1>5, <1>3, MinIs
  <2>3. QED BY <2>1, <2>2 DEF Found, r
<1>6. CASE match = {} /\ empty # {}
  <2>1. r = take(Min(empty))
    BY <1>1, <1>6
  <2>2. Min(empty) \in empty /\ \A j \in empty : Min(empty) <= j
    BY <1>6, <1>3, MinIs DEF In
  <2>3. m.table[Min(empty)].p # NoPacket => Min(empty) = x
    BY <2>2, <1>2 DEF Waiting, MayWait, In
  <2>4. Min(empty) \in Slots /\ \A j \in Slots : m.table[j].state = "EMPTY"
           => m.table[Min(empty)].state = "EMPTY" /\ Min(empty) <= j
    BY <2>2 DEF In
  <2>5. Taken(m, Min(empty), ip, x, take(Min(empty)).n)
    BY <1>4, <1>6, <2>3, <2>4
  <2>6. QED BY <2>1, <2>4, <2>5 DEF r
<1>7. CASE match = {} /\ empty = {} /\ ~hard
  <2>1. r = [i |-> 0, n |-> m]
    BY <1>1, <1>7
  <2>2. QED BY <2>1, <1>7 DEF r
<1>8. CASE match = {} /\ empty = {} /\ hard
  <2>1. r = IF stable # {} THEN take(Oldest(m, stable))
            ELSE IF pending # {} THEN take(Oldest(m, pending))
            ELSE drop(Oldest(m, queued))
    BY <1>1, <1>8
  <2>2. \A j \in Slots : m.table[j].state # "EMPTY"
    BY <1>8 DEF In
  <2>3. CASE stable # {}
    <3>1. Oldest(m, stable) \in stable
      BY <2>3, <1>2, OldestIs DEF In
    <3>2. m.table[Oldest(m, stable)].p # NoPacket => Oldest(m, stable) = x
      BY <3>1, <1>2 DEF Waiting, MayWait, In
    <3>3. Taken(m, Oldest(m, stable), ip, x, take(Oldest(m, stable)).n)
      BY <3>1, <3>2, <2>2, <1>4, <1>8 DEF In
    <3>4. QED BY <2>1, <2>3, <3>1, <3>3 DEF r, In
  <2>4. CASE stable = {} /\ pending # {}
    <3>1. Oldest(m, pending) \in pending
      BY <2>4, <1>2, OldestIs DEF In
    <3>3. Taken(m, Oldest(m, pending), ip, x, take(Oldest(m, pending)).n)
      BY <3>1, <2>2, <1>4, <1>8 DEF In
    <3>4. QED BY <2>1, <2>4, <3>1, <3>3 DEF r, In
  <2>5. CASE stable = {} /\ pending = {}
    <3>1. queued # {}
      BY <2>5, <2>2, <1>2, <1>3 DEF In, States
    <3>2. Oldest(m, queued) \in queued
      BY <3>1, <1>2, OldestIs DEF In
    <3>3. Taken(m, Oldest(m, queued), ip, x, drop(Oldest(m, queued)).n)
      BY <3>2, <2>2, <1>4, <1>8 DEF In
    <3>4. Oldest(m, queued) \in Slots
      BY <3>2 DEF In
    <3>5. r = drop(Oldest(m, queued))
      BY <2>1, <2>5
    <3> HIDE DEF queued
    <3>6. QED BY <3>3, <3>4, <3>5 DEF r
  <2>6. QED BY <2>3, <2>4, <2>5
<1>9. QED BY <1>5, <1>6, <1>7, <1>8

(* Everything but the cache and what is sent. *)
Beside(m, r) == IsInterface(r) /\ r.table = m.table /\ r.out = m.out

(* What a call of the tcpip thread does: what waits for an answer has      *)
(* waited before or has been asked for, and a slot that the driver's task  *)
(* has found stays the one to be found.  "x" is the driver's slot. *)
Requested(m, a) == \E f \in ToSet(m.out) : IsRequest(f, a)
Asks(m, r) ==
    /\ ToSet(m.out) \subseteq ToSet(r.out)
    /\ \A i \in Slots : r.table[i].state = "PENDING" =>
          \/ m.table[i].state = "PENDING" /\ r.table[i].ip = m.table[i].ip
          \/ Requested(r, r.table[i].ip)
    /\ \A i \in Slots : Reserved(m, i) => Reserved(r, i)
Serves(m, x, r) == Good(r, x) /\ Asks(m, r)

LEMMA BesideServes ==
    ASSUME NEW m, NEW x, Good(m, x), NEW r, Beside(m, r)
    PROVE  Serves(m, x, r)
BY DEF Beside, Serves, Asks, Good, Distinct, Waiting, Reserved

LEMMA SendServes ==
    ASSUME NEW m, NEW x, Good(m, x), NEW f
    PROVE  Serves(m, x, Send(m, f))
<1>1. /\ IsInterface(Send(m, f)) /\ Send(m, f).table = m.table
      /\ ToSet(m.out) \subseteq ToSet(Send(m, f).out)
  BY SendIs DEF Good
<1>2. QED BY <1>1 DEF Serves, Asks, Good, Distinct, Waiting, Reserved

LEMMA ServesOn ==
    ASSUME NEW m, NEW x, NEW r, Serves(m, x, r), NEW q, Serves(r, x, q)
    PROVE  Serves(m, x, q)
<1>1. ToSet(m.out) \subseteq ToSet(q.out)
  BY DEF Serves, Asks
<1>2. \A i \in Slots : Reserved(m, i) => Reserved(q, i)
  BY DEF Serves, Asks
<1>3. ASSUME NEW i \in Slots, q.table[i].state = "PENDING"
      PROVE  \/ m.table[i].state = "PENDING" /\ q.table[i].ip = m.table[i].ip
             \/ Requested(q, q.table[i].ip)
  <2>1. CASE Requested(q, q.table[i].ip)
    BY <2>1
  <2>2. CASE r.table[i].state = "PENDING" /\ q.table[i].ip = r.table[i].ip
    <3>1. CASE m.table[i].state = "PENDING" /\ r.table[i].ip = m.table[i].ip
      BY <2>2, <3>1
    <3>2. CASE Requested(r, r.table[i].ip)
      BY <2>2, <3>2 DEF Requested, Serves, Asks
    <3>3. QED BY <2>2, <3>1, <3>2 DEF Serves, Asks
  <2>3. QED BY <2>1, <2>2, <1>3 DEF Serves, Asks
<1>4. QED BY <1>1, <1>2, <1>3 DEF Serves, Asks

(* A change of the state alone, and of what waits alone. *)
LEMMA StateChanges ==
    ASSUME NEW m, IsInterface(m), NEW i \in Slots, NEW state
    PROVE  [m EXCEPT !.table[i].state = state]
              = Put(m, i, Entry(state, m.table[i].ip, m.table[i].hw, m.table[i].ctime, m.table[i].p))
<1> DEFINE e == m.table[i]
<1>1. e = [state |-> e.state, ip |-> e.ip, hw |-> e.hw, ctime |-> e.ctime, p |-> e.p]
  BY DEF IsInterface, IsEntry
<1>2. [m EXCEPT !.table[i].state = state] = Put(m, i, [e EXCEPT !.state = state])
  BY DEF Put, IsInterface
<1>3. [e EXCEPT !.state = state] = Entry(state, e.ip, e.hw, e.ctime, e.p)
  <2> HIDE DEF e
  <2>1. QED BY <1>1 DEF Entry
<1>4. QED BY <1>2, <1>3

LEMMA QueueChanges ==
    ASSUME NEW m, IsInterface(m), NEW i \in Slots, NEW p
    PROVE  [m EXCEPT !.table[i].p = p]
              = Put(m, i, Entry(m.table[i].state, m.table[i].ip, m.table[i].hw, m.table[i].ctime, p))
<1> DEFINE e == m.table[i]
<1>1. e = [state |-> e.state, ip |-> e.ip, hw |-> e.hw, ctime |-> e.ctime, p |-> e.p]
  BY DEF IsInterface, IsEntry
<1>2. [m EXCEPT !.table[i].p = p] = Put(m, i, [e EXCEPT !.p = p])
  BY DEF Put, IsInterface
<1>3. [e EXCEPT !.p = p] = Entry(e.state, e.ip, e.hw, e.ctime, p)
  <2> HIDE DEF e
  <2>1. QED BY <1>1 DEF Entry
<1>4. QED BY <1>2, <1>3

(* An entry is found or made, and if it is pending its address is asked    *)
(* for. *)
LEMMA AskServes ==
    ASSUME NEW m, NEW x, Good(m, x), NEW ip, NEW p
    PROVE  LET found == find_entry(m, ip, TRUE)
               r == Asked(found.n, found.i, ip, p)
           IN  /\ found.i \in Slots /\ Serves(m, x, r)
               /\ r.table[found.i].ip = ip
<1> DEFINE found == find_entry(m, ip, TRUE)
           i == found.i
           r == Asked(found.n, i, ip, p)
           Goal == i \in Slots /\ Serves(m, x, r) /\ r.table[i].ip = ip
<1>1. i \in Slots /\ (Found(m, i, ip, found.n) \/ Taken(m, i, ip, x, found.n))
  BY FindIs
<1> HIDE DEF found
<1>2. ASSUME Found(m, i, ip, found.n) PROVE Goal
  <2>1. r = m \/ r = etharp_request(m, ip)
    BY <1>2 DEF Found, Asked
  <2>2. Serves(m, x, m)
    BY BesideServes DEF Beside, Good
  <2>3. Serves(m, x, etharp_request(m, ip)) /\ etharp_request(m, ip).table = m.table
    BY SendServes, SendIs DEF etharp_request, Good
  <2> HIDE DEF r
  <2>4. Goal
    BY <1>1, <1>2, <2>1, <2>2, <2>3 DEF Found
  <2>5. QED BY <2>4
<1>3. ASSUME Taken(m, i, ip, x, found.n) PROVE Goal
  <2>1. PICK hw, q : found.n = Put(m, i, Entry("EMPTY", ip, hw, 0, q)) /\ (q # NoPacket => i = x)
    BY <1>3 DEF Taken
  <2> DEFINE e == Entry("EMPTY", ip, hw, 0, q)
             a == Entry("PENDING", ip, hw, 0, q)
             b == Put(found.n, i, a)
  <2>2. /\ IsEntry(e) /\ e.state = "EMPTY" /\ e.ip = ip /\ e.hw = hw /\ e.ctime = 0 /\ e.p = q
        /\ IsEntry(a) /\ a.state = "PENDING" /\ a.ip = ip /\ a.p = q
    BY EntryIs DEF States
  <2> HIDE DEF e, a
  <2>3. /\ IsInterface(found.n) /\ found.n.table[i] = e
        /\ \A j \in Slots \ {i} : found.n.table[j] = m.table[j]
        /\ found.n.out = m.out
    BY <1>1, <2>1, <2>2, PutIs DEF Good, e
  <2>4. [found.n EXCEPT !.table[i].state = "PENDING"] = b
    <3>1. [found.n EXCEPT !.table[i].state = "PENDING"]
             = Put(found.n, i, Entry("PENDING", found.n.table[i].ip, found.n.table[i].hw,
                                     found.n.table[i].ctime, found.n.table[i].p))
      BY <1>1, <2>3, StateChanges
    <3>2. QED BY <3>1, <2>2, <2>3 DEF a
  <2>5. /\ IsInterface(b) /\ b.table[i] = a
        /\ \A j \in Slots \ {i} : b.table[j] = m.table[j]
        /\ b.out = m.out
    BY <1>1, <2>2, <2>3, PutIs
  <2>6. r = etharp_request(b, ip)
    BY <2>2, <2>3, <2>4, <2>5 DEF Asked
  <2> HIDE DEF b
  <2>7. /\ IsInterface(r) /\ r.table = b.table
        /\ ToSet(r.out) = ToSet(m.out) \cup {ArpFrame("request", Dev, Bcast, b.ip, ip)}
    BY <2>5, <2>6, SendIs DEF etharp_request
  <2> HIDE DEF r
  <2>8. Requested(r, ip)
    <3> DEFINE f == ArpFrame("request", Dev, Bcast, b.ip, ip)
    <3>1. IsRequest(f, ip)
      BY DEF IsRequest, ArpFrame
    <3>2. f \in ToSet(r.out)
      BY <2>7
    <3> HIDE DEF f
    <3>3. QED BY <3>1, <3>2 DEF Requested
  <2>9. Distinct(r)
    BY <1>3, <2>2, <2>5, <2>7 DEF Distinct, Good, Taken
  <2>10. Waiting(r, x)
    BY <2>1, <2>2, <2>5, <2>7 DEF Waiting, Good
  <2>11. ASSUME NEW j \in Slots, Reserved(m, j) PROVE Reserved(r, j)
    <3>1. CASE j = i
      BY <3>1, <2>2, <2>5, <2>7 DEF Reserved
    <3>2. CASE j # i /\ m.table[j].state # "EMPTY"
      BY <3>2, <2>5, <2>7 DEF Reserved
    <3>3. CASE j # i /\ m.table[j].state = "EMPTY"
      <4>1. m.table[i].state = "EMPTY" /\ i <= j
        BY <1>3, <3>3 DEF Taken
      <4>2. j <= i
        BY <4>1, <3>3, <2>11, <1>1 DEF Reserved
      <4>3. i \in Nat /\ j \in Nat
        BY <1>1, EtharpAssumption DEF Slots
      <4>4. QED BY <4>1, <4>2, <4>3, <3>3
    <3>4. QED BY <3>1, <3>2, <3>3
  <2>12. Asks(m, r)
    BY <2>2, <2>5, <2>7, <2>8, <2>11 DEF Asks
  <2>13. QED BY <1>1, <2>2, <2>5, <2>7, <2>9, <2>10, <2>12 DEF Serves, Good
<1>4. Goal
  BY <1>1, <1>2, <1>3
<1>5. QED BY <1>4 DEF found

(* A packet waits on an entry of its address, or is sent. *)
LEMMA PassServes ==
    ASSUME NEW m, NEW x, Good(m, x), NEW i \in Slots, NEW p,
           p # NoPacket /\ m.table[i].state = "PENDING" => p.dip \in {m.table[i].ip} \cup Outside
    PROVE  Serves(m, x, Passed(m, i, p))
<1> DEFINE e == m.table[i]
           q == [m EXCEPT !.table[i].p = p]
<1>1. Serves(m, x, m)
  BY BesideServes DEF Beside, Good
<1>2. Serves(m, x, Send(m, IpFrame(e.hw, p)))
  BY SendServes
<1>3. CASE p # NoPacket /\ e.state = "PENDING" /\ e.p = NoPacket
  <2>1. Passed(m, i, p) = q
    BY <1>3 DEF Passed
  <2> DEFINE a == Entry(e.state, e.ip, e.hw, e.ctime, p)
  <2>2. q = Put(m, i, a)
    BY QueueChanges DEF Good
  <2>3. e.state \in States /\ e.ctime \in Nat
    BY DEF Good, IsInterface, IsEntry
  <2>4. IsEntry(a) /\ a.state = e.state /\ a.ip = e.ip /\ a.p = p
    BY <2>3, EntryIs
  <2> HIDE DEF a, q
  <2>5. /\ IsInterface(q) /\ q.table[i] = a
        /\ \A j \in Slots \ {i} : q.table[j] = m.table[j]
        /\ q.out = m.out
    BY <2>2, <2>4, PutIs DEF Good
  <2>6. \A j \in Slots : q.table[j].state = m.table[j].state /\ q.table[j].ip = m.table[j].ip
    BY <2>4, <2>5
  <2>7. Distinct(q)
    BY <2>6 DEF Distinct, Good
  <2>8. Waiting(q, x)
    <3>1. MayWait(a)
      BY <1>3, <2>4 DEF MayWait
    <3>2. QED BY <3>1, <2>5 DEF Waiting, Good
  <2>9. Asks(m, q)
    BY <2>5, <2>6 DEF Asks, Reserved
  <2>10. QED BY <2>1, <2>5, <2>7, <2>8, <2>9 DEF Serves, Good
<1>4. CASE ~(p # NoPacket /\ e.state = "PENDING" /\ e.p = NoPacket)
  <2>1. Passed(m, i, p) = m \/ Passed(m, i, p) = Send(m, IpFrame(e.hw, p))
    BY <1>4 DEF Passed
  <2>2. QED BY <2>1, <1>1, <1>2
<1>5. QED BY <1>3, <1>4

LEMMA QueryServes ==
    ASSUME NEW m, NEW x, Good(m, x), NEW ip, NEW p,
           p # NoPacket => p.dip \in {ip} \cup Outside
    PROVE  Serves(m, x, etharp_query(m, ip, p))
<1> DEFINE found == find_entry(m, ip, TRUE)
           a == Asked(found.n, found.i, ip, p)
<1>1. found.i \in Slots /\ Serves(m, x, a) /\ a.table[found.i].ip = ip
  BY AskServes
<1>2. etharp_query(m, ip, p) = m \/ etharp_query(m, ip, p) = Passed(a, found.i, p)
  BY DEF etharp_query
<1>3. Serves(m, x, m)
  BY BesideServes DEF Beside, Good
<1> HIDE DEF a, found
<1>4. Serves(a, x, Passed(a, found.i, p))
  BY <1>1, PassServes DEF Serves
<1>5. Serves(m, x, Passed(a, found.i, p))
  BY <1>1, <1>4, ServesOn
<1>6. QED BY <1>2, <1>3, <1>5

LEMMA OutputServes ==
    ASSUME NEW m, NEW x, Good(m, x), NEW p
    PROVE  Serves(m, x, etharp_output(m, p))
<1>1. Serves(m, x, m)
  BY BesideServes DEF Beside, Good
<1>2. Serves(m, x, Send(m, IpFrame(Bcast, p)))
  BY SendServes
<1>3. p.dip \in {NextHop(m, p)} \cup Outside
  BY DEF NextHop, IsLocal
<1>4. Serves(m, x, etharp_query(m, NextHop(m, p), p))
  BY <1>3, QueryServes
<1>5. QED BY <1>1, <1>2, <1>4 DEF etharp_output

----------------------------------------------------------------------------
(* The DHCP client asks for what it needs, and changes nothing else in the *)
(* cache. *)
LEMMA ThenBeside ==
    ASSUME NEW m, NEW x, NEW r, Serves(m, x, r), NEW q, Beside(r, q)
    PROVE  Serves(m, x, q)
BY BesideServes, ServesOn DEF Serves

LEMMA SetStateServes ==
    ASSUME NEW m, NEW x, Good(m, x), NEW state
    PROVE  Serves(m, x, dhcp_set_state(m, state))
<1>1. Beside(m, dhcp_set_state(m, state))
  BY DEF dhcp_set_state, Beside, Good, IsInterface
<1>2. QED BY <1>1, BesideServes

LEMMA TriedServes ==
    ASSUME NEW m, NEW x, Good(m, x)
    PROVE  Serves(m, x, Tried(m))
<1>1. Beside(m, Tried(m))
  BY DEF Tried, Beside, Good, IsInterface
<1>2. QED BY <1>1, BesideServes

LEMMA RequestServes ==
    ASSUME NEW m, NEW x, Good(m, x), NEW kind, NEW dip, NEW opts
    PROVE  Serves(m, x, Request(m, kind, dip, opts))
<1> DEFINE r == dhcp_create_request(m)
<1>1. Beside(m, r)
  BY DEF dhcp_create_request, Beside, Good, IsInterface
<1>2. Serves(m, x, r)
  BY <1>1, BesideServes
<1> HIDE DEF r
<1>3. \A p : Serves(r, x, etharp_output(r, p))
  BY <1>2, OutputServes DEF Serves
<1>4. \E p : Request(m, kind, dip, opts) = etharp_output(r, p)
  BY DEF Request, my_dhcp_udp_send, r
<1>5. QED BY <1>2, <1>3, <1>4, ServesOn

LEMMA DiscoverServes ==
    ASSUME NEW m, NEW x, Good(m, x)
    PROVE  Serves(m, x, dhcp_discover(m))
<1> DEFINE a == [m EXCEPT !.dhcp.offered = ANY]
           b == Request(a, "DISCOVER", BROADCAST, Parameters)
           c == dhcp_set_state(b, "SELECTING")
<1>1. Serves(m, x, a)
  BY BesideServes DEF Beside, Good, IsInterface
<1>2. dhcp_discover(m) = Tried(c)
  BY DEF dhcp_discover
<1> HIDE DEF a
<1>3. Serves(m, x, b)
  BY <1>1, RequestServes, ServesOn DEF Serves
<1> HIDE DEF b
<1>4. Serves(m, x, c)
  BY <1>3, SetStateServes, ServesOn DEF Serves
<1> HIDE DEF c
<1>5. QED BY <1>2, <1>4, TriedServes, ServesOn DEF Serves

LEMMA SelectServes ==
    ASSUME NEW m, NEW x, Good(m, x)
    PROVE  Serves(m, x, dhcp_select(m))
<1> DEFINE o == Wanted(m.dhcp.offered) \o <<Opt("SERVER_ID", m.dhcp.server)>> \o Parameters
           b == Request(m, "REQUEST", BROADCAST, o)
           c == dhcp_set_state(b, "REQUESTING")
<1>1. dhcp_select(m) = Tried(c)
  BY DEF dhcp_select
<1> HIDE DEF o
<1>2. Serves(m, x, b)
  BY RequestServes
<1> HIDE DEF b
<1>3. Serves(m, x, c)
  BY <1>2, SetStateServes, ServesOn DEF Serves
<1> HIDE DEF c
<1>4. QED BY <1>1, <1>3, TriedServes, ServesOn DEF Serves

LEMMA CheckServes ==
    ASSUME NEW m, NEW x, Good(m, x)
    PROVE  Serves(m, x, dhcp_check(m))
<1> DEFINE b == etharp_query(m, m.dhcp.offered, NoPacket)
           c == Tried(b)
<1>1. dhcp_check(m) = dhcp_set_state(c, "CHECKING")
  BY DEF dhcp_check
<1>2. Serves(m, x, b)
  BY QueryServes
<1> HIDE DEF b
<1>3. Serves(m, x, c)
  BY <1>2, TriedServes, ServesOn DEF Serves
<1> HIDE DEF c
<1>4. QED BY <1>1, <1>3, SetStateServes, ServesOn DEF Serves

(* First the state is set, then the message is sent and counted. *)
LEMMA StateThenRequest ==
    ASSUME NEW m, NEW x, Good(m, x), NEW state, NEW kind, NEW dip, NEW opts
    PROVE  Serves(m, x, Tried(Request(dhcp_set_state(m, state), kind, dip, opts)))
<1> DEFINE a == dhcp_set_state(m, state)
           b == Request(a, kind, dip, opts)
<1>1. Serves(m, x, a)
  BY SetStateServes
<1> HIDE DEF a
<1>2. Serves(m, x, b)
  BY <1>1, RequestServes, ServesOn DEF Serves
<1> HIDE DEF b
<1>3. Serves(m, x, Tried(b))
  BY <1>2, TriedServes, ServesOn DEF Serves
<1>4. QED BY <1>3 DEF a, b

LEMMA RenewServes ==
    ASSUME NEW m, NEW x, Good(m, x)
    PROVE  Serves(m, x, dhcp_renew(m)) /\ Serves(m, x, dhcp_rebind(m))
BY StateThenRequest DEF dhcp_renew, dhcp_rebind

LEMMA ReleaseServes ==
    ASSUME NEW m, NEW x, Good(m, x)
    PROVE  Serves(m, x, dhcp_release(m))
<1> DEFINE off == dhcp_set_state(m, "OFF")
           a == [off EXCEPT !.dhcp.server = ANY, !.dhcp.offered = ANY, !.dhcp.gw = ANY,
                            !.dhcp.lease = 0, !.dhcp.renew = 0, !.dhcp.rebind = 0]
           b == Request(a, "RELEASE", ANY, <<>>)
           c == Tried(b)
           d == [c EXCEPT !.up = FALSE, !.ip = ANY, !.gw = ANY]
<1>1. dhcp_release(m) = d
  BY DEF dhcp_release
<1>2. Serves(m, x, off)
  BY SetStateServes
<1> HIDE DEF off
<1>3. Beside(off, a)
  BY <1>2 DEF Beside, Serves, Good, IsInterface
<1> HIDE DEF a
<1>4. Serves(m, x, a)
  BY <1>2, <1>3, ThenBeside
<1>5. Serves(m, x, b)
  BY <1>4, RequestServes, ServesOn DEF Serves
<1> HIDE DEF b
<1>6. Serves(m, x, c)
  BY <1>5, TriedServes, ServesOn DEF Serves
<1> HIDE DEF c
<1>7. Beside(c, d)
  BY <1>6 DEF Beside, Serves, Good, IsInterface
<1> HIDE DEF d
<1>8. QED BY <1>1, <1>6, <1>7, ThenBeside

LEMMA BindServes ==
    ASSUME NEW m, NEW x, Good(m, x)
    PROVE  Serves(m, x, dhcp_bind(m))
<1> DEFINE a == [m EXCEPT !.dhcp.t1 = T1(m.dhcp.renew), !.dhcp.t2 = T2(m.dhcp.rebind),
                          !.ip = m.dhcp.offered,
                          !.gw = IF m.dhcp.gw = ANY THEN DefaultGw ELSE m.dhcp.gw, !.up = TRUE]
<1>1. dhcp_bind(m) = dhcp_set_state(a, "BOUND")
  BY DEF dhcp_bind
<1>2. Serves(m, x, a)
  BY BesideServes DEF Beside, Good, IsInterface
<1> HIDE DEF a
<1>3. QED BY <1>1, <1>2, SetStateServes, ServesOn DEF Serves

LEMMA ReceiveServes ==
    ASSUME NEW m, NEW x, Good(m, x), NEW p
    PROVE  Serves(m, x, dhcp_recv(m, p))
<1> DEFINE msg == dhcp_unfold_reply(p)
           quiet == [m EXCEPT !.dhcp.timer = FALSE]
<1>1. Serves(m, x, m)
  BY BesideServes DEF Beside, Good
<1>2. Serves(m, x, quiet)
  BY BesideServes DEF Beside, Good, IsInterface
<1>3. Serves(m, x, dhcp_handle_nak(m))
  <2> DEFINE a == [m EXCEPT !.dhcp.timer = TRUE]
  <2>1. Serves(m, x, a)
    BY BesideServes DEF Beside, Good, IsInterface
  <2>2. dhcp_handle_nak(m) = dhcp_set_state(a, "BACKING_OFF")
    BY DEF dhcp_handle_nak
  <2> HIDE DEF a
  <2>3. QED BY <2>1, <2>2, SetStateServes, ServesOn DEF Serves
<1> HIDE DEF quiet, msg
<1>4. Serves(m, x, dhcp_handle_offer(quiet, msg))
  <2> DEFINE server == dhcp_get_option_ptr(msg, "SERVER_ID")
             a == [quiet EXCEPT !.dhcp.server = server, !.dhcp.offered = msg.yi]
  <2>1. dhcp_handle_offer(quiet, msg) = quiet \/ dhcp_handle_offer(quiet, msg) = dhcp_select(a)
    BY DEF dhcp_handle_offer
  <2> HIDE DEF server
  <2>2. Beside(quiet, a)
    BY <1>2 DEF Beside, Serves, Good, IsInterface
  <2> HIDE DEF a
  <2>3. Serves(m, x, a)
    BY <1>2, <2>2, ThenBeside
  <2>4. Serves(m, x, dhcp_select(a))
    BY <2>3, SelectServes, ServesOn DEF Serves
  <2>5. QED BY <2>1, <2>4, <1>2
<1>5. Serves(m, x, dhcp_ack(m, msg))
  <2> DEFINE a == dhcp_handle_ack(quiet, msg)
  <2>1. dhcp_ack(m, msg) \in {dhcp_check(a), dhcp_bind(quiet), m}
    BY DEF dhcp_ack, quiet
  <2>2. Beside(quiet, a)
    <3> DEFINE lease == OptionOr(msg, "LEASE_TIME", quiet.dhcp.lease)
               t1 == dhcp_get_option_ptr(msg, "T1")
               renew == IF t1 = Absent THEN lease ELSE 2 * t1
               rebind == OptionOr(msg, "T2", lease)
               router == OptionOr(msg, "ROUTER", ANY)
    <3>1. a = [quiet EXCEPT !.dhcp.lease = lease, !.dhcp.renew = renew, !.dhcp.rebind = rebind,
                            !.dhcp.offered = msg.yi, !.dhcp.gw = router]
      BY DEF dhcp_handle_ack
    <3> HIDE DEF a, lease, renew, rebind, router
    <3>2. QED BY <3>1, <1>2 DEF Beside, Serves, Good, IsInterface
  <2> HIDE DEF a
  <2>3. Serves(m, x, a)
    BY <1>2, <2>2, ThenBeside
  <2>4. Serves(m, x, dhcp_check(a))
    BY <2>3, CheckServes, ServesOn DEF Serves
  <2>5. Serves(m, x, dhcp_bind(quiet))
    BY <1>2, BindServes, ServesOn DEF Serves
  <2>6. QED BY <2>1, <2>4, <2>5, <1>1
<1>6. dhcp_recv(m, p) \in {m, dhcp_ack(m, msg), dhcp_handle_nak(m), dhcp_handle_offer(quiet, msg)}
  BY DEF dhcp_recv, quiet, msg
<1>7. QED BY <1>1, <1>3, <1>4, <1>5, <1>6

LEMMA TimeoutServes ==
    ASSUME NEW m, NEW x, Good(m, x)
    PROVE  Serves(m, x, dhcp_timeout(m))
<1> DEFINE a == [m EXCEPT !.dhcp.timer = FALSE]
<1>1. Serves(m, x, a)
  BY BesideServes DEF Beside, Good, IsInterface
<1>2. dhcp_timeout(m) \in {a, dhcp_discover(a), dhcp_select(a), dhcp_discover(dhcp_release(a)),
                           dhcp_check(a), dhcp_bind(a), dhcp_renew(a), dhcp_rebind(a)}
  BY DEF dhcp_timeout
<1> HIDE DEF a
<1>3. Good(a, x)
  BY <1>1 DEF Serves
<1>4. /\ Serves(m, x, dhcp_discover(a)) /\ Serves(m, x, dhcp_select(a))
      /\ Serves(m, x, dhcp_check(a)) /\ Serves(m, x, dhcp_bind(a))
      /\ Serves(m, x, dhcp_renew(a)) /\ Serves(m, x, dhcp_rebind(a))
  BY <1>1, <1>3, DiscoverServes, SelectServes, CheckServes, BindServes, RenewServes, ServesOn
<1>5. Serves(m, x, dhcp_release(a))
  BY <1>1, <1>3, ReleaseServes, ServesOn
<1>6. Serves(m, x, dhcp_discover(dhcp_release(a)))
  BY <1>5, DiscoverServes, ServesOn DEF Serves
<1>7. QED BY <1>1, <1>2, <1>4, <1>6

LEMMA CoarseServes ==
    ASSUME NEW m, NEW x, Good(m, x)
    PROVE  Serves(m, x, CoarseTick(m))
<1> DEFINE later == [m EXCEPT !.coarse = @ - 1]
           after == dhcp_coarse_tmr(m)
           a == [m EXCEPT !.dhcp.t2 = Down1(@)]
           b == [a EXCEPT !.dhcp.t1 = 0]
           c == [a EXCEPT !.dhcp.t1 = Down1(@)]
<1>1. Serves(m, x, m)
  BY BesideServes DEF Beside, Good
<1>2. Serves(m, x, later)
  BY BesideServes DEF Beside, Good, IsInterface
<1>3. Serves(m, x, after)
  <2>1. after \in {m, dhcp_t2_timeout(a), dhcp_t1_timeout(b), c}
    BY DEF dhcp_coarse_tmr
  <2>2. Serves(m, x, a) /\ Serves(m, x, b) /\ Serves(m, x, c)
    BY BesideServes DEF Beside, Good, IsInterface
  <2> HIDE DEF a, b, c, after
  <2>3. dhcp_t2_timeout(a) \in {a, dhcp_rebind(a)} /\ dhcp_t1_timeout(b) \in {b, dhcp_renew(b)}
    BY DEF dhcp_t1_timeout, dhcp_t2_timeout
  <2>4. Serves(m, x, dhcp_rebind(a)) /\ Serves(m, x, dhcp_renew(b))
    BY <2>2, RenewServes, ServesOn DEF Serves
  <2>5. QED BY <1>1, <2>1, <2>2, <2>3, <2>4
<1>4. CoarseTick(m) = later \/ CoarseTick(m) = [after EXCEPT !.coarse = Next_coarse(after)]
  BY DEF CoarseTick
<1> HIDE DEF after
<1>5. Beside(after, [after EXCEPT !.coarse = Next_coarse(after)])
  BY <1>3 DEF Beside, Serves, Good, IsInterface
<1>6. QED BY <1>2, <1>3, <1>4, <1>5, ThenBeside

LEMMA StartServes ==
    ASSUME NEW m, NEW x, Good(m, x)
    PROVE  Serves(m, x, dhcp_start(m)) /\ Serves(m, x, dhcp_stop(dhcp_release(m)))
<1>1. Serves(m, x, dhcp_start(m))
  <2> DEFINE a == [m EXCEPT !.dhcp = dhcp_zero]
  <2>1. dhcp_start(m) = dhcp_discover(a)
    BY DEF dhcp_start
  <2>2. Serves(m, x, a)
    BY BesideServes DEF Beside, Good, IsInterface
  <2> HIDE DEF a
  <2>3. QED BY <2>1, <2>2, DiscoverServes, ServesOn DEF Serves
<1>2. Serves(m, x, dhcp_stop(dhcp_release(m)))
  <2> DEFINE a == dhcp_release(m)
  <2>1. Serves(m, x, a)
    BY ReleaseServes
  <2> HIDE DEF a
  <2>2. Beside(a, dhcp_stop(a))
    BY <2>1 DEF dhcp_stop, Beside, Serves, Good, IsInterface
  <2>3. Serves(m, x, dhcp_stop(a))
    BY <2>1, <2>2, ThenBeside
  <2>4. QED BY <2>3 DEF a
<1>3. QED BY <1>1, <1>2

(* An address is declined in a broadcast: the cache is not looked at.      *)
LEMMA DeclineIs ==
    ASSUME NEW m, NEW x, Good(m, x), NEW addr
    PROVE  LET r == dhcp_arp_reply(m, addr) IN
           /\ Serves(m, x, r) /\ r.table = m.table
           /\ m.dhcp = NoDhcp => r = m
<1> DEFINE a == dhcp_set_state(m, "BACKING_OFF")
           o == Wanted(a.dhcp.offered)
           b == Request(a, "DECLINE", BROADCAST, o)
           r == dhcp_arp_reply(m, addr)
<1>1. r = m \/ r = Tried(b)
  BY DEF dhcp_arp_reply, dhcp_decline
<1>2. Serves(m, x, m)
  BY BesideServes DEF Beside, Good
<1>3. Serves(m, x, Tried(b))
  BY StateThenRequest
<1>4. m.dhcp = NoDhcp => r = m
  BY DEF dhcp_arp_reply, NoDhcp
<1>5. a.table = m.table /\ IsInterface(a)
  BY DEF dhcp_set_state, Good, IsInterface
<1> HIDE DEF o, r, a
<1>6. b.table = a.table /\ IsInterface(b)
  <2> DEFINE c == dhcp_create_request(a)
             q == [sip |-> ANY, dip |-> BROADCAST, kind |-> "dhcp",
                   msg |-> Written(c.dhcp.xid, c.ip, "DECLINE", o)]
             f == [q EXCEPT !.sip = c.ip]
  <2>1. c.table = a.table /\ IsInterface(c)
    BY <1>5 DEF dhcp_create_request, IsInterface
  <2>2. b = etharp_output(c, f)
    BY DEF Request, my_dhcp_udp_send
  <2>3. f.dip = BROADCAST
    OBVIOUS
  <2> HIDE DEF c, q, f
  <2>4. b = Send(c, IpFrame(Bcast, f))
    BY <2>2, <2>3 DEF etharp_output, IsUnicast
  <2>5. QED BY <2>1, <2>4, SendIs
<1> HIDE DEF b
<1>7. Tried(b).table = b.table
  BY <1>6 DEF Tried, IsInterface
<1>8. /\ Serves(m, x, r) /\ r.table = m.table
      /\ m.dhcp = NoDhcp => r = m
  BY <1>1, <1>2, <1>3, <1>4, <1>5, <1>6, <1>7
<1>9. QED BY <1>8 DEF r

----------------------------------------------------------------------------
(* The driver's task: nothing begins to wait for an answer, and the client *)
(* is let alone. *)
Keeps(m, r) ==
    /\ r.up = m.up /\ r.dhcp = m.dhcp /\ ToSet(m.out) \subseteq ToSet(r.out)
    /\ \A j \in Slots : r.table[j].state = "PENDING" =>
           m.table[j].state = "PENDING" /\ r.table[j].ip = m.table[j].ip

LEMMA KeepsOn ==
    ASSUME NEW m, NEW r, Keeps(m, r), NEW q, Keeps(r, q)
    PROVE  Keeps(m, q)
BY DEF Keeps

LEMMA FindKeeps ==
    ASSUME NEW m, Good(m, 0), NEW ip, NEW hard \in BOOLEAN
    PROVE  LET r == find_entry(m, ip, hard) IN
           r.i # 0 => /\ r.i \in Slots /\ Good(r.n, r.i) /\ Reserved(r.n, r.i)
                      /\ Keeps(m, r.n)
<1> DEFINE r == find_entry(m, ip, hard)
           i == r.i
           Goal == i \in Slots /\ Good(r.n, i) /\ Reserved(r.n, i) /\ Keeps(m, r.n)
<1>1. r.i # 0 => i \in Slots /\ (Found(m, i, ip, r.n) \/ Taken(m, i, ip, 0, r.n))
  BY FindIs
<1>9. 0 \notin Slots
  BY DEF Slots
<1> HIDE DEF r
<1>2. ASSUME i \in Slots, Found(m, i, ip, r.n) PROVE Goal
  <2>1. r.n = m /\ m.table[i].state # "EMPTY"
    BY <1>2 DEF Found
  <2>2. Good(m, i) /\ Reserved(m, i)
    BY <1>9, <2>1 DEF Good, Waiting, Reserved
  <2>3. Keeps(m, m)
    BY DEF Keeps
  <2>4. QED BY <1>2, <2>1, <2>2, <2>3
<1>3. ASSUME i \in Slots, Taken(m, i, ip, 0, r.n) PROVE Goal
  <2>1. PICK hw, p : r.n = Put(m, i, Entry("EMPTY", ip, hw, 0, p)) /\ (p # NoPacket => i = 0)
    BY <1>3 DEF Taken
  <2> DEFINE e == Entry("EMPTY", ip, hw, 0, p)
  <2>2. IsEntry(e) /\ e.state = "EMPTY" /\ e.ip = ip
    BY EntryIs DEF States
  <2> HIDE DEF e
  <2>3. /\ IsInterface(r.n) /\ r.n.table[i] = e
        /\ \A j \in Slots \ {i} : r.n.table[j] = m.table[j]
        /\ r.n.out = m.out /\ r.n.up = m.up /\ r.n.dhcp = m.dhcp
    BY <1>3, <2>1, <2>2, PutIs DEF Good, e
  <2>4. Distinct(r.n)
    BY <2>2, <2>3 DEF Distinct, Good
  <2>5. Waiting(r.n, i)
    BY <1>9, <2>3 DEF Waiting, Good
  <2>6. Reserved(r.n, i)
    <3>1. i <= i
      BY <1>3, EtharpAssumption DEF Slots
    <3>2. QED BY <1>3, <2>2, <2>3, <3>1 DEF Reserved, Taken
  <2>7. Keeps(m, r.n)
    BY <2>2, <2>3 DEF Keeps
  <2>8. QED BY <1>3, <2>3, <2>4, <2>5, <2>6, <2>7 DEF Good
<1>4. r.i # 0 => Goal
  BY <1>1, <1>2, <1>3
<1>5. QED BY <1>4 DEF r

(* An address that has an entry is found, and it is that entry.            *)
LEMMA FindMatches ==
    ASSUME NEW m, Good(m, 0), NEW ip, NEW hard \in BOOLEAN,
           NEW j \in Slots, m.table[j].state # "EMPTY", m.table[j].ip = ip
    PROVE  find_entry(m, ip, hard).i = j
<1> DEFINE match == {i \in Slots : m.table[i].state # "EMPTY" /\ m.table[i].ip = ip}
<1>1. match # {} /\ match \subseteq Nat
  BY DEF Slots
<1>2. Min(match) \in match
  BY <1>1, MinIs
<1>3. find_entry(m, ip, hard) = [i |-> Min(match), n |-> m]
  BY <1>1 DEF find_entry
<1>4. Min(match) = j
  BY <1>2 DEF Good, Distinct
<1>5. QED BY <1>3, <1>4

LEMMA MarkKeeps ==
    ASSUME NEW m, NEW i \in Slots, Good(m, i), Reserved(m, i)
    PROVE  LET r == MarkStable(m, i) IN
           Good(r, i) /\ Keeps(m, r) /\ r.table[i].state = "STABLE"
<1> DEFINE e == m.table[i]
           a == Entry("STABLE", e.ip, e.hw, e.ctime, e.p)
           r == MarkStable(m, i)
<1>1. r = Put(m, i, a)
  BY StateChanges DEF MarkStable, Good
<1>2. e.ctime \in Nat
  BY DEF Good, IsInterface, IsEntry
<1>3. IsEntry(a) /\ a.state = "STABLE" /\ a.ip = e.ip
  BY <1>2, EntryIs DEF States
<1> HIDE DEF a, r
<1>4. /\ IsInterface(r) /\ r.table[i] = a
      /\ \A j \in Slots \ {i} : r.table[j] = m.table[j]
      /\ r.out = m.out /\ r.up = m.up /\ r.dhcp = m.dhcp
  BY <1>1, <1>3, PutIs DEF Good
<1>5. Distinct(r)
  <2>1. ASSUME NEW j \in Slots \ {i}, m.table[j].state # "EMPTY" PROVE m.table[j].ip # e.ip
    <3>1. CASE e.state = "EMPTY"
      BY <2>1, <3>1 DEF Reserved
    <3>2. CASE e.state # "EMPTY"
      BY <2>1, <3>2 DEF Good, Distinct
    <3>3. QED BY <3>1, <3>2
  <2>2. QED BY <1>3, <1>4, <2>1 DEF Distinct, Good
<1>6. Waiting(r, i)
  BY <1>4 DEF Waiting, Good
<1>7. Keeps(m, r)
  BY <1>3, <1>4 DEF Keeps
<1>8. QED BY <1>3, <1>4, <1>5, <1>6, <1>7 DEF Good, r

LEMMA WriteKeeps ==
    ASSUME NEW m, NEW i \in Slots, Good(m, i), NEW hw
    PROVE  LET r == WriteAddress(m, i, hw) IN Good(r, i) /\ Keeps(m, r)
<1> DEFINE e == m.table[i]
           a == Entry(e.state, e.ip, hw, 0, e.p)
           r == WriteAddress(m, i, hw)
<1>1. e = [state |-> e.state, ip |-> e.ip, hw |-> e.hw, ctime |-> e.ctime, p |-> e.p]
      /\ e.state \in States
  BY DEF Good, IsInterface, IsEntry
<1>2. r = Put(m, i, a)
  <2>1. r = [m EXCEPT !.table = [m.table EXCEPT ![i] = [e EXCEPT !.hw = hw, !.ctime = 0]]]
    BY DEF WriteAddress, Good, IsInterface
  <2>2. [e EXCEPT !.hw = hw, !.ctime = 0] = a
    <3> HIDE DEF e
    <3> DEFINE b == [e EXCEPT !.hw = hw]
               c == [b EXCEPT !.ctime = 0]
    <3>1. [e EXCEPT !.hw = hw, !.ctime = 0] = c
      OBVIOUS
    <3>2. b = Entry(e.state, e.ip, hw, e.ctime, e.p)
      BY <1>1 DEF Entry
    <3> HIDE DEF b
    <3>3. c = a
      BY <3>2 DEF Entry
    <3>4. QED BY <3>1, <3>3
  <2>3. QED BY <2>1, <2>2 DEF Put
<1>3. IsEntry(a) /\ a.state = e.state /\ a.ip = e.ip
  BY <1>1, EntryIs
<1> HIDE DEF a, r
<1>4. /\ IsInterface(r) /\ r.table[i] = a
      /\ \A j \in Slots \ {i} : r.table[j] = m.table[j]
      /\ r.out = m.out /\ r.up = m.up /\ r.dhcp = m.dhcp
  BY <1>2, <1>3, PutIs DEF Good
<1>5. \A j \in Slots : r.table[j].state = m.table[j].state /\ r.table[j].ip = m.table[j].ip
  BY <1>3, <1>4
<1>6. Distinct(r) /\ Waiting(r, i) /\ Keeps(m, r)
  BY <1>4, <1>5 DEF Distinct, Waiting, Keeps, Good
<1>7. QED BY <1>4, <1>6 DEF Good, r

LEMMA SendQueuedKeeps ==
    ASSUME NEW m, NEW i \in Slots, Good(m, i), NEW hw
    PROVE  LET r == SendQueued(m, i, hw) IN Good(r, 0) /\ Keeps(m, r)
<1> DEFINE e == m.table[i]
           a == Entry(e.state, e.ip, e.hw, e.ctime, NoPacket)
           b == [m EXCEPT !.table[i].p = NoPacket]
           r == SendQueued(m, i, hw)
           Goal == Good(r, 0) /\ Keeps(m, r)
<1>1. CASE e.p = NoPacket
  <2>1. r = m
    BY <1>1 DEF SendQueued
  <2> HIDE DEF r
  <2>2. Goal
    BY <1>1, <2>1 DEF Good, Waiting, Keeps
  <2>3. QED BY <2>2 DEF r
<1>2. CASE e.p # NoPacket
  <2>1. r = Send(b, IpFrame(hw, e.p))
    BY <1>2 DEF SendQueued
  <2>2. b = Put(m, i, a)
    BY QueueChanges DEF Good
  <2>3. e.state \in States /\ e.ctime \in Nat
    BY DEF Good, IsInterface, IsEntry
  <2>4. IsEntry(a) /\ a.state = e.state /\ a.ip = e.ip /\ a.p = NoPacket
    BY <2>3, EntryIs
  <2> HIDE DEF a, b, r
  <2>5. /\ IsInterface(b) /\ b.table[i] = a
        /\ \A j \in Slots \ {i} : b.table[j] = m.table[j]
        /\ b.out = m.out /\ b.up = m.up /\ b.dhcp = m.dhcp
    BY <2>2, <2>4, PutIs DEF Good
  <2>6. /\ IsInterface(r) /\ r.table = b.table /\ ToSet(m.out) \subseteq ToSet(r.out)
        /\ r.up = m.up /\ r.dhcp = m.dhcp
    BY <2>1, <2>5, SendIs
  <2>7. \A j \in Slots : r.table[j].state = m.table[j].state /\ r.table[j].ip = m.table[j].ip
    BY <2>4, <2>5, <2>6
  <2>8. Distinct(r) /\ Keeps(m, r)
    BY <2>6, <2>7 DEF Distinct, Keeps, Good
  <2>9. Waiting(r, 0)
    BY <2>4, <2>5, <2>6 DEF Waiting, Good
  <2>10. Goal
    BY <2>6, <2>8, <2>9 DEF Good
  <2>11. QED BY <2>10 DEF r
<1>3. QED BY <1>1, <1>2

LEMMA UpdateKeeps ==
    ASSUME NEW m, Good(m, 0), NEW ip, NEW hw, NEW hard \in BOOLEAN
    PROVE  LET r == update_arp_entry(m, ip, hw, hard) IN Good(r, 0) /\ Keeps(m, r)
<1> DEFINE found == find_entry(m, ip, hard)
           i == found.i
           a == MarkStable(found.n, i)
           b == WriteAddress(a, i, hw)
           c == SendQueued(b, i, hw)
           r == update_arp_entry(m, ip, hw, hard)
<1>1. r = m \/ (i # 0 /\ r = c)
  BY DEF update_arp_entry
<1>2. Keeps(m, m)
  BY DEF Keeps
<1>3. i # 0 => i \in Slots /\ Good(found.n, i) /\ Reserved(found.n, i) /\ Keeps(m, found.n)
  BY FindKeeps
<1> HIDE DEF found
<1>4. i # 0 => Good(a, i) /\ Keeps(m, a)
  BY <1>3, MarkKeeps, KeepsOn
<1> HIDE DEF a
<1>5. i # 0 => Good(b, i) /\ Keeps(m, b)
  BY <1>3, <1>4, WriteKeeps, KeepsOn
<1> HIDE DEF b
<1>6. i # 0 => Good(c, 0) /\ Keeps(m, c)
  BY <1>3, <1>5, SendQueuedKeeps, KeepsOn
<1> HIDE DEF c, r
<1>7. Good(r, 0) /\ Keeps(m, r)
  BY <1>1, <1>2, <1>6
<1>8. QED BY <1>7 DEF r

(* The timer of the cache ages its entries, and empties the oldest.        *)
Aged(e) == IF e.state = "EMPTY" THEN e ELSE [e EXCEPT !.ctime = @ + 1]
Cleaned(e) == IF Expired(e) THEN [e EXCEPT !.state = "EMPTY", !.p = NoPacket] ELSE e

LEMMA AgedIs ==
    ASSUME NEW e, IsEntry(e)
    PROVE  LET f == Cleaned(Aged(e)) IN
           /\ IsEntry(f) /\ f.ip = e.ip
           /\ \/ f.state = e.state /\ f.p = e.p
              \/ f.state = "EMPTY" /\ f.p = NoPacket
<1> DEFINE a == Aged(e)
           b == [a EXCEPT !.state = "EMPTY"]
           f == Cleaned(a)
           Goal == /\ IsEntry(f) /\ f.ip = e.ip
                   /\ \/ f.state = e.state /\ f.p = e.p
                      \/ f.state = "EMPTY" /\ f.p = NoPacket
<1>1. /\ e = Entry(e.state, e.ip, e.hw, e.ctime, e.p)
      /\ e.state \in States /\ e.ctime \in Nat
  BY DEF IsEntry, Entry
<1>2. a = e \/ a = Entry(e.state, e.ip, e.hw, e.ctime + 1, e.p)
  <2>1. [e EXCEPT !.ctime = @ + 1] = [e EXCEPT !.ctime = e.ctime + 1]
    OBVIOUS
  <2>2. [e EXCEPT !.ctime = e.ctime + 1] = Entry(e.state, e.ip, e.hw, e.ctime + 1, e.p)
    <3> DEFINE st == e.state
               ip == e.ip
               hw == e.hw
               ct == e.ctime
               p == e.p
    <3>1. e = Entry(st, ip, hw, ct, p)
      BY <1>1
    <3> HIDE DEF st, ip, hw, ct, p
    <3>2. [e EXCEPT !.ctime = ct + 1] = Entry(st, ip, hw, ct + 1, p)
      BY <3>1 DEF Entry
    <3>3. QED BY <3>2 DEF st, ip, hw, ct, p
  <2>3. QED BY <2>1, <2>2 DEF Aged
<1>3. PICK c \in Nat : a = Entry(e.state, e.ip, e.hw, c, e.p)
  BY <1>1, <1>2
<1> HIDE DEF a
<1>4. [a EXCEPT !.state = "EMPTY", !.p = NoPacket] = Entry("EMPTY", e.ip, e.hw, c, NoPacket)
  <2>1. [a EXCEPT !.state = "EMPTY", !.p = NoPacket] = [b EXCEPT !.p = NoPacket]
    OBVIOUS
  <2>2. b = Entry("EMPTY", e.ip, e.hw, c, e.p)
    BY <1>3 DEF Entry
  <2> HIDE DEF b
  <2>3. QED BY <2>1, <2>2 DEF Entry
<1>5. f = a \/ f = Entry("EMPTY", e.ip, e.hw, c, NoPacket)
  BY <1>4 DEF Cleaned
<1> HIDE DEF f
<1>6. Goal
  BY <1>1, <1>3, <1>5, EntryIs DEF States
<1>7. QED BY <1>6 DEF f, a

LEMMA TimerKeeps ==
    ASSUME NEW m, Good(m, 0)
    PROVE  LET r == etharp_tmr(m) IN Good(r, 0) /\ Keeps(m, r)
<1> DEFINE t == [i \in Slots |-> Cleaned(Aged(m.table[i]))]
           r == etharp_tmr(m)
<1>1. r = [m EXCEPT !.table = t]
  BY DEF etharp_tmr, Cleaned, Aged
<1>2. \A i \in Slots :
          /\ IsEntry(t[i]) /\ t[i].ip = m.table[i].ip
          /\ \/ t[i].state = m.table[i].state /\ t[i].p = m.table[i].p
             \/ t[i].state = "EMPTY" /\ t[i].p = NoPacket
  BY AgedIs DEF Good, IsInterface
<1>3. t = [i \in Slots |-> t[i]]
  OBVIOUS
<1> HIDE DEF t, r
<1>4. IsInterface(r) /\ r.table = t /\ r.out = m.out /\ r.up = m.up /\ r.dhcp = m.dhcp
  BY <1>1, <1>2, <1>3 DEF Good, IsInterface
<1>5. Distinct(r)
  BY <1>2, <1>4 DEF Distinct, Good
<1>6. Waiting(r, 0)
  BY <1>2, <1>4 DEF Waiting, MayWait, Good
<1>7. Keeps(m, r)
  BY <1>2, <1>4 DEF Keeps
<1>8. QED BY <1>4, <1>5, <1>6, <1>7 DEF Good, r

----------------------------------------------------------------------------
(* The steps.  A call's frames leave, and the cache stays as it left it.   *)
LEMMA Transmitted ==
    ASSUME NEW m, NEW x, Good(m, x), IsSeq(tx), Transmit(m)
    PROVE  /\ Good(n', x) /\ n'.table = m.table /\ n'.out = <<>>
           /\ n'.up = m.up /\ n'.dhcp = m.dhcp
           /\ IsSeq(tx') /\ ToSet(tx) \subseteq ToSet(tx')
           /\ link.up => ToSet(m.out) \subseteq ToSet(tx')
<1>1. IsInterface(m)
  BY DEF Good
<1>2. IsSeq(<<>>)
  BY NothingIn
<1>3. /\ IsInterface(n') /\ n'.table = m.table /\ n'.out = <<>>
      /\ n'.up = m.up /\ n'.dhcp = m.dhcp
  BY <1>1, <1>2 DEF Transmit, IsInterface
<1>4. Good(n', x)
  BY <1>3 DEF Good, Distinct, Waiting
<1>5. /\ IsSeq(tx') /\ ToSet(tx) \subseteq ToSet(tx')
      /\ link.up => ToSet(m.out) \subseteq ToSet(tx')
  <2>1. CASE link.up
    <3>1. tx' = tx \o m.out
      BY <2>1 DEF Transmit
    <3>2. QED BY <1>1, <3>1, JoinUnites DEF IsInterface
  <2>2. CASE ~link.up
    BY <2>2 DEF Transmit
  <2>3. QED BY <2>1, <2>2
<1>6. QED BY <1>3, <1>4, <1>5

(* What the invariant says of all but the packet that etharp_query holds,  *)
(* the cable and the client. *)
Tables ==
    /\ scene \in Scenarios
    /\ MacInv /\ CacheInv /\ WiresInv
    /\ mishaps = {} => AnswersInv

Settled(m) ==
    \A i \in Slots : m.table[i].state = "PENDING" =>
        n.table[i].state = "PENDING" /\ m.table[i].ip = n.table[i].ip

LEMMA TcpipKeeps ==
    ASSUME LanInv, NEW m, Serves(n, At, m), Transmit(m), UNCHANGED <<scene, mac, rx>>,
           mishaps' = {} => mishaps = {} /\ (link.up \/ Settled(m))
    PROVE  Tables'
<1>1. Good(m, At) /\ Asks(n, m) /\ IsSeq(tx) /\ scene' \in Scenarios
  BY DEF Serves, LanInv, WiresInv
<1>2. /\ Good(n', At) /\ n'.table = m.table /\ n'.out = <<>>
      /\ IsSeq(tx') /\ ToSet(tx) \subseteq ToSet(tx')
      /\ link.up => ToSet(m.out) \subseteq ToSet(tx')
  BY <1>1, Transmitted
<1>3. At' = At
  BY DEF At
<1>4. CacheInv'
  BY <1>2, <1>3 DEF CacheInv
<1>5. WiresInv'
  BY <1>2 DEF LanInv, WiresInv, Hosts
<1>6. MacInv'
  <2>1. Reserved(n, mac.i) /\ mac.i \in Slots => Reserved(n', mac.i)
    <3>1. Reserved(n, mac.i) /\ mac.i \in Slots => Reserved(m, mac.i)
      BY <1>1 DEF Asks
    <3>2. QED BY <1>2, <3>1 DEF Reserved
  <2>2. QED BY <2>1 DEF LanInv, MacInv, Busy
<1>7. ASSUME mishaps' = {} PROVE AnswersInv'
  <2>1. SUFFICES ASSUME NEW i \in Slots, m.table[i].state = "PENDING",
                        m.table[i].ip \in Range(scene.hosts)
                 PROVE  OnItsWay(m.table[i].ip)' \/ (mac.pc = "found" /\ mac.i = i)
    BY <1>2 DEF AnswersInv
  <2> DEFINE a == m.table[i].ip
  <2>2. OnItsWay(a) => OnItsWay(a)'
    BY <1>2 DEF OnItsWay, Hosts
  <2>3. CASE n.table[i].state = "PENDING" /\ a = n.table[i].ip
    <3>1. OnItsWay(a) \/ (mac.pc = "found" /\ mac.i = i)
      BY <1>7, <2>1, <2>3 DEF LanInv, AnswersInv
    <3>2. QED BY <2>2, <3>1
  <2>4. CASE ~(n.table[i].state = "PENDING" /\ a = n.table[i].ip)
    <3>1. link.up /\ Requested(m, a)
      BY <1>1, <1>7, <2>1, <2>4 DEF Asks, Settled
    <3>2. OnItsWay(a)'
      BY <1>2, <3>1 DEF Requested, OnItsWay
    <3>3. QED BY <3>2
  <2>5. QED BY <2>3, <2>4
<1>8. QED BY <1>1, <1>4, <1>5, <1>6, <1>7 DEF Tables

(* The driver's task lets everything wait that it does not answer.         *)
LEMMA DriverKeeps ==
    ASSUME LanInv, NEW m, Good(m, At'), Settled(m), Transmit(m), UNCHANGED <<scene, link, query, rx>>,
           MacInv', mishaps' = {} => mishaps = {},
           mishaps = {} /\ ~link.up => m.up = n.up /\ m.dhcp = n.dhcp,
           \A i \in Slots : m.table[i].state = "PENDING" => ~(mac.pc = "found" /\ mac.i = i)
    PROVE  LanInv'
<1>1. /\ Good(n', At') /\ n'.table = m.table /\ n'.out = <<>>
      /\ n'.up = m.up /\ n'.dhcp = m.dhcp
      /\ IsSeq(tx') /\ ToSet(tx) \subseteq ToSet(tx')
  <2> DEFINE x == At'
  <2>1. Good(m, x) /\ IsSeq(tx)
    BY DEF LanInv, WiresInv
  <2> HIDE DEF x
  <2>2. /\ Good(n', x) /\ n'.table = m.table /\ n'.out = <<>>
        /\ n'.up = m.up /\ n'.dhcp = m.dhcp
        /\ IsSeq(tx') /\ ToSet(tx) \subseteq ToSet(tx')
    BY <2>1, Transmitted
  <2>3. QED BY <2>2 DEF x
<1>2. CacheInv'
  BY <1>1 DEF CacheInv
<1>3. WiresInv'
  BY <1>1 DEF LanInv, WiresInv, Hosts
<1>4. QueryInv'
  BY <1>1 DEF QueryInv, LanInv, Settled
<1>5. ASSUME mishaps' = {} PROVE AnswersInv' /\ LinkInv'
  <2>1. ASSUME NEW i \in Slots, m.table[i].state = "PENDING",
               m.table[i].ip \in Range(scene.hosts)
        PROVE  OnItsWay(m.table[i].ip)'
    <3> DEFINE a == m.table[i].ip
    <3>1. n.table[i].state = "PENDING" /\ a = n.table[i].ip
      BY <2>1 DEF Settled
    <3>2. OnItsWay(a)
      BY <1>5, <2>1, <3>1 DEF LanInv, AnswersInv
    <3>3. OnItsWay(a) => OnItsWay(a)'
      BY <1>1 DEF OnItsWay, Hosts
    <3>4. QED BY <3>2, <3>3
  <2>2. AnswersInv'
    BY <1>1, <2>1 DEF AnswersInv
  <2>3. LinkInv'
    BY <1>1, <1>5 DEF LanInv, LinkInv
  <2>4. QED BY <2>2, <2>3
<1>6. QED BY <1>2, <1>3, <1>4, <1>5 DEF LanInv

(* A frame is taken off the wire. *)
LEMMA FrameTaken ==
    ASSUME WiresInv, NEW h \in Hosts, rx[h] # <<>>, rx' = [rx EXCEPT ![h] = Tail(@)], scene' = scene
    PROVE  /\ rx' = [k \in Hosts |-> rx'[k]] /\ \A k \in Hosts : IsSeq(rx'[k])
           /\ \A k \in Hosts : \A f \in ToSet(rx[k]) :
                  f \in ToSet(rx'[k]) \/ (k = h /\ f = Head(rx[h]))
<1>1. rx'[h] = Tail(rx[h]) /\ \A k \in Hosts \ {h} : rx'[k] = rx[k]
  BY DEF WiresInv
<1>2. IsSeq(rx[h])
  BY DEF WiresInv
<1>3. IsSeq(Tail(rx[h])) /\ ToSet(rx[h]) \subseteq ToSet(Tail(rx[h])) \cup {Head(rx[h])}
  BY <1>2, TailLeaves
<1>4. rx' = [k \in Hosts |-> rx'[k]]
  BY DEF WiresInv
<1>5. QED BY <1>1, <1>3, <1>4 DEF WiresInv

LEMMA PassesStep ==
    ASSUME LanInv, NEW h \in Hosts, MacPasses(h)
    PROVE  LanInv'
<1> DEFINE f == Head(rx[h])
           m == IF scene.trust THEN etharp_ip_input(n, f) ELSE n
<1>1. /\ mac = Idle /\ mac' = mac /\ rx[h] # <<>> /\ f.type = "ip" /\ Transmit(m)
      /\ rx' = [rx EXCEPT ![h] = Tail(@)]
      /\ UNCHANGED <<scene, query, link, mishaps>>
  BY DEF MacPasses
<1>2. At = 0 /\ At' = 0
  BY <1>1 DEF At, Idle, Busy
<1>3. Good(n, 0) /\ WiresInv
  BY <1>2 DEF LanInv, CacheInv
<1>4. Good(m, 0) /\ Keeps(n, m)
  <2>1. Keeps(n, n)
    BY DEF Keeps
  <2>2. etharp_ip_input(n, f) = n \/ etharp_ip_input(n, f) = update_arp_entry(n, f.p.sip, f.src, FALSE)
    BY DEF etharp_ip_input
  <2>3. Good(etharp_ip_input(n, f), 0) /\ Keeps(n, etharp_ip_input(n, f))
    BY <1>3, <2>1, <2>2, UpdateKeeps
  <2>4. QED BY <1>3, <2>1, <2>3
<1> HIDE DEF m
<1>5. /\ Good(n', 0) /\ n'.table = m.table /\ n'.out = <<>>
      /\ n'.up = n.up /\ n'.dhcp = n.dhcp
      /\ IsSeq(tx') /\ ToSet(tx) \subseteq ToSet(tx')
  BY <1>1, <1>3, <1>4, Transmitted DEF WiresInv, Keeps
<1>6. MacInv'
  BY <1>1 DEF MacInv
<1>7. CacheInv'
  BY <1>2, <1>5 DEF CacheInv
<1>8. /\ rx' = [k \in Hosts |-> rx'[k]] /\ \A k \in Hosts : IsSeq(rx'[k])
      /\ \A k \in Hosts : \A g \in ToSet(rx[k]) :
             g \in ToSet(rx'[k]) \/ (k = h /\ g = f)
  BY <1>1, <1>3, FrameTaken
<1>9. WiresInv'
  BY <1>1, <1>5, <1>8 DEF WiresInv, Hosts
<1>10. QueryInv'
  BY <1>1, <1>4, <1>5 DEF QueryInv, LanInv, Keeps
<1>11. ASSUME mishaps = {} PROVE AnswersInv' /\ LinkInv'
  <2>1. ASSUME NEW a \in Range(scene.hosts), NEW i \in Slots,
               m.table[i].state = "PENDING", m.table[i].ip = a
        PROVE  OnItsWay(a)'
    <3>1. n.table[i].state = "PENDING" /\ a = n.table[i].ip
      BY <1>4, <2>1 DEF Keeps
    <3>2. OnItsWay(a)
      BY <1>1, <1>11, <2>1, <3>1 DEF LanInv, AnswersInv, Idle
    <3>3. ~IsAnswer(f, a)
      BY <1>1 DEF IsAnswer
    <3> HIDE DEF f
    <3>4. OnItsWay(a)'
      BY <1>1, <1>5, <1>8, <3>2, <3>3 DEF OnItsWay, Hosts
    <3>5. QED BY <3>4
  <2>2. AnswersInv'
    BY <1>1, <1>5, <2>1 DEF AnswersInv
  <2>3. LinkInv'
    BY <1>1, <1>5, <1>11 DEF LanInv, LinkInv
  <2>4. QED BY <2>2, <2>3
<1>12. scene' \in Scenarios
  BY <1>1 DEF LanInv
<1>13. QED BY <1>1, <1>6, <1>7, <1>9, <1>10, <1>11, <1>12 DEF LanInv

LEMMA FindsStep ==
    ASSUME LanInv, NEW h \in Hosts, MacFinds(h)
    PROVE  LanInv'
<1> DEFINE f == Head(rx[h])
           found == find_entry(n, f.sip, ForUs(n, f))
           hit == IsUnicast(f.sip) /\ found.i # 0
<1>1. /\ mac = Idle /\ rx[h] # <<>> /\ f.type = "arp"
      /\ IF hit THEN n' = found.n /\ mac' = [pc |-> "found", f |-> f, i |-> found.i]
         ELSE n' = n /\ mac' = [pc |-> "updated", f |-> f, i |-> 0]
      /\ rx' = [rx EXCEPT ![h] = Tail(@)]
      /\ UNCHANGED <<scene, query, link, tx, mishaps>>
  BY DEF MacFinds
<1>2. At = 0
  BY <1>1 DEF At, Idle, Busy
<1>3. Good(n, 0) /\ WiresInv /\ n.out = <<>>
  BY <1>2 DEF LanInv, CacheInv
<1>4. found.i # 0 => found.i \in Slots /\ Good(found.n, found.i) /\ Reserved(found.n, found.i)
                     /\ Keeps(n, found.n)
  BY <1>3, FindKeeps DEF ForUs
<1>14. found.n.out = n.out \/ found.i = 0
  <2>1. found.i # 0 => \/ Found(n, found.i, f.sip, found.n)
                       \/ found.i \in Slots /\ Taken(n, found.i, f.sip, 0, found.n)
    BY <1>3, FindIs DEF ForUs
  <2> HIDE DEF found
  <2>2. ASSUME found.i \in Slots, Taken(n, found.i, f.sip, 0, found.n) PROVE found.n.out = n.out
    <3>1. PICK hw, p : found.n = Put(n, found.i, Entry("EMPTY", f.sip, hw, 0, p))
      BY <2>2 DEF Taken
    <3> DEFINE e == Entry("EMPTY", f.sip, hw, 0, p)
    <3>2. IsEntry(e)
      BY EntryIs DEF States
    <3> HIDE DEF e
    <3>3. QED BY <1>3, <2>2, <3>1, <3>2, PutIs DEF Good, e
  <2>3. QED BY <2>1, <2>2 DEF Found
<1> HIDE DEF found
<1>5. Keeps(n, n') /\ n'.out = n.out
  <2>1. Keeps(n, n)
    BY DEF Keeps
  <2>2. QED BY <1>1, <1>4, <1>14, <2>1
<1>6. MacInv' /\ CacheInv'
  <2>1. CASE hit
    <3>1. mac' = [pc |-> "found", f |-> f, i |-> found.i] /\ n' = found.n
      BY <1>1, <2>1
    <3> HIDE DEF f
    <3>2. At' = found.i
      BY <3>1 DEF At, Busy
    <3>3. QED BY <1>3, <1>4, <1>5, <2>1, <3>1, <3>2 DEF MacInv, CacheInv, Busy
  <2>2. CASE ~hit
    <3>1. mac' = [pc |-> "updated", f |-> f, i |-> 0] /\ n' = n
      BY <1>1, <2>2
    <3> HIDE DEF f
    <3>2. At' = 0
      BY <3>1 DEF At, Busy
    <3>3. QED BY <1>3, <3>1, <3>2 DEF MacInv, CacheInv, Busy
  <2>3. QED BY <2>1, <2>2
<1>8. /\ rx' = [k \in Hosts |-> rx'[k]] /\ \A k \in Hosts : IsSeq(rx'[k])
      /\ \A k \in Hosts : \A g \in ToSet(rx[k]) :
             g \in ToSet(rx'[k]) \/ (k = h /\ g = f)
  BY <1>1, <1>3, FrameTaken
<1>9. WiresInv'
  BY <1>1, <1>3, <1>8 DEF WiresInv, Hosts
<1>10. QueryInv'
  BY <1>1, <1>5 DEF QueryInv, LanInv, Keeps
<1>11. ASSUME mishaps = {} PROVE AnswersInv' /\ LinkInv'
  <2>1. ASSUME NEW a \in Range(scene.hosts), NEW i \in Slots,
               n'.table[i].state = "PENDING", n'.table[i].ip = a
        PROVE  OnItsWay(a)' \/ (mac'.pc = "found" /\ mac'.i = i)
    <3>1. n.table[i].state = "PENDING" /\ a = n.table[i].ip
      BY <1>5, <2>1 DEF Keeps
    <3>2. OnItsWay(a)
      BY <1>1, <1>11, <2>1, <3>1 DEF LanInv, AnswersInv, Idle
    <3>3. CASE a = f.sip
      <4>1. IsUnicast(f.sip)
        BY <2>1, <3>3, LanAssumption DEF Range, LanInv
      <4>2. found.i = i
        <5>1. ForUs(n, f) \in BOOLEAN
          BY DEF ForUs
        <5> DEFINE ip == f.sip
                   hard == ForUs(n, f)
        <5>2. n.table[i].ip = ip /\ n.table[i].state # "EMPTY"
          BY <3>1, <3>3
        <5> HIDE DEF ip, hard
        <5>3. find_entry(n, ip, hard).i = i
          BY <1>3, <5>1, <5>2, FindMatches DEF hard
        <5>4. QED BY <5>3 DEF ip, hard, found
      <4>3. i # 0
        BY DEF Slots
      <4>4. mac' = [pc |-> "found", f |-> f, i |-> found.i]
        BY <1>1, <4>1, <4>2, <4>3
      <4>5. QED BY <4>2, <4>4
    <3>4. CASE a # f.sip
      <4>1. ~IsAnswer(f, a)
        BY <3>4 DEF IsAnswer
      <4> HIDE DEF f
      <4>2. OnItsWay(a)'
        BY <1>1, <1>8, <3>2, <4>1 DEF OnItsWay, Hosts
      <4>3. QED BY <4>2
    <3>5. QED BY <3>3, <3>4
  <2>2. AnswersInv'
    BY <1>1, <2>1 DEF AnswersInv
  <2>3. LinkInv'
    BY <1>1, <1>5, <1>11 DEF LanInv, LinkInv, Keeps
  <2>4. QED BY <2>2, <2>3
<1>12. scene' \in Scenarios
  BY <1>1 DEF LanInv
<1>13. QED BY <1>1, <1>6, <1>9, <1>10, <1>11, <1>12 DEF LanInv

LEMMA UpdatesStep ==
    ASSUME LanInv, MacMarks \/ MacWrites \/ MacSends
    PROVE  LanInv'
<1>1. Settled(n) /\ At = IF mac.pc \in Busy THEN mac.i ELSE 0
  BY DEF Settled, At
<1>2. ASSUME NEW from \in Busy, NEW to, NEW m, MacUpdates(from, to, m),
             Good(m, IF to \in Busy THEN mac.i ELSE 0), Keeps(n, m),
             to \in (Busy \ {"found"}) \cup {"updated"},
             from = "found" => m.table[mac.i].state = "STABLE"
      PROVE  LanInv'
  <2>1. /\ mac.pc = from /\ mac' = [mac EXCEPT !.pc = to] /\ Transmit(m)
        /\ UNCHANGED <<scene, link, query, rx>> /\ mishaps' = mishaps
    BY <1>2 DEF MacUpdates
  <2>2. mac = [pc |-> mac.pc, f |-> mac.f, i |-> mac.i] /\ mac.i \in Slots
    BY <1>2, <2>1 DEF LanInv, MacInv, Idle, Busy
  <2>3. mac' = [pc |-> to, f |-> mac.f, i |-> mac.i]
    <3> DEFINE f == mac.f
               i == mac.i
               pc == mac.pc
    <3>1. mac = [pc |-> pc, f |-> f, i |-> i]
      BY <2>2
    <3> HIDE DEF f, i, pc
    <3>2. mac' = [pc |-> to, f |-> f, i |-> i]
      BY <2>1, <3>1
    <3>3. QED BY <3>2 DEF f, i
  <2>4. MacInv'
    BY <1>2, <2>2, <2>3 DEF MacInv, Busy
  <2>5. Good(m, At')
    BY <1>2, <2>3 DEF At
  <2>6. Settled(m) /\ m.up = n.up /\ m.dhcp = n.dhcp
    BY <1>2 DEF Settled, Keeps
  <2>7. ASSUME NEW i \in Slots, m.table[i].state = "PENDING"
        PROVE  ~(mac.pc = "found" /\ mac.i = i)
    BY <1>2, <2>1, <2>7
  <2>8. QED BY <2>1, <2>4, <2>5, <2>6, <2>7, DriverKeeps
<1>3. mac.pc \in Busy => mac.i \in Slots /\ Good(n, mac.i)
  BY DEF LanInv, MacInv, CacheInv, At, Idle, Busy
<1>4. CASE MacMarks
  <2> DEFINE m == MarkStable(n, mac.i)
  <2>1. mac.pc = "found" /\ MacUpdates("found", "marked", m)
    BY <1>4 DEF MacMarks, MacUpdates
  <2>2. Reserved(n, mac.i)
    BY <2>1 DEF LanInv, MacInv, Idle
  <2>3. Good(m, mac.i) /\ Keeps(n, m) /\ m.table[mac.i].state = "STABLE"
    BY <1>3, <2>1, <2>2, MarkKeeps DEF Busy
  <2> HIDE DEF m
  <2>4. QED BY <1>2, <2>1, <2>3 DEF Busy
<1>5. CASE MacWrites
  <2> DEFINE m == WriteAddress(n, mac.i, mac.f.src)
  <2>1. mac.pc = "marked" /\ MacUpdates("marked", "written", m)
    BY <1>5 DEF MacWrites, MacUpdates
  <2>2. Good(m, mac.i) /\ Keeps(n, m)
    BY <1>3, <2>1, WriteKeeps DEF Busy
  <2> HIDE DEF m
  <2>3. QED BY <1>2, <2>1, <2>2 DEF Busy
<1>6. CASE MacSends
  <2> DEFINE m == SendQueued(n, mac.i, mac.f.src)
  <2>1. mac.pc = "written" /\ MacUpdates("written", "updated", m)
    BY <1>6 DEF MacSends, MacUpdates
  <2>2. Good(m, 0) /\ Keeps(n, m)
    BY <1>3, <2>1, SendQueuedKeeps DEF Busy
  <2> HIDE DEF m
  <2>3. QED BY <1>2, <2>1, <2>2 DEF Busy
<1>7. QED BY <1>4, <1>5, <1>6

LEMMA AnswersStep ==
    ASSUME LanInv, MacAnswers
    PROVE  LanInv'
<1> DEFINE f == mac.f
           a == ArpAnswer(n, f)
           d == dhcp_arp_reply(a, f.sip)
           m == IF f.op = "reply" /\ n.ip = ANY THEN d ELSE a
<1>1. /\ mac.pc = "updated" /\ mac' = Idle /\ Transmit(m)
      /\ UNCHANGED <<scene, link, query, rx>> /\ mishaps' = mishaps
  BY DEF MacAnswers
<1>2. At = 0 /\ At' = 0 /\ MacInv'
  BY <1>1 DEF At, Idle, Busy, MacInv
<1>3. Good(n, 0)
  BY <1>2 DEF LanInv, CacheInv
<1>4. Good(a, 0) /\ a.table = n.table /\ a.dhcp = n.dhcp /\ a.up = n.up
  <2>1. a = n \/ a = Send(n, ArpFrame("reply", Dev, f.src, n.ip, f.sip))
    BY DEF ArpAnswer
  <2> HIDE DEF a
  <2>2. QED BY <1>3, <2>1, SendServes, SendIs DEF Serves, Good
<1> HIDE DEF a
<1>5. Good(d, 0) /\ d.table = a.table /\ (a.dhcp = NoDhcp => d = a)
  BY <1>4, DeclineIs DEF Serves
<1> HIDE DEF d
<1>6. Good(m, 0) /\ m.table = n.table /\ (n.dhcp = NoDhcp => m.up = n.up /\ m.dhcp = n.dhcp)
  BY <1>4, <1>5
<1> HIDE DEF m, f
<1>7. Settled(m)
  BY <1>6 DEF Settled
<1>8. mishaps = {} /\ ~link.up => m.up = n.up /\ m.dhcp = n.dhcp
  BY <1>6 DEF LanInv, LinkInv
<1>9. QED BY <1>1, <1>2, <1>6, <1>7, <1>8, DriverKeeps

LEMMA LinkStep ==
    ASSUME LanInv, MacSeesLink
    PROVE  LanInv'
<1>1. mac = Idle /\ ~link.start /\ ~link.stop /\ UNCHANGED <<scene, n, mac, query>>
  BY DEF MacSeesLink
<1>2. MacInv' /\ QueryInv' /\ CacheInv' /\ scene' \in Scenarios
  <2>1. At' = At
    BY <1>1 DEF At
  <2>2. QED BY <1>1, <2>1 DEF LanInv, MacInv, QueryInv, CacheInv
<1>3. CASE ~link.up /\ link' = [link EXCEPT !.up = TRUE, !.start = TRUE] /\ UNCHANGED <<rx, tx, faults, mishaps>>
  <2>1. WiresInv'
    BY <1>1, <1>3 DEF LanInv, WiresInv, Hosts
  <2>2. ASSUME mishaps = {} PROVE LinkInv'
    <3>1. link = [up |-> link.up, start |-> link.start, stop |-> link.stop]
      BY <2>2 DEF LanInv, LinkInv
    <3>4. link' = [up |-> TRUE, start |-> TRUE, stop |-> link.stop]
      <4> DEFINE u == link.up
                 s == link.start
                 t == link.stop
                 yes == TRUE
                 l1 == [link EXCEPT !.up = yes]
                 l2 == [l1 EXCEPT !.start = yes]
      <4>1. link' = l2
        BY <1>3
      <4>2. link = [up |-> u, start |-> s, stop |-> t]
        BY <3>1
      <4> HIDE DEF u, s, t, yes
      <4>3. l1 = [up |-> yes, start |-> s, stop |-> t]
        BY <4>2
      <4> HIDE DEF l1
      <4>4. l2 = [up |-> yes, start |-> yes, stop |-> t]
        BY <4>3
      <4>5. QED BY <4>1, <4>4 DEF t, yes
    <3>3. QED BY <1>1, <3>4 DEF LinkInv
  <2>3. ASSUME mishaps = {} PROVE AnswersInv'
    <3>1. \A a : OnItsWay(a)' <=> OnItsWay(a)
      BY <1>1, <1>3 DEF OnItsWay, Hosts
    <3>2. QED BY <1>1, <2>3, <3>1 DEF LanInv, AnswersInv, OnItsWay, Hosts
  <2>4. QED BY <1>2, <1>3, <2>1, <2>2, <2>3 DEF LanInv
<1>4. CASE rx' = [h \in Hosts |-> <<>>] /\ tx' = <<>> /\ Mishap("lost")
  <2>1. WiresInv'
    <3>1. IsSeq(<<>>)
      BY NothingIn
    <3>2. Hosts' = Hosts
      BY <1>1 DEF Hosts
    <3>3. QED BY <1>4, <3>1, <3>2 DEF WiresInv
  <2>2. mishaps' # {}
    BY <1>4 DEF Mishap
  <2>3. QED BY <1>2, <2>1, <2>2 DEF LanInv
<1>5. QED BY <1>3, <1>4 DEF MacSeesLink

----------------------------------------------------------------------------
(* The tcpip thread.  What a call does when there is no cable is of no     *)
(* account: no call is made. *)
Untouched(m) == Settled(m) /\ m.up = n.up /\ m.dhcp = n.dhcp

LEMMA TcpipStep ==
    ASSUME LanInv, NEW m, Serves(n, At, m), Transmit(m), UNCHANGED <<scene, mac, rx, query>>,
           query = NoQuery,
           mishaps' = {} =>
               /\ mishaps = {} /\ ~link'.stop
               /\ link' = [up |-> link.up, start |-> link'.start, stop |-> link'.stop]
               /\ link.up \/ (link' = link /\ Untouched(m))
    PROVE  LanInv'
<1>1. Tables'
  BY TcpipKeeps DEF Untouched
<1>2. QueryInv'
  BY DEF QueryInv
<1>3. ASSUME mishaps' = {} PROVE LinkInv'
  <2>1. CASE link.up
    BY <1>3, <2>1 DEF LinkInv
  <2>2. CASE ~link.up
    <3>1. /\ n'.up = m.up /\ n'.dhcp = m.dhcp
      BY Transmitted DEF Serves, LanInv, WiresInv
    <3>2. QED BY <1>3, <2>2, <3>1 DEF LinkInv, LanInv, Untouched
  <2>3. QED BY <2>1, <2>2
<1>4. QED BY <1>1, <1>2, <1>3 DEF LanInv, Tables

LEMMA Untouching == Untouched(n) /\ (LanInv => Serves(n, At, n))
BY BesideServes DEF Untouched, Settled, LanInv, CacheInv, Good, Beside

LEMMA CallStep ==
    ASSUME LanInv, TcpipTakes \/ TcpipStarts \/ TcpipStops \/ RequestTimeout \/ Minute
    PROVE  LanInv'
<1>1. Good(n, At)
  BY DEF LanInv, CacheInv
<1>2. mishaps = {} => /\ link = [up |-> link.up, start |-> link.start, stop |-> link.stop]
                      /\ ~link.stop
                      /\ ~link.up => n.dhcp = NoDhcp /\ ~link.start
  BY DEF LanInv, LinkInv
<1>3. CASE TcpipTakes
  <2> DEFINE r == dhcp_recv(n, Head(mbox).msg)
             m == IF n.dhcp # NoDhcp /\ Head(mbox).kind = "dhcp" THEN r ELSE n
  <2>1. /\ query = NoQuery /\ Transmit(m) /\ UNCHANGED <<scene, mac, rx, query>>
        /\ UNCHANGED <<link, mishaps>>
    BY <1>3 DEF TcpipTakes, Tcpip, TcpipMayRun, outside
  <2>2. Serves(n, At, r)
    BY <1>1, ReceiveServes
  <2> HIDE DEF r
  <2>3. Serves(n, At, m) /\ (n.dhcp = NoDhcp => Untouched(m))
    BY <2>2, Untouching
  <2> HIDE DEF m
  <2>4. QED BY <1>2, <2>1, <2>3, TcpipStep
<1>4. CASE TcpipStarts
  <2> DEFINE m == dhcp_start(n)
  <2>1. /\ query = NoQuery /\ Transmit(m) /\ UNCHANGED <<scene, mac, rx, query>>
        /\ link' = [link EXCEPT !.start = FALSE] /\ mishaps' = mishaps
        /\ link.start /\ ~link.stop
    BY <1>4 DEF TcpipStarts, Tcpip, TcpipMayRun, outside
  <2>2. Serves(n, At, m)
    BY <1>1, StartServes
  <2> HIDE DEF m
  <2>3. mishaps = {} => /\ link.up /\ ~link'.stop
                        /\ link' = [up |-> link.up, start |-> link'.start, stop |-> link'.stop]
    <3>1. SUFFICES ASSUME mishaps = {}
                   PROVE  link.up /\ link' = [up |-> link.up, start |-> FALSE, stop |-> link.stop]
      BY <2>1
    <3> DEFINE u == link.up
               s == link.start
               t == link.stop
    <3>2. link = [up |-> u, start |-> s, stop |-> t]
      BY <1>2, <3>1
    <3> HIDE DEF u, s, t
    <3>3. link' = [up |-> u, start |-> FALSE, stop |-> t]
      BY <2>1, <3>2
    <3>4. QED BY <1>2, <2>1, <3>1, <3>3 DEF u, t
  <2>4. QED BY <2>1, <2>2, <2>3, TcpipStep
<1>5. CASE TcpipStops
  <2> DEFINE m == dhcp_stop(dhcp_release(n))
  <2>1. /\ query = NoQuery /\ Transmit(m) /\ UNCHANGED <<scene, mac, rx, query>>
        /\ mishaps' = mishaps /\ link.stop
    BY <1>5 DEF TcpipStops, Tcpip, TcpipMayRun, outside
  <2>2. Serves(n, At, m)
    BY <1>1, StartServes
  <2> HIDE DEF m
  <2>3. mishaps' # {}
    BY <1>2, <2>1
  <2>4. QED BY <2>1, <2>2, <2>3, TcpipStep
<1>6. CASE RequestTimeout
  <2> DEFINE m == dhcp_timeout(n)
  <2>1. /\ query = NoQuery /\ Transmit(m) /\ UNCHANGED <<scene, mac, rx, query>>
        /\ link' = link /\ (mishaps' = {} => mishaps = {}) /\ n.dhcp # NoDhcp
    BY <1>6 DEF RequestTimeout, Tcpip, TcpipMayRun, outside, Mishap
  <2>2. Serves(n, At, m)
    BY <1>1, TimeoutServes
  <2> HIDE DEF m
  <2>3. QED BY <1>2, <2>1, <2>2, TcpipStep
<1>7. CASE Minute
  <2> DEFINE m == CoarseTick(n)
  <2>1. /\ query = NoQuery /\ Transmit(m) /\ UNCHANGED <<scene, mac, rx, query>>
        /\ link' = link /\ mishaps' = mishaps
    BY <1>7 DEF Minute, TcpipMayRun
  <2>2. Serves(n, At, m)
    BY <1>1, CoarseServes
  <2>3. n.dhcp = NoDhcp => Untouched(m)
    <3>1. SUFFICES ASSUME n.dhcp = NoDhcp PROVE Untouched(m)
      OBVIOUS
    <3>2. dhcp_coarse_tmr(n) = n
      BY <3>1 DEF dhcp_coarse_tmr
    <3>3. m = [n EXCEPT !.coarse = @ - 1] \/ m = [n EXCEPT !.coarse = Next_coarse(n)]
      BY <3>2 DEF CoarseTick
    <3> HIDE DEF m
    <3>4. m.table = n.table /\ m.up = n.up /\ m.dhcp = n.dhcp
      BY <1>1, <3>3 DEF Good, IsInterface
    <3>5. QED BY <3>4 DEF Untouched, Settled
  <2> HIDE DEF m
  <2>4. QED BY <1>2, <2>1, <2>2, <2>3, TcpipStep
<1>8. QED BY <1>3, <1>4, <1>5, <1>6, <1>7

LEMMA SendStep ==
    ASSUME LanInv, NEW dip, Send1(dip)
    PROVE  LanInv'
<1> DEFINE p == [sip |-> n.ip, dip |-> dip, kind |-> "data", id |-> toSend[dip]]
           hop == NextHop(n, p)
           found == find_entry(n, hop, TRUE)
           r == Asked(found.n, found.i, hop, p)
           o == etharp_output(n, p)
           waits == IsUnicast(dip) /\ hop # ANY
<1>1. /\ n.up /\ query = NoQuery /\ UNCHANGED <<scene, mac, rx, link, mishaps>>
      /\ IF waits THEN Transmit(r) /\ query' = [i |-> found.i, p |-> p]
         ELSE Transmit(o) /\ query' = query
  BY DEF Send1, Tcpip, TcpipMayRun, outside
<1>2. Good(n, At)
  BY DEF LanInv, CacheInv
<1>3. mishaps = {} => link.up /\ LinkInv
  BY <1>1 DEF LanInv, LinkInv
<1>4. CASE ~waits
  <2>1. Serves(n, At, o)
    BY <1>2, OutputServes
  <2> HIDE DEF o, waits
  <2>2. QED BY <1>1, <1>3, <1>4, <2>1, TcpipStep DEF LinkInv
<1>5. CASE waits
  <2>1. found.i \in Slots /\ Serves(n, At, r) /\ r.table[found.i].ip = hop
    BY <1>2, AskServes
  <2>2. p.dip \in {hop} \cup Outside
    BY DEF NextHop, IsLocal
  <2> HIDE DEF hop, found, r, waits, p
  <2>3. Transmit(r) /\ query' = [i |-> found.i, p |-> p]
    BY <1>1, <1>5
  <2>4. Tables'
    BY <1>1, <1>3, <2>1, <2>3, TcpipKeeps
  <2>5. n'.table = r.table
    BY <2>1, <2>3, Transmitted DEF Serves, LanInv, WiresInv
  <2>6. QueryInv'
    BY <2>1, <2>2, <2>3, <2>5 DEF QueryInv
  <2>7. mishaps' = {} => LinkInv'
    BY <1>1, <1>3 DEF LinkInv
  <2>8. QED BY <2>4, <2>6, <2>7 DEF LanInv, Tables
<1>6. QED BY <1>4, <1>5

LEMMA PassStep ==
    ASSUME LanInv, Send2
    PROVE  LanInv'
<1> DEFINE m == Passed(n, query.i, query.p)
<1>1. query # NoQuery /\ query' = NoQuery /\ Transmit(m) /\ UNCHANGED <<scene, mac, rx, link, mishaps>>
  BY DEF Send2, outside
<1>2. Good(n, At)
  BY DEF LanInv, CacheInv
<1>3. mishaps = {} => link.up /\ LinkInv
  BY <1>1 DEF LanInv, LinkInv
<1>4. Serves(n, At, m)
  <2>1. /\ query.i \in Slots
        /\ n.table[query.i].state = "PENDING" => query.p.dip \in {n.table[query.i].ip} \cup Outside
    BY <1>1 DEF LanInv, QueryInv
  <2>2. QED BY <1>2, <2>1, PassServes
<1> HIDE DEF m
<1>5. Tables'
  BY <1>1, <1>3, <1>4, TcpipKeeps
<1>6. mishaps' = {} => LinkInv'
  BY <1>1, <1>3 DEF LinkInv
<1>7. QED BY <1>1, <1>5, <1>6 DEF LanInv, Tables, QueryInv

LEMMA TimerStep ==
    ASSUME LanInv, ArpTimer
    PROVE  LanInv'
<1> DEFINE m == etharp_tmr(n)
<1>1. /\ scene.aged /\ Transmit(m) /\ UNCHANGED <<scene, mac, rx, query, link>>
      /\ mac = Idle \/ scene.preempt
      /\ mishaps' = {} => mishaps = {}
  BY DEF ArpTimer, Tcpip, TcpipMayRun, outside
<1>2. mac = Idle
  BY <1>1, LanAssumption DEF LanInv
<1>3. At = 0 /\ At' = 0 /\ MacInv'
  BY <1>1, <1>2 DEF At, Idle, Busy, MacInv
<1>4. Good(m, 0) /\ Keeps(n, m)
  BY <1>3, TimerKeeps DEF LanInv, CacheInv
<1> HIDE DEF m
<1>5. Settled(m) /\ m.up = n.up /\ m.dhcp = n.dhcp
  BY <1>4 DEF Keeps, Settled
<1>6. QED BY <1>1, <1>2, <1>3, <1>4, <1>5, DriverKeeps DEF Idle

----------------------------------------------------------------------------
(* The others. *)
LEMMA OneFrame ==
    ASSUME NEW f
    PROVE  IsSeq(<<f>>) /\ ToSet(<<f>>) = {f}
<1>1. <<f>> \in Seq({f})
  OBVIOUS
<1>2. IsSeq(<<f>>)
  BY <1>1, AnySeq
<1>3. DOMAIN <<f>> = {1} /\ <<f>>[1] = f
  OBVIOUS
<1>4. QED BY <1>2, <1>3 DEF ToSet

LEMMA NetStep ==
    ASSUME LanInv, NetTakes
    PROVE  LanInv'
<1> DEFINE f == Head(tx)
           none == [book |-> book, out |-> <<>>]
           served == IF serving /\ f.type = "ip" /\ scene.server \in Hosts /\ Heard(scene.server, f)
                        /\ f.p.kind = "dhcp"
                     THEN Serve(f.p.msg) ELSE [book |-> book, out |-> <<>>]
           arp(h) == IF Heard(h, f) THEN ArpReaction(h, f) ELSE <<>>
           mail(h) == IF h = scene.server THEN served.out ELSE <<>>
           back(h) == arp(h) \o mail(h)
<1>1. /\ tx # <<>> /\ tx' = Tail(tx) /\ rx' = [h \in Hosts |-> rx[h] \o back(h)]
      /\ UNCHANGED <<scene, n, mac, query, link, mishaps>>
  BY DEF NetTakes
<1>2. IsSeq(served.out)
  <2>1. served.out = <<>> \/ \E a : served.out = <<a>>
    <3>1. ASSUME NEW m, NEW a PROVE Grant(m, a).out = <<>> \/ \E b : Grant(m, a).out = <<b>>
      BY DEF Grant
    <3>2. ASSUME NEW m PROVE Serve(m).out = <<>> \/ \E b : Serve(m).out = <<b>>
      BY <3>1 DEF Serve
    <3>3. QED BY <3>2
  <2> HIDE DEF served
  <2>2. QED BY <2>1, NothingIn, OneFrame
<1>3. \A h \in Hosts : arp(h) = <<>> \/ \E b : arp(h) = <<b>>
  BY DEF ArpReaction
<1> HIDE DEF served, arp
<1>4. \A h \in Hosts : IsSeq(arp(h)) /\ IsSeq(mail(h))
  BY <1>2, <1>3, NothingIn, OneFrame
<1> HIDE DEF mail
<1>5. \A h \in Hosts : IsSeq(back(h)) /\ ToSet(back(h)) = ToSet(arp(h)) \cup ToSet(mail(h))
  BY <1>4, JoinUnites
<1> HIDE DEF back
<1>6. \A h \in Hosts : /\ IsSeq(rx'[h]) /\ ToSet(rx'[h]) = ToSet(rx[h]) \cup ToSet(back(h))
  BY <1>1, <1>5, JoinUnites DEF LanInv, WiresInv
<1>7. IsSeq(tx') /\ ToSet(tx) \subseteq ToSet(tx') \cup {f}
  BY <1>1, TailLeaves DEF LanInv, WiresInv
<1>8. WiresInv'
  BY <1>1, <1>6, <1>7 DEF WiresInv, Hosts
<1>9. MacInv' /\ QueryInv' /\ CacheInv' /\ scene' \in Scenarios
  <2>1. At' = At
    BY <1>1 DEF At
  <2>2. QED BY <1>1, <2>1 DEF LanInv, MacInv, QueryInv, CacheInv
<1>10. ASSUME mishaps' = {} PROVE AnswersInv' /\ LinkInv'
  <2>1. ASSUME NEW a \in Range(scene.hosts), OnItsWay(a) PROVE OnItsWay(a)'
    <3>1. CASE \E h \in Hosts : \E g \in ToSet(rx[h]) : IsAnswer(g, a)
      BY <1>1, <1>6, <3>1 DEF OnItsWay, Hosts
    <3>2. CASE \E g \in ToSet(tx') : IsRequest(g, a)
      BY <3>2 DEF OnItsWay
    <3>3. CASE IsRequest(f, a)
      <4>1. PICK h \in Hosts : a = Holder(h)
        BY DEF Range, Hosts, Holder
      <4> DEFINE g == ArpFrame("reply", h, f.src, a, f.sip)
      <4>2. arp(h) = <<g>>
        BY <3>3, <4>1 DEF arp, ArpReaction, Heard, IsRequest
      <4>3. IsAnswer(g, a)
        BY DEF IsAnswer, ArpFrame
      <4> HIDE DEF g
      <4>4. g \in ToSet(rx'[h])
        BY <1>5, <1>6, <4>2, OneFrame
      <4>5. QED BY <1>1, <4>3, <4>4 DEF OnItsWay, Hosts
    <3>4. QED BY <1>7, <2>1, <3>1, <3>2, <3>3 DEF OnItsWay
  <2>2. AnswersInv'
    <3>1. mishaps = {}
      BY <1>1, <1>10
    <3>2. ASSUME NEW a \in Range(scene.hosts), NEW i \in Slots, n.table[i].state = "PENDING",
                 n.table[i].ip = a
          PROVE  OnItsWay(a)' \/ (mac.pc = "found" /\ mac.i = i)
      BY <2>1, <3>1, <3>2 DEF LanInv, AnswersInv
    <3>3. QED BY <1>1, <3>2 DEF AnswersInv
  <2>3. LinkInv'
    BY <1>1, <1>10 DEF LanInv, LinkInv
  <2>4. QED BY <2>2, <2>3
<1>11. QED BY <1>8, <1>9, <1>10 DEF LanInv

(* Where the device stands still, frames may come and, by a mishap, go.    *)
LEMMA OutsideStep ==
    ASSUME LanInv, UNCHANGED <<scene, n, mac, query, link>>, WiresInv',
           mishaps' = {} => /\ mishaps = {} /\ tx' = tx
                            /\ \A h \in Hosts : ToSet(rx[h]) \subseteq ToSet(rx'[h])
    PROVE  LanInv'
<1>1. MacInv' /\ QueryInv' /\ CacheInv' /\ scene' \in Scenarios
  <2>1. At' = At
    BY DEF At
  <2>2. QED BY <2>1 DEF LanInv, MacInv, QueryInv, CacheInv
<1>2. ASSUME mishaps' = {} PROVE AnswersInv' /\ LinkInv'
  <2>1. ASSUME NEW a PROVE OnItsWay(a) => OnItsWay(a)'
    BY <1>2 DEF OnItsWay, Hosts
  <2>2. ASSUME NEW a \in Range(scene.hosts), NEW i \in Slots, n.table[i].state = "PENDING",
               n.table[i].ip = a
        PROVE  OnItsWay(a)' \/ (mac.pc = "found" /\ mac.i = i)
    BY <1>2, <2>1, <2>2 DEF LanInv, AnswersInv
  <2>3. AnswersInv'
    BY <2>2 DEF AnswersInv
  <2>4. LinkInv'
    BY <1>2 DEF LanInv, LinkInv
  <2>5. QED BY <2>3, <2>4
<1>3. QED BY <1>1, <1>2 DEF LanInv

LEMMA OthersStep ==
    ASSUME LanInv,
           \/ LoseOut \/ ServerLeaves \/ ServerReturns \/ UNCHANGED vars
           \/ \E h \in Hosts : LoseIn(h) \/ \E dip \in {n.ip} \cup Range(scene.hosts) : HostAsks(h, dip)
    PROVE  LanInv'
<1>1. WiresInv
  BY DEF LanInv
<1>2. CASE ServerLeaves \/ ServerReturns \/ UNCHANGED vars
  <2>1. UNCHANGED <<scene, n, mac, query, link, rx, tx>> /\ (mishaps' = {} => mishaps = {})
    BY <1>2 DEF ServerLeaves, ServerReturns, vars, Mishap
  <2>2. WiresInv'
    BY <1>1, <2>1 DEF WiresInv, Hosts
  <2>3. QED BY <2>1, <2>2, OutsideStep
<1>3. CASE LoseOut
  <2>1. /\ UNCHANGED <<scene, n, mac, query, link, rx>> /\ mishaps' # {}
        /\ tx # <<>> /\ tx' = Tail(tx)
    BY <1>3 DEF LoseOut, Mishap
  <2>2. WiresInv'
    BY <1>1, <2>1, TailLeaves DEF WiresInv, Hosts
  <2>3. QED BY <2>1, <2>2, OutsideStep
<1>4. ASSUME NEW h \in Hosts, LoseIn(h) PROVE LanInv'
  <2>1. /\ UNCHANGED <<scene, n, mac, query, link, tx>> /\ mishaps' # {}
        /\ rx[h] # <<>> /\ rx' = [rx EXCEPT ![h] = Tail(@)]
    BY <1>4 DEF LoseIn, Mishap
  <2>2. rx' = [k \in Hosts |-> rx'[k]] /\ \A k \in Hosts : IsSeq(rx'[k])
    BY <1>1, <2>1, FrameTaken
  <2>3. WiresInv'
    BY <1>1, <2>1, <2>2 DEF WiresInv, Hosts
  <2>4. QED BY <2>1, <2>3, OutsideStep
<1>5. ASSUME NEW h \in Hosts, NEW dip, HostAsks(h, dip) PROVE LanInv'
  <2> DEFINE f == ArpFrame("request", h, Bcast, Holder(h), dip)
  <2>1. /\ UNCHANGED <<scene, n, mac, query, link, tx, mishaps>>
        /\ rx' = [rx EXCEPT ![h] = Append(@, f)]
    BY <1>5 DEF HostAsks
  <2> HIDE DEF f
  <2>2. rx'[h] = Append(rx[h], f) /\ \A k \in Hosts \ {h} : rx'[k] = rx[k]
    BY <1>1, <2>1 DEF WiresInv
  <2>3. IsSeq(rx'[h]) /\ ToSet(rx[h]) \subseteq ToSet(rx'[h])
    BY <1>1, <2>2, AppendAdds DEF WiresInv
  <2>4. rx' = [k \in Hosts |-> rx'[k]]
    BY <1>1, <2>1 DEF WiresInv
  <2>5. WiresInv'
    BY <1>1, <2>1, <2>2, <2>3, <2>4 DEF WiresInv, Hosts
  <2>6. \A k \in Hosts : ToSet(rx[k]) \subseteq ToSet(rx'[k])
    BY <2>2, <2>3
  <2>7. QED BY <2>1, <2>5, <2>6, OutsideStep
<1>6. QED BY <1>2, <1>3, <1>4, <1>5

----------------------------------------------------------------------------
LEMMA LanInit == Init => LanInv
<1>1. SUFFICES ASSUME Init PROVE LanInv
  OBVIOUS
<1> DEFINE first == [ip |-> scene.ip, gw |-> scene.gw, up |-> scene.ip # ANY, table |-> etharp_init,
                     out |-> <<>>, dhcp |-> NoDhcp, xid |-> 0, coarse |-> 1]
<1>2. IsEntry(EmptyEntry) /\ EmptyEntry.state = "EMPTY" /\ EmptyEntry.p = NoPacket
  BY DEF IsEntry, EmptyEntry, States
<1>3. n = first
  BY <1>1 DEF Init
<1>4. etharp_init = [i \in Slots |-> etharp_init[i]] /\ \A i \in Slots : etharp_init[i] = EmptyEntry
  BY DEF etharp_init
<1>5. /\ DOMAIN n = {"ip", "gw", "up", "table", "out", "dhcp", "xid", "coarse"}
      /\ n.table = etharp_init /\ n.out = <<>> /\ n.dhcp = NoDhcp /\ n.up = (scene.ip # ANY)
  BY <1>3
<1>6. IsSeq(<<>>)
  BY NothingIn
<1>7. IsInterface(n)
  BY <1>2, <1>4, <1>5, <1>6 DEF IsInterface
<1>8. Good(n, 0)
  BY <1>2, <1>4, <1>5, <1>7 DEF Good, Distinct, Waiting
<1>9. mac = Idle /\ At = 0
  BY <1>1 DEF Init, At, Idle, Busy
<1>10. MacInv /\ QueryInv /\ CacheInv
  BY <1>1, <1>5, <1>8, <1>9 DEF Init, MacInv, QueryInv, CacheInv
<1>11. WiresInv
  BY <1>1, <1>6 DEF Init, WiresInv, Hosts
<1>12. AnswersInv
  BY <1>2, <1>4, <1>5 DEF AnswersInv
<1>13. LinkInv
  BY <1>1, <1>5 DEF Init, LinkInv
<1>14. QED BY <1>1, <1>10, <1>11, <1>12, <1>13 DEF Init, LanInv

LEMMA LanStep == LanInv /\ [Next]_vars => LanInv'
<1>1. SUFFICES ASSUME LanInv, [Next]_vars PROVE LanInv'
  OBVIOUS
<1>2. CASE MacNext
  BY <1>1, <1>2, PassesStep, FindsStep, UpdatesStep, AnswersStep DEF MacNext, ethernet_input
<1>3. CASE MacSeesLink
  BY <1>1, <1>3, LinkStep
<1>4. CASE TcpipNext
  BY <1>1, <1>4, CallStep, PassStep DEF TcpipNext
<1>5. CASE \E dip \in DOMAIN toSend : Send1(dip)
  BY <1>1, <1>5, SendStep
<1>6. CASE ArpTimer \/ Minute
  BY <1>1, <1>6, TimerStep, CallStep
<1>7. CASE NetTakes
  BY <1>1, <1>7, NetStep
<1>8. CASE \/ LoseOut \/ ServerLeaves \/ ServerReturns \/ UNCHANGED vars
           \/ \E h \in Hosts :
                  LoseIn(h) \/ \E dip \in {n.ip} \cup Range(scene.hosts) : HostAsks(h, dip)
  BY <1>1, <1>8, OthersStep
<1>9. QED BY <1>1, <1>2, <1>3, <1>4, <1>5, <1>6, <1>7, <1>8 DEF Next

(* The invariant says that the cache is sound: between two frames of the   *)
(* driver no slot is exempt, and where all is quiet no answer is on its    *)
(* way.                                                                    *)
LEMMA LanInvMeans == LanInv => CacheIsSound
<1>1. SUFFICES ASSUME LanInv PROVE TableIsSound /\ NothingLeftWaiting
  BY DEF CacheIsSound
<1>2. mac = Idle => Good(n, 0)
  BY <1>1 DEF LanInv, CacheInv, At, Idle, Busy
<1>3. 0 \notin Slots
  BY DEF Slots
<1>4. TableIsSound
  BY <1>2, <1>3 DEF TableIsSound, Good, Distinct, Waiting, MayWait
<1>5. NothingLeftWaiting
  <2>1. SUFFICES ASSUME Silent, mishaps = {}, NEW i \in Slots,
                        n.table[i].ip \in Range(scene.hosts), n.table[i].p # NoPacket
                 PROVE  FALSE
    BY DEF NothingLeftWaiting
  <2>2. /\ mac = Idle /\ tx = <<>> /\ \A h \in Hosts : rx[h] = <<>>
    BY <2>1 DEF Silent
  <2>3. n.table[i].state = "PENDING"
    BY <1>2, <1>3, <2>1, <2>2 DEF Good, Waiting, MayWait
  <2>4. OnItsWay(n.table[i].ip)
    BY <1>1, <2>1, <2>2, <2>3 DEF LanInv, AnswersInv, Idle
  <2>5. ToSet(tx) = {} /\ \A h \in Hosts : ToSet(rx[h]) = {}
    BY <2>2, NothingIn
  <2>6. QED BY <2>4, <2>5 DEF OnItsWay
<1>6. QED BY <1>4, <1>5

(* In every scenario, whatever is lost, however the driver's task and the  *)
(* tcpip thread interleave in find_entry, update_arp_entry and             *)
(* etharp_query, and whoever's entry is recycled: no address has two       *)
(* entries, what is queued waits for its own address or the gateway's, and *)
(* if nothing went wrong nothing is left waiting for a host that is there. *)
THEOREM CacheStaysSound == Spec => []CacheIsSound
<1>1. LanInv /\ [Next]_vars => LanInv'
  BY LanStep
<1>2. QED BY LanInit, <1>1, LanInvMeans, PTL DEF Spec
=============================================================================
