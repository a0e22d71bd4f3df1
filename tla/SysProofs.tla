------------------------------ MODULE SysProofs ------------------------------
(***************************************************************************)
(* Proofs about what the protocols stand on, part by part: the pool of     *)
(* semaphores and the driver of the Ethernet, which are the port's, the    *)
(* timeouts of core/sys.c, and the interfaces of core/netif.c.             *)
(***************************************************************************)
EXTENDS SemPool, Mac, Timeouts, Netif, FiniteSetTheorems, SequenceTheorems, WellFoundedInduction, TLAPS

----------------------------------------------------------------------------
(* The pool of semaphores, for any set of mailboxes and signals.  An item  *)
(* that is in use is a semaphore of one object, and how many an object has *)
(* follows from where it is in its life.                                   *)

Items == [count : Nat, length : Nat, fUsed : BOOLEAN]

(* A semaphore is an item that is in use, and not that of the heap. *)
IsItem(i) == i \in 2 .. Len(items) /\ items[i].fUsed

PoolInv ==
    /\ items \in Seq(Items) /\ Len(items) >= 1 /\ items[1].fUsed
    /\ sems \in [Objects -> Seq(Nat)]
    /\ phase \in [Objects -> {"absent", "making", "live", "freeing"}]
    /\ \A o \in Objects :
          /\ Len(sems[o]) <= Len(Asks(o))
          /\ phase[o] = "absent" => Len(sems[o]) = 0
          /\ phase[o] = "making" => Len(sems[o]) < Len(Asks(o))
          /\ phase[o] = "live" => Len(sems[o]) = Len(Asks(o))
          /\ phase[o] = "freeing" => Len(sems[o]) >= 1

(* Whose the items are. *)
OwnerInv ==
    /\ \A o \in Objects : \A k \in 1 .. Len(sems[o]) : IsItem(sems[o][k])
    /\ \A o, p \in Objects : \A k \in 1 .. Len(sems[o]), j \in 1 .. Len(sems[p]) :
          sems[o][k] = sems[p][j] => o = p /\ k = j
    /\ \A i \in 2 .. Len(items) : items[i].fUsed =>
          \E o \in Objects : \E k \in 1 .. Len(sems[o]) : sems[o][k] = i

PeakInv == peak \in Nat /\ Len(items) <= peak

----------------------------------------------------------------------------
(* What an object asks for. *)
LEMMA AskTypes ==
    ASSUME NEW o \in Objects
    PROVE  /\ Len(Asks(o)) \in {1, 3} /\ Len(Asks(o)) = IF o \in Mailboxes THEN 3 ELSE 1
           /\ \A k \in 1 .. Len(Asks(o)) : Item(Asks(o)[k]) \in Items /\ Item(Asks(o)[k]).fUsed
<1>1. CASE o \in Mailboxes
  <2>1. Asks(o) = <<Ask(0, SYS_MBOX_SIZE), Ask(SYS_MBOX_SIZE, SYS_MBOX_SIZE), Ask(1, 1)>>
    BY <1>1, SemPoolAssumption DEF Asks
  <2>2. Len(Asks(o)) = 3 /\ \A k \in 1 .. 3 :
           \/ Asks(o)[k] = Ask(0, SYS_MBOX_SIZE) \/ Asks(o)[k] = Ask(1, 1)
           \/ Asks(o)[k] = Ask(SYS_MBOX_SIZE, SYS_MBOX_SIZE)
    BY <2>1
  <2>3. QED BY <1>1, <2>2, SemPoolAssumption DEF Ask, Item, Items
<1>2. CASE o \notin Mailboxes
  <2>1. Asks(o) = <<Ask(0, 1)>>
    BY <1>2, SemPoolAssumption DEF Asks, Objects
  <2>2. Len(Asks(o)) = 1 /\ Asks(o)[1] = Ask(0, 1)
    BY <2>1
  <2>3. QED BY <1>2, <2>2 DEF Ask, Item, Items
<1>3. QED BY <1>1, <1>2

(* Where an item is unused, one is the first. *)
LEMMA SomeFirst ==
    ASSUME NEW l \in Seq(Items), NEW i \in 1 .. Len(l), ~l[i].fUsed
    PROVE  \E j \in 1 .. Len(l) : FirstUnused(l, j)
<1> DEFINE T == {j \in 1 .. Len(l) : ~l[j].fUsed}
<1>1. T \subseteq Nat /\ T # {}
  OBVIOUS
<1>2. PICK j \in T : \A k \in T : ~(<<k, j>> \in OpToRel(<, Nat))
  BY <1>1, NatLessThanWellFounded, WFMin
<1>3. \A k \in T : ~(k < j)
  BY <1>1, <1>2 DEF OpToRel
<1>4. FirstUnused(l, j)
  BY <1>3 DEF FirstUnused
<1>5. QED BY <1>4

(* How many items are in use. *)
LEMMA UsedCount ==
    ASSUME NEW l \in Seq(Items)
    PROVE  /\ Cardinality(UsedIn(l)) \in Nat
           /\ (\A i \in 1 .. Len(l) : l[i].fUsed) => Cardinality(UsedIn(l)) = Len(l)
<1>1. UsedIn(l) \subseteq 1 .. Len(l) /\ Len(l) \in Nat
  BY DEF UsedIn
<1>2. IsFiniteSet(1 .. Len(l)) /\ Cardinality(1 .. Len(l)) = Len(l)
  <2>1. 1 \in Int /\ Len(l) \in Int /\ Len(l) >= 0
    BY <1>1
  <2>2. QED BY <2>1, FS_Interval
<1>3. Cardinality(UsedIn(l)) \in Nat
  BY <1>1, <1>2, FS_Subset, FS_CardinalityType
<1>4. ASSUME \A i \in 1 .. Len(l) : l[i].fUsed PROVE UsedIn(l) = 1 .. Len(l)
  BY <1>4 DEF UsedIn
<1>5. QED BY <1>2, <1>3, <1>4

----------------------------------------------------------------------------
(* The three parts hold at the start: the heap's semaphore is the only one. *)
LEMMA SemPoolStarts ==
    SemPoolInit => PoolInv /\ OwnerInv /\ PeakInv
<1> SUFFICES ASSUME SemPoolInit PROVE PoolInv /\ OwnerInv /\ PeakInv
  OBVIOUS
<1>1. Len(items) = 1 /\ items[1].fUsed /\ items \in Seq(Items)
  <2>1. Item(Ask(1, 1)) \in Items /\ Item(Ask(1, 1)).fUsed
    BY DEF Item, Ask, Items
  <2>2. QED BY <2>1 DEF SemPoolInit
<1>2. \A o \in Objects : sems[o] = <<>> /\ Len(sems[o]) = 0 /\ phase[o] = "absent"
  BY DEF SemPoolInit
<1>3. sems \in [Objects -> Seq(Nat)]
  BY DEF SemPoolInit
<1>4. phase \in [Objects -> {"absent", "making", "live", "freeing"}]
  BY DEF SemPoolInit
<1>5. \A o \in Objects : Len(Asks(o)) \in {1, 3}
  BY AskTypes
<1>6. PoolInv
  <2>1. \A o \in Objects : Len(sems[o]) <= Len(Asks(o))
    BY <1>2, <1>5
  <2>2. QED BY <1>1, <1>2, <1>3, <1>4, <2>1 DEF PoolInv
<1>7. OwnerInv
  BY <1>1, <1>2 DEF OwnerInv
<1>8. PeakInv
  BY <1>1 DEF PeakInv, SemPoolInit
<1>9. QED BY <1>6, <1>7, <1>8

(* A step that changes no item's fUsed and nobody's semaphores. *)
LEMMA SameOwners ==
    ASSUME PoolInv, OwnerInv, sems' = sems, Len(items') = Len(items),
           \A i \in 1 .. Len(items) : items'[i].fUsed = items[i].fUsed
    PROVE  OwnerInv'
<1>1. \A i : IsItem(i) => IsItem(i)'
  BY DEF IsItem, PoolInv
<1>2. \A i \in 2 .. Len(items') : i \in 1 .. Len(items) /\ i \in 2 .. Len(items)
  BY DEF PoolInv
<1>3. (\A o \in Objects : \A k \in 1 .. Len(sems[o]) : IsItem(sems[o][k]))'
  BY <1>1 DEF OwnerInv
<1>4. (\A i \in 2 .. Len(items) : items[i].fUsed =>
          \E o \in Objects : \E k \in 1 .. Len(sems[o]) : sems[o][k] = i)'
  BY <1>2 DEF OwnerInv
<1>5. QED BY <1>3, <1>4 DEF OwnerInv

(* A semaphore is made: of an item that was nobody's, and one that is then *)
(* in use. *)
LEMMA OneMoreOwner ==
    ASSUME PoolInv, OwnerInv, NEW o \in Objects, NEW i \in 2 .. Len(items'),
           sems' = [sems EXCEPT ![o] = Append(@, i)],
           Len(items') \in Nat, Len(items') >= Len(items), items'[i].fUsed, ~IsItem(i),
           \A j \in 1 .. Len(items') : j # i =>
               j \in 1 .. Len(items) /\ items'[j].fUsed = items[j].fUsed
    PROVE  OwnerInv'
<1>1. /\ sems' \in [Objects -> Seq(Nat)] /\ sems'[o] = Append(sems[o], i)
      /\ \A p \in Objects \ {o} : sems'[p] = sems[p]
  BY DEF PoolInv
<1>2. /\ sems[o] \in Seq(Nat) /\ Len(sems'[o]) = Len(sems[o]) + 1
      /\ sems'[o][Len(sems[o]) + 1] = i
      /\ \A k \in 1 .. Len(sems[o]) : sems'[o][k] = sems[o][k]
  BY <1>1 DEF PoolInv
<1>3. \A p \in Objects : \A k \in 1 .. Len(sems'[p]) :
         \/ p = o /\ k = Len(sems[o]) + 1 /\ sems'[p][k] = i
         \/ k \in 1 .. Len(sems[p]) /\ sems'[p][k] = sems[p][k]
  <2> SUFFICES ASSUME NEW p \in Objects, NEW k \in 1 .. Len(sems'[p])
               PROVE  \/ p = o /\ k = Len(sems[o]) + 1 /\ sems'[p][k] = i
                      \/ k \in 1 .. Len(sems[p]) /\ sems'[p][k] = sems[p][k]
    OBVIOUS
  <2>1. CASE p = o BY <2>1, <1>2
  <2>2. CASE p # o BY <2>2, <1>1
  <2>3. QED BY <2>1, <2>2
<1>4. \A p \in Objects : \A k \in 1 .. Len(sems[p]) :
         /\ sems[p][k] # i /\ IsItem(sems[p][k])
         /\ k \in 1 .. Len(sems'[p]) /\ sems'[p][k] = sems[p][k]
  <2> SUFFICES ASSUME NEW p \in Objects, NEW k \in 1 .. Len(sems[p])
               PROVE  /\ sems[p][k] # i /\ IsItem(sems[p][k])
                      /\ k \in 1 .. Len(sems'[p]) /\ sems'[p][k] = sems[p][k]
    OBVIOUS
  <2>1. IsItem(sems[p][k]) /\ sems[p][k] # i
    BY DEF OwnerInv
  <2>2. CASE p = o BY <2>1, <2>2, <1>2
  <2>3. CASE p # o BY <2>1, <2>3, <1>1
  <2>4. QED BY <2>2, <2>3
<1>5. IsItem(i)' /\ \A j : IsItem(j) => IsItem(j)'
  BY DEF IsItem, PoolInv
<1>6. (\A p \in Objects : \A k \in 1 .. Len(sems[p]) : IsItem(sems[p][k]))'
  BY <1>3, <1>4, <1>5
<1>7. (\A p, q \in Objects : \A k \in 1 .. Len(sems[p]), j \in 1 .. Len(sems[q]) :
          sems[p][k] = sems[q][j] => p = q /\ k = j)'
  <2> SUFFICES ASSUME NEW p \in Objects, NEW q \in Objects,
                      NEW k \in 1 .. Len(sems'[p]), NEW j \in 1 .. Len(sems'[q]),
                      sems'[p][k] = sems'[q][j]
               PROVE  p = q /\ k = j
    OBVIOUS
  <2>1. /\ \/ p = o /\ k = Len(sems[o]) + 1 /\ sems'[p][k] = i
           \/ k \in 1 .. Len(sems[p]) /\ sems'[p][k] = sems[p][k]
        /\ \/ q = o /\ j = Len(sems[o]) + 1 /\ sems'[q][j] = i
           \/ j \in 1 .. Len(sems[q]) /\ sems'[q][j] = sems[q][j]
    BY <1>3
  <2>2. /\ k \in 1 .. Len(sems[p]) => sems[p][k] # i
        /\ j \in 1 .. Len(sems[q]) => sems[q][j] # i
    BY <1>4
  <2>3. \A a \in 1 .. Len(sems[p]), b \in 1 .. Len(sems[q]) :
           sems[p][a] = sems[q][b] => p = q /\ a = b
    BY DEF OwnerInv
  <2>4. QED BY <2>1, <2>2, <2>3
<1>8. (\A j \in 2 .. Len(items) : items[j].fUsed =>
          \E p \in Objects : \E k \in 1 .. Len(sems[p]) : sems[p][k] = j)'
  <2> SUFFICES ASSUME NEW j \in 2 .. Len(items'), items'[j].fUsed
               PROVE  \E p \in Objects : \E k \in 1 .. Len(sems'[p]) : sems'[p][k] = j
    OBVIOUS
  <2>1. CASE j = i
    <3>1. Len(sems[o]) + 1 \in 1 .. Len(sems'[o])
      BY <1>2
    <3>2. QED BY <2>1, <3>1, <1>2
  <2>2. CASE j # i
    <3>1. j \in 2 .. Len(items) /\ items[j].fUsed
      BY <2>2
    <3>2. PICK p \in Objects : \E k \in 1 .. Len(sems[p]) : sems[p][k] = j
      BY <3>1 DEF OwnerInv
    <3>3. QED BY <3>2, <1>4
  <2>3. QED BY <2>1, <2>2
<1>9. QED BY <1>6, <1>7, <1>8 DEF OwnerInv

(* A semaphore is freed: the first of an object, and its item with it. *)
LEMMA OneLessOwner ==
    ASSUME PoolInv, OwnerInv, NEW o \in Objects, Len(sems[o]) >= 1,
           sems' = [sems EXCEPT ![o] = Tail(@)],
           Len(items') = Len(items), ~items'[sems[o][1]].fUsed,
           \A j \in 1 .. Len(items) : j # sems[o][1] => items'[j].fUsed = items[j].fUsed
    PROVE  OwnerInv'
<1>1. /\ sems[o] \in Seq(Nat) /\ sems[o] # <<>> /\ 1 \in 1 .. Len(sems[o])
      /\ sems'[o] = Tail(sems[o])
      /\ \A p \in Objects \ {o} : sems'[p] = sems[p]
  BY DEF PoolInv
<1>2. /\ Len(sems'[o]) = Len(sems[o]) - 1
      /\ \A k \in 1 .. Len(sems'[o]) : sems'[o][k] = sems[o][k + 1]
  <2> DEFINE s == sems[o]
  <2>1. s \in Seq(Nat) /\ s # <<>> /\ sems'[o] = Tail(s)
    BY <1>1
  <2> HIDE DEF s
  <2>2. Len(Tail(s)) = Len(s) - 1 /\ \A k \in 1 .. Len(Tail(s)) : Tail(s)[k] = s[k + 1]
    BY <2>1
  <2>3. QED BY <2>1, <2>2 DEF s
<1> DEFINE at(p, k) == IF p = o THEN k + 1 ELSE k
<1>3. \A p \in Objects : \A k \in 1 .. Len(sems'[p]) :
         at(p, k) \in 1 .. Len(sems[p]) /\ sems'[p][k] = sems[p][at(p, k)]
  <2> SUFFICES ASSUME NEW p \in Objects, NEW k \in 1 .. Len(sems'[p])
               PROVE  at(p, k) \in 1 .. Len(sems[p]) /\ sems'[p][k] = sems[p][at(p, k)]
    OBVIOUS
  <2>1. CASE p = o BY <2>1, <1>1, <1>2
  <2>2. CASE p # o BY <2>2, <1>1
  <2>3. QED BY <2>1, <2>2
<1>4. \A p \in Objects : \A k \in 1 .. Len(sems'[p]) : sems'[p][k] # sems[o][1]
  <2> SUFFICES ASSUME NEW p \in Objects, NEW k \in 1 .. Len(sems'[p]),
                      sems'[p][k] = sems[o][1]
               PROVE  FALSE
    OBVIOUS
  <2>1. at(p, k) \in 1 .. Len(sems[p]) /\ sems[p][at(p, k)] = sems[o][1]
    BY <1>3
  <2>2. p = o /\ at(p, k) = 1
    BY <1>1, <2>1 DEF OwnerInv
  <2>3. QED BY <2>2
<1>5. \A j : IsItem(j) /\ j # sems[o][1] => IsItem(j)'
  BY DEF IsItem, PoolInv
<1>6. (\A p \in Objects : \A k \in 1 .. Len(sems[p]) : IsItem(sems[p][k]))'
  <2> SUFFICES ASSUME NEW p \in Objects, NEW k \in 1 .. Len(sems'[p])
               PROVE  IsItem(sems[p][k])'
    OBVIOUS
  <2>1. IsItem(sems'[p][k])
    BY <1>3 DEF OwnerInv
  <2>2. QED BY <2>1, <1>4, <1>5 DEF IsItem
<1>7. (\A p, q \in Objects : \A k \in 1 .. Len(sems[p]), j \in 1 .. Len(sems[q]) :
          sems[p][k] = sems[q][j] => p = q /\ k = j)'
  <2> SUFFICES ASSUME NEW p \in Objects, NEW q \in Objects,
                      NEW k \in 1 .. Len(sems'[p]), NEW j \in 1 .. Len(sems'[q]),
                      sems'[p][k] = sems'[q][j]
               PROVE  p = q /\ k = j
    OBVIOUS
  <2>1. p = q /\ at(p, k) = at(q, j)
    BY <1>3 DEF OwnerInv
  <2>2. QED BY <2>1
<1>8. (\A j \in 2 .. Len(items) : items[j].fUsed =>
          \E p \in Objects : \E k \in 1 .. Len(sems[p]) : sems[p][k] = j)'
  <2> SUFFICES ASSUME NEW j \in 2 .. Len(items'), items'[j].fUsed
               PROVE  \E p \in Objects : \E k \in 1 .. Len(sems'[p]) : sems'[p][k] = j
    OBVIOUS
  <2>1. j # sems[o][1] /\ j \in 2 .. Len(items) /\ items[j].fUsed
    BY DEF PoolInv
  <2>2. PICK p \in Objects : \E k \in 1 .. Len(sems[p]) : sems[p][k] = j
    BY <2>1 DEF OwnerInv
  <2>3. PICK k \in 1 .. Len(sems[p]) : sems[p][k] = j
    BY <2>2
  <2>4. CASE p # o
    BY <2>3, <2>4, <1>1
  <2>5. CASE p = o
    <3>1. k # 1 /\ k - 1 \in 1 .. Len(sems'[o]) /\ sems'[o][k - 1] = sems[o][(k - 1) + 1]
      BY <2>1, <2>3, <2>5, <1>1, <1>2
    <3>2. (k - 1) + 1 = k
      OBVIOUS
    <3>3. QED BY <2>3, <2>5, <3>1, <3>2
  <2>6. QED BY <2>4, <2>5
<1>9. QED BY <1>6, <1>7, <1>8 DEF OwnerInv

----------------------------------------------------------------------------
(* Where a semaphore is made, its item is either the first unused one or a *)
(* new one at the end; only then is every other item in use. *)
LEMMA WhatIsMade ==
    ASSUME PoolInv, NEW o \in Objects, NEW ask, Item(ask) \in Items, Item(ask).fUsed,
           sys_sem_new_m(o, ask)
    PROVE  \E i \in 2 .. Len(items') :
              /\ sems' = [sems EXCEPT ![o] = Append(@, i)]
              /\ items' \in Seq(Items) /\ ~IsItem(i) /\ items'[i].fUsed
              /\ \/ i \in 1 .. Len(items) /\ Len(items') = Len(items)
                 \/ /\ i = Len(items) + 1 /\ Len(items') = i
                    /\ \A j \in 1 .. Len(items') : items'[j].fUsed
              /\ \A j \in 1 .. Len(items') : j # i =>
                    j \in 1 .. Len(items) /\ items'[j].fUsed = items[j].fUsed
<1>0. items \in Seq(Items) /\ Len(items) \in Nat /\ Len(items) >= 1 /\ items[1].fUsed
      /\ DOMAIN items = 1 .. Len(items)
  BY DEF PoolInv
<1>1. CASE \E i \in DOMAIN items : FirstUnused(items, i)
  <2>1. PICK i \in 1 .. Len(items) :
            /\ FirstUnused(items, i) /\ items' = TakeUnused(items, i, ask)
            /\ sems' = [sems EXCEPT ![o] = Append(@, i)]
    BY <1>0, <1>1 DEF sys_sem_new_m
  <2>2. i # 1 /\ ~items[i].fUsed
    BY <1>0, <2>1 DEF FirstUnused
  <2> DEFINE r == IF items[i].length = ask.length
                  THEN Item(ask) ELSE [items[i] EXCEPT !.fUsed = TRUE]
  <2>3. r \in Items /\ r.fUsed
    <3>1. items[i] \in Items
      BY <1>0
    <3>2. QED BY <3>1 DEF Items
  <2>4. items' = [items EXCEPT ![i] = r]
    BY <2>1 DEF TakeUnused
  <2> HIDE DEF r
  <2>5. /\ items' \in Seq(Items) /\ Len(items') = Len(items) /\ items'[i] = r
        /\ \A j \in 1 .. Len(items) : j # i => items'[j] = items[j]
    BY <1>0, <2>3, <2>4
  <2>6. i \in 2 .. Len(items') /\ ~IsItem(i) /\ items'[i].fUsed
    BY <1>0, <2>2, <2>3, <2>5 DEF IsItem
  <2>7. QED BY <1>0, <2>1, <2>5, <2>6
<1>2. CASE ~ \E i \in DOMAIN items : FirstUnused(items, i)
  <2> DEFINE r == Item(ask)
             i == Len(items) + 1
  <2>1. items' = Append(items, r) /\ sems' = [sems EXCEPT ![o] = Append(@, i)]
    BY <1>2 DEF sys_sem_new_m
  <2>2. r \in Items /\ r.fUsed
    OBVIOUS
  <2> HIDE DEF r
  <2>3. /\ items' \in Seq(Items) /\ Len(items') = i /\ items'[i] = r
        /\ \A j \in 1 .. Len(items) : items'[j] = items[j]
    BY <1>0, <2>1, <2>2
  <2>4. \A j \in 1 .. Len(items) : items[j].fUsed
    BY <1>0, <1>2, SomeFirst
  <2>5. i \in 2 .. Len(items') /\ ~IsItem(i) /\ \A j \in 1 .. Len(items') : items'[j].fUsed
    BY <1>0, <2>2, <2>3, <2>4 DEF IsItem
  <2>6. \A j \in 1 .. Len(items') : j # i =>
           j \in 1 .. Len(items) /\ items'[j].fUsed = items[j].fUsed
    BY <1>0, <2>3
  <2>7. sems' = [sems EXCEPT ![o] = Append(@, i)] /\ items' \in Seq(Items)
        /\ ~IsItem(i) /\ items'[i].fUsed /\ i = Len(items) + 1 /\ Len(items') = i
        /\ i \in 2 .. Len(items')
    BY <1>0, <2>1, <2>3, <2>5
  <2> HIDE DEF i
  <2>8. QED BY <2>5, <2>6, <2>7
<1>3. QED BY <1>1, <1>2

(* Making a semaphore keeps all three parts. *)
LEMMA Makes ==
    ASSUME PoolInv, OwnerInv, PeakInv, NEW o \in Objects, Make(o)
    PROVE  PoolInv' /\ OwnerInv' /\ PeakInv'
<1> DEFINE n == Len(sems[o]) + 1
<1>1. /\ phase[o] \in {"absent", "making"} /\ sys_sem_new_m(o, Asks(o)[n])
      /\ phase' = [phase EXCEPT ![o] = IF n = Len(Asks(o)) THEN "live" ELSE "making"]
      /\ peak' = IF Cardinality(UsedIn(items')) > peak
                 THEN Cardinality(UsedIn(items')) ELSE peak
  BY DEF Make, sys_sem_new_m
<1>2. /\ Len(Asks(o)) \in {1, 3} /\ sems[o] \in Seq(Nat) /\ n \in 1 .. Len(Asks(o))
      /\ Item(Asks(o)[n]) \in Items /\ Item(Asks(o)[n]).fUsed
  <2>1. sems[o] \in Seq(Nat) /\ Len(Asks(o)) \in {1, 3}
    BY AskTypes DEF PoolInv
  <2>2. n \in 1 .. Len(Asks(o))
    BY <1>1, <2>1 DEF PoolInv
  <2>3. QED BY <2>1, <2>2, AskTypes
<1>3. PICK i \in 2 .. Len(items') :
              /\ sems' = [sems EXCEPT ![o] = Append(@, i)]
              /\ items' \in Seq(Items) /\ ~IsItem(i) /\ items'[i].fUsed
              /\ \/ i \in 1 .. Len(items) /\ Len(items') = Len(items)
                 \/ /\ i = Len(items) + 1 /\ Len(items') = i
                    /\ \A j \in 1 .. Len(items') : items'[j].fUsed
              /\ \A j \in 1 .. Len(items') : j # i =>
                    j \in 1 .. Len(items) /\ items'[j].fUsed = items[j].fUsed
  BY <1>1, <1>2, WhatIsMade
<1>4. Len(items) \in Nat /\ Len(items) >= 1 /\ Len(items') \in Nat /\ Len(items') >= Len(items)
  BY <1>3 DEF PoolInv
<1>5. OwnerInv'
  BY <1>3, <1>4, OneMoreOwner
<1>6. PoolInv'
  <2>1. items'[1].fUsed
    BY <1>3, <1>4 DEF PoolInv
  <2>2. /\ sems' \in [Objects -> Seq(Nat)] /\ Len(sems'[o]) = n
        /\ \A p \in Objects \ {o} : sems'[p] = sems[p]
    BY <1>2, <1>3 DEF PoolInv
  <2>3. /\ phase' \in [Objects -> {"absent", "making", "live", "freeing"}]
        /\ phase'[o] = IF n = Len(Asks(o)) THEN "live" ELSE "making"
        /\ \A p \in Objects \ {o} : phase'[p] = phase[p]
    BY <1>1 DEF PoolInv
  <2>4. ASSUME NEW p \in Objects
        PROVE  /\ Len(sems'[p]) <= Len(Asks(p))
               /\ phase'[p] = "absent" => Len(sems'[p]) = 0
               /\ phase'[p] = "making" => Len(sems'[p]) < Len(Asks(p))
               /\ phase'[p] = "live" => Len(sems'[p]) = Len(Asks(p))
               /\ phase'[p] = "freeing" => Len(sems'[p]) >= 1
    <3>0. /\ Len(sems'[o]) <= Len(Asks(o))
          /\ phase'[o] = "absent" => Len(sems'[o]) = 0
          /\ phase'[o] = "making" => Len(sems'[o]) < Len(Asks(o))
          /\ phase'[o] = "live" => Len(sems'[o]) = Len(Asks(o))
          /\ phase'[o] = "freeing" => Len(sems'[o]) >= 1
      BY <1>2, <2>2, <2>3
    <3>1. CASE p = o BY <3>1, <3>0
    <3>2. CASE p # o BY <3>2, <2>2, <2>3 DEF PoolInv
    <3>3. QED BY <3>1, <3>2
  <2>5. QED BY <1>3, <1>4, <2>1, <2>2, <2>3, <2>4 DEF PoolInv
<1>7. PeakInv'
  <2>1. Cardinality(UsedIn(items')) \in Nat
        /\ ((\A j \in 1 .. Len(items') : items'[j].fUsed)
               => Cardinality(UsedIn(items')) = Len(items'))
    BY <1>3, UsedCount
  <2>2. peak' \in Nat /\ peak' >= peak /\ peak' >= Cardinality(UsedIn(items'))
    BY <1>1, <2>1 DEF PeakInv
  <2>3. QED BY <1>3, <1>4, <2>1, <2>2 DEF PeakInv
<1>8. QED BY <1>5, <1>6, <1>7

(* Using an object's semaphores keeps them. *)
LEMMA Uses ==
    ASSUME PoolInv, OwnerInv, PeakInv, NEW o \in Objects, Use(o)
    PROVE  PoolInv' /\ OwnerInv' /\ PeakInv'
<1>1. sems' = sems /\ phase' = phase /\ peak' = peak
  BY DEF Use
<1>2. items \in Seq(Items) /\ sems[o] \in Seq(Nat)
  BY DEF PoolInv
<1>3. PICK k \in 1 .. Len(sems[o]) : \E c \in 0 .. items[sems[o][k]].length :
                items' = [items EXCEPT ![sems[o][k]].count = c]
  <2>1. \E k \in DOMAIN sems[o] : \E c \in 0 .. items[sems[o][k]].length :
                items' = [items EXCEPT ![sems[o][k]].count = c]
    BY DEF Use
  <2>2. DOMAIN sems[o] = 1 .. Len(sems[o])
    BY <1>2
  <2>3. QED BY <2>1, <2>2
<1> DEFINE i == sems[o][k]
<1>4. i \in 2 .. Len(items) /\ items[i] \in Items
  BY <1>2 DEF OwnerInv, IsItem
<1>5. PICK c \in 0 .. items[i].length : items' = [items EXCEPT ![i].count = c]
  BY <1>3
<1> DEFINE r == [items[i] EXCEPT !.count = c]
<1>6. r \in Items /\ r.fUsed = items[i].fUsed
  BY <1>4 DEF Items
<1>7. items' = [items EXCEPT ![i] = r]
  BY <1>5
<1> HIDE DEF r, i
<1>8. /\ items' \in Seq(Items) /\ Len(items') = Len(items)
      /\ \A j \in 1 .. Len(items) : items'[j].fUsed = items[j].fUsed
  BY <1>2, <1>4, <1>6, <1>7
<1>9. PoolInv'
  BY <1>1, <1>8 DEF PoolInv
<1>10. OwnerInv'
  BY <1>1, <1>8, SameOwners
<1>11. QED BY <1>1, <1>8, <1>9, <1>10 DEF PeakInv

(* Beginning to free an object keeps its semaphores. *)
LEMMA StartsFree ==
    ASSUME PoolInv, OwnerInv, PeakInv, NEW o \in Objects, StartFree(o)
    PROVE  PoolInv' /\ OwnerInv' /\ PeakInv'
<1>1. /\ sems' = sems /\ peak' = peak /\ phase[o] = "live"
      /\ phase' = [phase EXCEPT ![o] = "freeing"]
  BY DEF StartFree
<1>2. items \in Seq(Items) /\ sems[o] \in Seq(Nat) /\ Len(Asks(o)) \in {1, 3}
      /\ Len(sems[o]) = Len(Asks(o)) /\ Len(sems[o]) >= 1
  <2>1. sems[o] \in Seq(Nat) /\ Len(sems[o]) = Len(Asks(o))
    BY <1>1 DEF PoolInv
  <2>2. Len(Asks(o)) \in {1, 3} /\ Len(Asks(o)) \in Nat /\ Len(Asks(o)) >= 1
    BY AskTypes
  <2>3. QED BY <2>1, <2>2 DEF PoolInv
<1>3. /\ items' \in Seq(Items) /\ Len(items') = Len(items)
      /\ \A j \in 1 .. Len(items) : items'[j].fUsed = items[j].fUsed
  <2>1. CASE o \in Mailboxes
    <3> DEFINE i == sems[o][3]
    <3>1. 3 \in 1 .. Len(sems[o])
      <4>1. Len(Asks(o)) = 3
        BY <2>1, AskTypes
      <4>2. QED BY <1>2, <4>1
    <3>2. i \in 2 .. Len(items) /\ items[i] \in Items
      BY <1>2, <3>1 DEF OwnerInv, IsItem
    <3>3. items[i].count > 0 /\ items' = [items EXCEPT ![i].count = @ - 1]
      BY <2>1 DEF StartFree
    <3> DEFINE r == [items[i] EXCEPT !.count = @ - 1]
    <3>4. r \in Items /\ r.fUsed = items[i].fUsed
      BY <3>2, <3>3 DEF Items
    <3>5. items' = [items EXCEPT ![i] = r]
      BY <3>3
    <3> HIDE DEF r, i
    <3>6. QED BY <1>2, <3>2, <3>4, <3>5
  <2>2. CASE o \notin Mailboxes
    BY <1>2, <2>2 DEF StartFree
  <2>3. QED BY <2>1, <2>2
<1>4. OwnerInv'
  BY <1>1, <1>3, SameOwners
<1>5. PoolInv'
  <2>1. /\ phase' \in [Objects -> {"absent", "making", "live", "freeing"}]
        /\ phase'[o] = "freeing" /\ \A p \in Objects \ {o} : phase'[p] = phase[p]
    BY <1>1 DEF PoolInv
  <2>2. ASSUME NEW p \in Objects
        PROVE  /\ Len(sems'[p]) <= Len(Asks(p))
               /\ phase'[p] = "absent" => Len(sems'[p]) = 0
               /\ phase'[p] = "making" => Len(sems'[p]) < Len(Asks(p))
               /\ phase'[p] = "live" => Len(sems'[p]) = Len(Asks(p))
               /\ phase'[p] = "freeing" => Len(sems'[p]) >= 1
    <3>0. /\ Len(sems'[o]) <= Len(Asks(o))
          /\ phase'[o] = "absent" => Len(sems'[o]) = 0
          /\ phase'[o] = "making" => Len(sems'[o]) < Len(Asks(o))
          /\ phase'[o] = "live" => Len(sems'[o]) = Len(Asks(o))
          /\ phase'[o] = "freeing" => Len(sems'[o]) >= 1
      <4>1. Len(sems'[o]) \in Nat /\ Len(sems'[o]) = Len(sems[o])
        BY <1>2, <1>1
      <4>2. phase'[o] = "freeing"
        BY <2>1
      <4>3. Len(sems'[o]) <= Len(Asks(o))
        BY <1>2, <4>1
      <4>4. phase'[o] \in {"absent", "freeing"}
        BY <4>2
      <4>5. Len(sems[o]) \in Nat /\ Len(sems[o]) >= 1
        BY <1>2
      <4>6. phase'[o] = "freeing" => Len(sems'[o]) >= 1
        BY <4>5, <4>1, <4>2
      <4>7. phase'[o] = "absent" => Len(sems'[o]) = 0
        BY <1>2, <4>1, <4>2
      <4>8. QED BY <4>3, <4>4, <4>6, <4>7
    <3>1. CASE p = o BY <3>1, <3>0
    <3>2. CASE p # o BY <3>2, <1>1, <2>1 DEF PoolInv
    <3>3. QED BY <3>1, <3>2
  <2>3. items'[1].fUsed /\ Len(items') >= 1
    BY <1>3 DEF PoolInv
  <2>4. sems' \in [Objects -> Seq(Nat)]
    BY <1>1 DEF PoolInv
  <2>5. QED BY <1>3, <2>1, <2>2, <2>3, <2>4 DEF PoolInv
<1>6. QED BY <1>1, <1>3, <1>4, <1>5 DEF PeakInv

(* Freeing a semaphore keeps the others. *)
LEMMA Frees ==
    ASSUME PoolInv, OwnerInv, PeakInv, NEW o \in Objects, sys_sem_free(o)
    PROVE  PoolInv' /\ OwnerInv' /\ PeakInv'
<1> DEFINE i == sems[o][1]
<1>1. /\ phase[o] = "freeing" /\ peak' = peak
      /\ items' = [items EXCEPT ![Head(sems[o])].fUsed = FALSE]
      /\ sems' = [sems EXCEPT ![o] = Tail(@)]
      /\ phase' = [phase EXCEPT ![o] = IF Len(sems[o]) = 1 THEN "absent" ELSE @]
  BY DEF sys_sem_free
<1>2. /\ items \in Seq(Items) /\ sems[o] \in Seq(Nat) /\ Len(Asks(o)) \in {1, 3}
      /\ Len(sems[o]) >= 1 /\ sems[o] # <<>> /\ Head(sems[o]) = i
      /\ Len(sems[o]) <= Len(Asks(o))
  BY <1>1, AskTypes DEF PoolInv
<1>3. i \in 2 .. Len(items) /\ items[i] \in Items
  BY <1>2 DEF OwnerInv, IsItem
<1> DEFINE r == [items[i] EXCEPT !.fUsed = FALSE]
<1>4. r \in Items /\ ~r.fUsed
  BY <1>3 DEF Items
<1>5. items' = [items EXCEPT ![i] = r]
  BY <1>1, <1>2
<1> HIDE DEF r, i
<1>6. /\ items' \in Seq(Items) /\ Len(items') = Len(items) /\ ~items'[i].fUsed
      /\ \A j \in 1 .. Len(items) : j # i => items'[j].fUsed = items[j].fUsed
  BY <1>2, <1>3, <1>4, <1>5
<1>7. OwnerInv'
  BY <1>1, <1>2, <1>6, OneLessOwner DEF i
<1>8. PoolInv'
  <2>1. /\ Tail(sems[o]) \in Seq(Nat) /\ Len(Tail(sems[o])) = Len(sems[o]) - 1
    BY <1>2, HeadTailProperties
  <2>2. /\ sems' \in [Objects -> Seq(Nat)] /\ Len(sems'[o]) = Len(sems[o]) - 1
        /\ \A p \in Objects \ {o} : sems'[p] = sems[p]
    BY <1>1, <2>1 DEF PoolInv
  <2>3. /\ phase' \in [Objects -> {"absent", "making", "live", "freeing"}]
        /\ phase'[o] = IF Len(sems[o]) = 1 THEN "absent" ELSE "freeing"
        /\ \A p \in Objects \ {o} : phase'[p] = phase[p]
    BY <1>1 DEF PoolInv
  <2>4. ASSUME NEW p \in Objects
        PROVE  /\ Len(sems'[p]) <= Len(Asks(p))
               /\ phase'[p] = "absent" => Len(sems'[p]) = 0
               /\ phase'[p] = "making" => Len(sems'[p]) < Len(Asks(p))
               /\ phase'[p] = "live" => Len(sems'[p]) = Len(Asks(p))
               /\ phase'[p] = "freeing" => Len(sems'[p]) >= 1
    <3>0. /\ Len(sems'[o]) <= Len(Asks(o))
          /\ phase'[o] = "absent" => Len(sems'[o]) = 0
          /\ phase'[o] = "making" => Len(sems'[o]) < Len(Asks(o))
          /\ phase'[o] = "live" => Len(sems'[o]) = Len(Asks(o))
          /\ phase'[o] = "freeing" => Len(sems'[o]) >= 1
      <4>1. Len(sems'[o]) \in Nat /\ Len(sems'[o]) = Len(sems[o]) - 1
        BY <1>2, <2>2
      <4>2. phase'[o] = IF Len(sems[o]) = 1 THEN "absent" ELSE "freeing"
        BY <2>3
      <4>3. Len(sems'[o]) <= Len(Asks(o))
        BY <1>2, <4>1
      <4>4. phase'[o] \in {"absent", "freeing"}
        BY <4>2
      <4>5. Len(sems[o]) \in Nat /\ Len(sems[o]) >= 1
        BY <1>2
      <4>6. phase'[o] = "freeing" => Len(sems[o]) # 1
        BY <4>2
      <4>7. phase'[o] = "freeing" => Len(sems'[o]) >= 1
        <5>1. \A n \in Nat : n >= 1 /\ n # 1 => n - 1 >= 1
          OBVIOUS
        <5>2. Len(sems[o]) # 1 => Len(sems'[o]) >= 1
          BY <5>1, <4>5, <4>1
        <5>3. QED BY <5>2, <4>6
      <4>8. phase'[o] = "absent" => Len(sems'[o]) = 0
        BY <1>2, <4>1, <4>2
      <4>9. QED BY <4>3, <4>4, <4>7, <4>8
    <3>1. CASE p = o BY <3>1, <3>0
    <3>2. CASE p # o BY <3>2, <2>2, <2>3 DEF PoolInv
    <3>3. QED BY <3>1, <3>2
  <2>5. items'[1].fUsed /\ Len(items') >= 1
    BY <1>3, <1>6 DEF PoolInv
  <2>6. QED BY <1>6, <2>2, <2>3, <2>4, <2>5 DEF PoolInv
<1>9. QED BY <1>1, <1>6, <1>7, <1>8 DEF PeakInv

----------------------------------------------------------------------------
(* The invariant is kept by every step. *)
SemPoolInv == PoolInv /\ OwnerInv /\ PeakInv

LEMMA SemPoolKeeps ==
    SemPoolInv /\ [SemPoolNext]_semPoolVars => SemPoolInv'
<1> SUFFICES ASSUME SemPoolInv, [SemPoolNext]_semPoolVars PROVE SemPoolInv'
  OBVIOUS
<1> USE DEF SemPoolInv
<1>1. ASSUME NEW o \in Objects, Make(o) PROVE SemPoolInv'
  BY <1>1, Makes
<1>2. ASSUME NEW o \in Objects, Use(o) PROVE SemPoolInv'
  BY <1>2, Uses
<1>3. ASSUME NEW o \in Objects, StartFree(o) PROVE SemPoolInv'
  BY <1>3, StartsFree
<1>4. ASSUME NEW o \in Objects, sys_sem_free(o) PROVE SemPoolInv'
  BY <1>4, Frees
<1>5. CASE UNCHANGED semPoolVars
  BY <1>5 DEF semPoolVars, PoolInv, OwnerInv, PeakInv, IsItem
<1>6. QED BY <1>1, <1>2, <1>3, <1>4, <1>5 DEF SemPoolNext

(* The invariant says whose each item is: with OneOwner, no two objects    *)
(* wait on one semaphore. *)
LEMMA OwnersAreOne ==
    SemPoolInv => PoolIsSound
<1> SUFFICES ASSUME PoolInv, OwnerInv, PeakInv PROVE PoolIsSound
  BY DEF SemPoolInv
<1>1. ASSUME NEW i \in DOMAIN items \ {1}
      PROVE  Cardinality(Holders(i)) = IF items[i].fUsed THEN 1 ELSE 0
  <2>1. i \in 2 .. Len(items)
    BY DEF PoolInv
  <2>2. \A h \in Holders(i) : /\ h[1] \in Objects /\ h[2] \in 1 .. Len(sems[h[1]])
                              /\ sems[h[1]][h[2]] = i /\ h = <<h[1], h[2]>>
    BY DEF Holders, PoolInv
  <2>3. CASE items[i].fUsed
    <3>1. PICK o \in Objects : \E k \in 1 .. Len(sems[o]) : sems[o][k] = i
      BY <2>1, <2>3 DEF OwnerInv
    <3>2. PICK k \in 1 .. Len(sems[o]) : sems[o][k] = i
      BY <3>1
    <3>3. k \in 1 .. 3 /\ k \in DOMAIN sems[o]
      <4>1. sems[o] \in Seq(Nat) /\ Len(sems[o]) <= Len(Asks(o))
        BY DEF PoolInv
      <4>2. Len(Asks(o)) = 1 \/ Len(Asks(o)) = 3
        BY AskTypes
      <4>3. \A n \in Nat : \A l : (l = 1 \/ l = 3) /\ n <= l => \A j \in 1 .. n : j \in 1 .. 3
        OBVIOUS
      <4>4. Len(sems[o]) \in Nat /\ DOMAIN sems[o] = 1 .. Len(sems[o])
        BY <4>1
      <4>5. QED BY <4>1, <4>2, <4>3, <4>4
    <3>4. <<o, k>> \in Holders(i)
      BY <3>2, <3>3 DEF Holders
    <3>5. \A h \in Holders(i) : h[1] = o /\ h[2] = k
      BY <2>2, <3>2 DEF OwnerInv
    <3>6. Holders(i) = {<<o, k>>}
      BY <2>2, <3>4, <3>5
    <3>7. QED BY <2>3, <3>6, FS_Singleton
  <2>4. CASE ~items[i].fUsed
    <3>1. Holders(i) = {}
      BY <2>2, <2>4 DEF OwnerInv, IsItem
    <3>2. QED BY <2>4, <3>1, FS_EmptySet
  <2>5. QED BY <2>3, <2>4
<1>2. OneOwner
  BY <1>1 DEF OneOwner
<1>3. NoMoreThanPeak
  BY DEF PeakInv, NoMoreThanPeak
<1>4. QED BY <1>2, <1>3 DEF PoolIsSound

(* The pool is sound, whatever the mailboxes and signals and in whatever   *)
(* order threads make, use and free them (sys_sem_new_m, sys_sem_free and  *)
(* the three calls of each in sys_mbox_new and sys_mbox_free): an item in  *)
(* use is one semaphore of one object, and the list never has more items   *)
(* than were in use at one moment.                                         *)
THEOREM PoolStaysSound == SemPoolSpec => []PoolIsSound
<1>1. SemPoolInit => SemPoolInv
  BY SemPoolStarts DEF SemPoolInv
<1>2. QED BY <1>1, SemPoolKeeps, OwnersAreOne, PTL DEF SemPoolSpec

----------------------------------------------------------------------------
(* The Ethernet driver's task and the PHY, for any partners, any number of *)
(* buffers and any bound of the semaphore.                                 *)

PhyStates == [at : {"board", "elsewhere", "nowhere"}, fresh : BOOLEAN, link : BOOLEAN,
              dropped : BOOLEAN, done : BOOLEAN, autoneg : BOOLEAN, isolated : BOOLEAN,
              mode : {Best(PhyOrder, modes) : modes \in Partners} \cup {"10HD"}]

(* The buffers and the semaphore, which no more frames wait for than there *)
(* is room for. *)
RingInv ==
    /\ ring \in Seq(BOOLEAN) /\ Len(ring) <= EMAC_RX_BUFFERS
    /\ sem \in 0 .. SemMax /\ left \in Nat /\ callback \in BOOLEAN
    /\ FramesAreSignalled

(* The PHY: a link that is not there was lost, and one that was negotiated *)
(* has the best mode of both ends.  While the task negotiates it does not  *)
(* take the link for up. *)
LinkInv ==
    /\ phy \in PhyStates /\ cable \in Partners \cup {NoCable} /\ fLinkUp \in BOOLEAN
    /\ phy.link => cable # NoCable
    /\ ~phy.link => phy.dropped
    /\ phy.done => phy.link /\ phy.mode = Best(PhyOrder, cable)
    /\ task = "negotiates" => ~fLinkUp /\ ~phy.isolated
    /\ ModesAgree

(* The inductive invariant. *)
MacInv == RingInv /\ LinkInv

----------------------------------------------------------------------------
LEMMA MacInitInv == MacInit => MacInv
<1> SUFFICES ASSUME MacInit PROVE MacInv
  OBVIOUS
<1>1. RingInv
  <2>1. ring = <<>> /\ callback = FALSE /\ sem = 0 /\ left = 0
    BY DEF MacInit
  <2>2. ring \in Seq(BOOLEAN) /\ Len(ring) = 0 /\ DOMAIN ring = {}
    BY <2>1
  <2>3. sem \in 0 .. SemMax /\ left \in Nat /\ Len(ring) <= EMAC_RX_BUFFERS
    BY <2>1, <2>2, MacAssumption
  <2>4. QED BY <2>1, <2>2, <2>3 DEF RingInv, FramesAreSignalled
<1>2. LinkInv
  <2>1. phy \in PhyStates /\ ~phy.link /\ phy.dropped /\ ~phy.done
    BY DEF MacInit, PhyStates
  <2>2. QED BY <2>1 DEF MacInit, LinkInv, ModesAgree
<1>3. QED BY <1>1, <1>2 DEF MacInv

(* No step loses a frame that was called back for. *)
LEMMA RingStep == ASSUME RingInv, MacNext PROVE RingInv'
<1>1. CASE UNCHANGED <<ring, sem, left, task, callback>>
  BY <1>1 DEF RingInv, FramesAreSignalled
<1>2. CASE Resets
  BY <1>2, MacAssumption DEF Resets, ReInitMac, RingInv, FramesAreSignalled
<1>3. CASE Takes
  <2>1. /\ sem > 0 /\ sem' = sem - 1 /\ task' = "reads" /\ left' = EMAC_RX_BUFFERS
        /\ ring' = ring /\ callback' = callback
    BY <1>3 DEF Takes
  <2>2. sem' \in 0 .. SemMax /\ left' \in Nat
    BY <2>1, MacAssumption DEF RingInv
  <2>3. \A i \in DOMAIN ring : i <= EMAC_RX_BUFFERS
    BY MacAssumption DEF RingInv
  <2>4. QED BY <2>1, <2>2, <2>3, MacAssumption DEF RingInv, FramesAreSignalled
<1>4. CASE Reads
  <2>1. task = "reads" /\ sem' = sem /\ callback' = callback
    BY <1>4 DEF Reads, Software
  <2>2. CASE left = 0 \/ ring = <<>>
    <3>1. task' = "waits" /\ left' = 0 /\ ring' = ring
      BY <1>4, <2>2 DEF Reads
    <3>2. \A i \in DOMAIN ring : i > 0 /\ (ring = <<>> => FALSE)
      BY DEF RingInv
    <3>3. \A i \in DOMAIN ring : ring[i] => sem > 0
      BY <3>2, <2>2, MacAssumption DEF RingInv, FramesAreSignalled
    <3>4. QED BY <2>1, <3>1, <3>3 DEF RingInv, FramesAreSignalled
  <2>3. CASE ~(left = 0 \/ ring = <<>>)
    <3>1. ring' = Tail(ring) /\ left' = left - 1 /\ task' = task /\ ring # <<>> /\ left # 0
      BY <1>4, <2>3 DEF Reads
    <3>2. /\ ring' \in Seq(BOOLEAN) /\ Len(ring') = Len(ring) - 1
          /\ \A i \in DOMAIN ring' : i \in Nat /\ i + 1 \in DOMAIN ring /\ ring'[i] = ring[i + 1]
      BY <3>1 DEF RingInv
    <3>3. left' \in Nat /\ Len(ring') <= EMAC_RX_BUFFERS
      BY <3>1, <3>2, MacAssumption DEF RingInv
    <3>4. ASSUME NEW i \in DOMAIN ring', ring'[i] PROVE sem > 0 \/ left' >= i
      <4>1. sem > 0 \/ left >= i + 1
        BY <3>2, <3>4 DEF RingInv, FramesAreSignalled
      <4>2. QED BY <4>1, <3>1, <3>2 DEF RingInv
    <3>5. QED BY <2>1, <3>1, <3>2, <3>3, <3>4 DEF RingInv, FramesAreSignalled
  <2>4. QED BY <2>2, <2>3
<1>5. CASE FrameArrives
  <2>1. /\ Len(ring) < EMAC_RX_BUFFERS /\ ring' = Append(ring, callback)
        /\ sem' = (IF callback /\ sem < SemMax THEN sem + 1 ELSE sem)
        /\ callback' = callback /\ task' = task /\ left' = left
    BY <1>5 DEF FrameArrives
  <2>2. /\ ring' \in Seq(BOOLEAN) /\ Len(ring') = Len(ring) + 1
        /\ \A i \in DOMAIN ring' : ring'[i] = (IF i = Len(ring) + 1 THEN callback ELSE ring[i])
        /\ \A i \in DOMAIN ring' : i # Len(ring) + 1 => i \in DOMAIN ring
    BY <2>1 DEF RingInv
  <2>3. sem' \in 0 .. SemMax /\ sem' >= sem /\ (callback => sem' > 0)
    BY <2>1, MacAssumption DEF RingInv
  <2>4. Len(ring') <= EMAC_RX_BUFFERS
    BY <2>1, <2>2, MacAssumption DEF RingInv
  <2>5. ASSUME NEW i \in DOMAIN ring', ring'[i]
        PROVE  sem' > 0 \/ (task' = "reads" /\ left' >= i)
    BY <2>1, <2>2, <2>3, <2>5, MacAssumption DEF RingInv, FramesAreSignalled
  <2>6. QED BY <2>1, <2>2, <2>3, <2>4, <2>5 DEF RingInv, FramesAreSignalled
<1>6. CASE Negotiates
  <2>1. sem = 0 /\ task = "waits" /\ UNCHANGED <<ring, sem, left, callback>>
    BY <1>6 DEF Negotiates, Hardware
  <2>2. QED BY <2>1 DEF RingInv, FramesAreSignalled
<1>7. CASE GivesUp \/ Settles
  <2>1. task = "negotiates" /\ UNCHANGED <<ring, sem, left>> /\ callback' \in {callback, TRUE}
    BY <1>7 DEF GivesUp, Settles, Hardware
  <2>2. QED BY <2>1 DEF RingInv, FramesAreSignalled
<1>8. CASE SeesLoss
  <2>1. UNCHANGED <<ring, sem, left, task>> /\ callback' \in {callback, FALSE}
    BY <1>8 DEF SeesLoss
  <2>2. QED BY <2>1 DEF RingInv, FramesAreSignalled
<1>9. QED
  <2>1. PhyLinks \/ (\E k \in Accesses : NegotiateFails(k)) \/ SeesSame \/ Changes
        \/ SkipsReset \/ (\E begins \in BOOLEAN : Sends(begins))
        => UNCHANGED <<ring, sem, left, task, callback>>
    BY DEF PhyLinks, NegotiateFails, SkipsReset, SeesSame, Changes, Unplug, AsksReset, Plug, Sends,
           Hardware, Software
  <2>2. QED BY <2>1, <1>1, <1>2, <1>3, <1>4, <1>5, <1>6, <1>7, <1>8 DEF MacNext, Works, Faults

(* What the PHY and the flags of the link are is untouched by the others. *)
LEMMA LinkStep == ASSUME LinkInv, MacNext PROVE LinkInv'
<1> USE DEF LinkInv, ModesAgree, Here
<1>1. ASSUME UNCHANGED <<phy, cable, fLinkUp, mac>>, task' = "negotiates" => task = "negotiates",
             task = "negotiates" => task' = "negotiates"
      PROVE  LinkInv'
  BY <1>1
<1>2. CASE \E modes \in Partners : Plug(modes)
  BY <1>2, MacAssumption DEF Plug, Software
<1>3. CASE Unplug
  <2>1. /\ phy' = [phy EXCEPT !.link = FALSE, !.dropped = TRUE, !.done = FALSE]
        /\ cable' = NoCable /\ UNCHANGED <<mac, task, fLinkUp>>
    BY <1>3 DEF Unplug, Software
  <2>2. /\ phy' \in PhyStates /\ ~phy'.link /\ phy'.dropped /\ ~phy'.done
        /\ phy'.isolated = phy.isolated
    BY <2>1 DEF PhyStates
  <2>3. QED BY <2>1, <2>2
<1>4. CASE PhyLinks
  <2> DEFINE mode == IF phy.autoneg THEN Best(PhyOrder, cable) ELSE "10HD"
  <2>1. /\ phy' = [phy EXCEPT !.link = TRUE, !.done = phy.autoneg, !.mode = mode]
        /\ cable # NoCable /\ ~phy.link /\ UNCHANGED <<cable, mac, task, fLinkUp>>
    BY <1>4 DEF PhyLinks, Hardware, Software
  <2>2. mode \in {Best(PhyOrder, modes) : modes \in Partners} \cup {"10HD"}
        /\ (phy.autoneg => mode = Best(PhyOrder, cable))
    BY <2>1
  <2> HIDE DEF mode
  <2>3. /\ phy' \in PhyStates /\ phy'.dropped /\ phy'.done = phy.autoneg /\ phy'.link
        /\ phy'.mode = mode /\ phy'.isolated = phy.isolated
    BY <2>1, <2>2 DEF PhyStates
  <2>4. QED BY <2>1, <2>2, <2>3
<1>5. CASE Resets
  <2>1. phy' = PhyReset(phy) /\ task = "waits" /\ UNCHANGED <<cable, mac, task, fLinkUp>>
    BY <1>5 DEF Resets, ReInitMac
  <2>2. /\ phy' \in PhyStates /\ ~phy'.link /\ phy'.dropped /\ ~phy'.done
    BY <2>1 DEF PhyStates, PhyReset
  <2>3. QED BY <2>1, <2>2
<1> DEFINE read == StatusRead
<1>6. /\ read \in PhyStates /\ read.link = phy.link /\ read.dropped = ~phy.link
      /\ read.done = phy.done /\ read.mode = phy.mode /\ read.isolated = phy.isolated
      /\ read.at = phy.at
  BY DEF PhyStates, StatusRead
<1>7. CASE SeesSame
  BY <1>6, <1>7 DEF SeesSame, LinkBit, Hardware, Software
<1>8. CASE SeesLoss
  BY <1>6, <1>8 DEF SeesLoss
<1>9. CASE GivesUp
  BY <1>6, <1>9 DEF GivesUp, Hardware, Software
<1>10. CASE Settles
  BY <1>6, <1>10 DEF Settles, Chosen, Agreeable
<1>11. ASSUME NEW k \in 1 .. 7
       PROVE  /\ Written(k) \in PhyStates /\ (k = 7 => ~Written(k).isolated)
              /\ Written(k).link => phy.link
              /\ ~Written(k).link => Written(k).dropped
              /\ Written(k).done => phy.done /\ Written(k).link
              /\ Written(k).mode = phy.mode
  <2> DEFINE isolated == IF k < 3 THEN phy.isolated ELSE k < 7
             auto == IF k \in 3 .. 5 THEN FALSE ELSE IF k > 5 THEN TRUE ELSE phy.autoneg
             told == [phy EXCEPT !.dropped = ~phy.link, !.isolated = isolated,
                                 !.autoneg = auto]
  <2>1. Written(k) = IF k < 3 \/ ~Here THEN told
                     ELSE [told EXCEPT !.link = FALSE, !.dropped = TRUE, !.done = FALSE]
    BY DEF Written
  <2>2. auto \in BOOLEAN
    <3>1. phy.autoneg \in BOOLEAN
      BY DEF PhyStates
    <3>2. CASE k \in 3 .. 5
      BY <3>2
    <3>3. CASE k \notin 3 .. 5 /\ k > 5
      BY <3>3
    <3>4. CASE k \notin 3 .. 5 /\ ~(k > 5)
      BY <3>1, <3>4
    <3>5. QED BY <3>2, <3>3, <3>4
  <2> HIDE DEF auto, isolated
  <2>3. /\ told \in PhyStates /\ told.link = phy.link /\ told.dropped = ~phy.link
        /\ (k = 7 => ~told.isolated) /\ told.done = phy.done /\ told.mode = phy.mode
    <3>1. isolated \in BOOLEAN /\ (k = 7 => ~isolated)
      <4>1. phy.isolated \in BOOLEAN
        BY DEF PhyStates
      <4>2. CASE k < 3
        BY <4>1, <4>2 DEF isolated
      <4>3. CASE ~(k < 3) /\ k < 7
        BY <4>3 DEF isolated
      <4>4. CASE ~(k < 3) /\ ~(k < 7)
        BY <4>4 DEF isolated
      <4>5. QED BY <4>2, <4>3, <4>4
    <3>2. told = [phy EXCEPT !.dropped = ~phy.link, !.isolated = isolated, !.autoneg = auto]
      OBVIOUS
    <3>3. told \in PhyStates /\ told.link = phy.link /\ told.dropped = ~phy.link
          /\ told.isolated = isolated /\ told.done = phy.done /\ told.mode = phy.mode
      <4> HIDE DEF told
      <4> DEFINE dropped == ~phy.link
      <4>1. isolated \in BOOLEAN /\ dropped \in BOOLEAN
        BY <3>1
      <4>2. phy \in PhyStates
        OBVIOUS
      <4>3. told = [phy EXCEPT !.dropped = dropped, !.isolated = isolated, !.autoneg = auto]
        BY <3>2
      <4> HIDE DEF dropped
      <4>4. /\ told \in PhyStates /\ told.link = phy.link /\ told.dropped = dropped
            /\ told.isolated = isolated /\ told.done = phy.done /\ told.mode = phy.mode
        BY <2>2, <4>1, <4>2, <4>3 DEF PhyStates
      <4>5. QED BY <4>4 DEF dropped
    <3>4. QED BY <3>1, <3>3
  <2> HIDE DEF told
  <2>4. CASE k < 3 \/ ~Here
    BY <2>1, <2>3, <2>4 DEF PhyStates
  <2>5. CASE ~(k < 3 \/ ~Here)
    <3>1. Written(k) = [told EXCEPT !.link = FALSE, !.dropped = TRUE, !.done = FALSE]
      BY <2>1, <2>5
    <3>2. /\ Written(k) \in PhyStates /\ ~Written(k).link /\ Written(k).dropped
          /\ ~Written(k).done /\ Written(k).mode = told.mode
          /\ Written(k).isolated = told.isolated
      BY <3>1, <2>3 DEF PhyStates
    <3>3. QED BY <3>2, <2>3
  <2>6. QED BY <2>4, <2>5
<1>12. CASE Negotiates
  <2>1. /\ Written(7) \in PhyStates /\ ~Written(7).isolated
        /\ Written(7).link => phy.link
        /\ ~Written(7).link => Written(7).dropped
        /\ Written(7).done => phy.done /\ Written(7).link
        /\ Written(7).mode = phy.mode
    <3>1. 7 \in 1 .. 7
      OBVIOUS
    <3>2. QED BY <3>1, <1>11
  <2>2. QED BY <1>12, <2>1 DEF Negotiates, Hardware, Software
<1>13. CASE \E k \in Accesses : NegotiateFails(k)
  BY <1>11, <1>13 DEF NegotiateFails, Accesses, Hardware, Software
<1>14. QED
  <2>1. Takes \/ Reads \/ FrameArrives \/ AsksReset \/ SkipsReset \/ (\E begins \in BOOLEAN : Sends(begins))
        => /\ UNCHANGED <<phy, cable, fLinkUp, mac>>
           /\ task' = "negotiates" <=> task = "negotiates"
    BY DEF Takes, Reads, FrameArrives, AsksReset, SkipsReset, Sends, Hardware, Software
  <2>2. QED BY <2>1, <1>1, <1>2, <1>3, <1>4, <1>5, <1>7, <1>8, <1>9, <1>10, <1>12, <1>13
            DEF MacNext, Works, Faults, Changes

(* No frame that was called back for is left unread without the semaphore  *)
(* counting, and a link that is up has one mode at both ends of the MII.   *)
THEOREM DriverStaysSound == MacSpec => []DriverIsSound
<1>1. MacInv /\ [MacNext]_macVars => MacInv'
  <2>1. MacInv /\ UNCHANGED macVars => MacInv'
    BY DEF MacInv, RingInv, LinkInv, FramesAreSignalled, ModesAgree, Here, macVars
  <2>2. QED BY <2>1, RingStep, LinkStep DEF MacInv
<1>2. MacInv => DriverIsSound
  BY DEF MacInv, RingInv, LinkInv, DriverIsSound
<1>3. QED BY <1>1, <1>2, MacInitInv, PTL DEF MacSpec

----------------------------------------------------------------------------
(* The timeouts.  The list holds differences, so each lemma says what      *)
(* becomes of the sums: Wait of an entry.                                  *)
Timer == [h : Handlers, time : Nat, left : Int]

(* Where nothing changes from one to the next, the last is as the first.   *)
LEMMA Along ==
    ASSUME NEW N \in Nat, NEW a \in 0 .. N, NEW P, a \in P,
           \A j \in a + 1 .. N : j - 1 \in P => j \in P
    PROVE  a .. N \subseteq P
<1> DEFINE Bad == {j \in a .. N : j \notin P}
<1>1. Bad \subseteq Nat
  OBVIOUS
<1>2. SUFFICES ASSUME Bad # {} PROVE FALSE
  OBVIOUS
<1>3. PICK k \in Bad : \A j \in Bad : ~(<<j, k>> \in OpToRel(<, Nat))
  BY <1>1, <1>2, NatLessThanWellFounded, WFMin
<1>4. \A j \in Bad : ~(j < k)
  BY <1>1, <1>3 DEF OpToRel
<1>5. k # a /\ k - 1 \in a .. N /\ k \in a + 1 .. N
  OBVIOUS
<1>6. k - 1 \in P
  BY <1>4, <1>5
<1>7. QED BY <1>5, <1>6

(* The sums of a list of times.                                            *)
Sums(g, N, t) == g \in [0 .. N -> Int] /\ g[0] = 0 /\ \A j \in 1 .. N : g[j] = g[j - 1] + t[j]

LEMMA SumsExist ==
    ASSUME NEW N \in Nat, NEW t, \A j \in 1 .. N : t[j] \in Int
    PROVE  \E g : Sums(g, N, t)
<1> DEFINE P == {n \in 0 .. N : \E g : Sums(g, n, t)}
<1>1. 0 \in P
  <2> DEFINE g == [j \in 0 .. 0 |-> 0]
  <2>1. Sums(g, 0, t)
    BY DEF Sums
  <2>2. QED BY <2>1
<1>2. ASSUME NEW n \in 1 .. N, n - 1 \in P PROVE n \in P
  <2>1. PICK g : Sums(g, n - 1, t)
    BY <1>2
  <2> DEFINE f == [j \in 0 .. n |-> IF j = n THEN g[n - 1] + t[n] ELSE g[j]]
  <2>2. g \in [0 .. n - 1 -> Int] /\ t[n] \in Int
    BY <2>1 DEF Sums
  <2>3. f \in [0 .. n -> Int]
    BY <2>2
  <2>4. Sums(f, n, t)
    <3>1. f[0] = 0
      BY <2>1 DEF Sums
    <3>2. \A j \in 1 .. n : f[j] = f[j - 1] + t[j]
      BY <2>1 DEF Sums
    <3>3. QED BY <2>3, <3>1, <3>2 DEF Sums
  <2>5. QED BY <2>4
<1> HIDE DEF P
<1>3. 0 .. N \subseteq P
  BY <1>1, <1>2, Along
<1>4. N \in P
  BY <1>3
<1>5. QED BY <1>4 DEF P

LEMMA WaitIs ==
    ASSUME NEW l \in Seq(Timer)
    PROVE  /\ Wait(l, 0) = 0
           /\ \A i \in 1 .. Len(l) : Wait(l, i) = Wait(l, i - 1) + l[i].time
           /\ \A i \in 0 .. Len(l) : Wait(l, i) \in Nat
           /\ \A i, j \in 0 .. Len(l) : i <= j => Wait(l, i) <= Wait(l, j)
<1> DEFINE t == [j \in 1 .. Len(l) |-> l[j].time]
           N == Len(l)
<1>1. N \in Nat /\ \A j \in 1 .. N : l[j] \in Timer
  OBVIOUS
<1>2. \A j \in 1 .. N : t[j] = l[j].time /\ t[j] \in Nat
  BY <1>1 DEF Timer
<1> HIDE DEF t
<1>3. PICK g : Sums(g, N, t)
  BY <1>1, <1>2, SumsExist
<1> DEFINE sum[j \in 0 .. N] == IF j = 0 THEN 0 ELSE sum[j - 1] + l[j].time
<1>4. \A i : Wait(l, i) = sum[i]
  BY DEF Wait
<1>5. g = [j \in 0 .. N |-> IF j = 0 THEN 0 ELSE g[j - 1] + l[j].time]
  BY <1>1, <1>2, <1>3 DEF Sums
<1>6. sum = [j \in 0 .. N |-> IF j = 0 THEN 0 ELSE sum[j - 1] + l[j].time]
  BY <1>5
<1> HIDE DEF sum, N
<1>7. sum[0] = 0 /\ \A j \in 1 .. N : sum[j] = sum[j - 1] + l[j].time
  BY <1>1, <1>6
<1>8. \A j \in 0 .. N : sum[j] \in Nat
  <2> DEFINE P == {j \in 0 .. N : sum[j] \in Nat}
  <2>1. 0 \in P
    BY <1>1, <1>7
  <2>2. ASSUME NEW j \in 0 + 1 .. N, j - 1 \in P PROVE j \in P
    <3>1. j \in 1 .. N /\ sum[j] = sum[j - 1] + l[j].time /\ l[j].time \in Nat
      BY <1>1, <1>2, <1>7
    <3>2. QED BY <1>1, <2>2, <3>1
  <2> HIDE DEF P
  <2>3. 0 \in 0 .. N /\ \A j \in 0 + 1 .. N : j - 1 \in P => j \in P
    BY <1>1, <2>2
  <2>4. 0 .. N \subseteq P
    BY <1>1, <2>1, <2>3, Along
  <2>5. QED BY <2>4 DEF P
<1>9. ASSUME NEW i \in 0 .. N PROVE \A j \in i .. N : sum[i] <= sum[j]
  <2> DEFINE P == {j \in i .. N : sum[i] <= sum[j]}
  <2>1. i \in P
    BY <1>1, <1>8
  <2>2. ASSUME NEW j \in i + 1 .. N, j - 1 \in P PROVE j \in P
    <3>1. j \in 1 .. N /\ sum[j] = sum[j - 1] + l[j].time /\ l[j].time \in Nat
      BY <1>1, <1>2, <1>7
    <3>2. QED BY <1>1, <1>8, <2>2, <3>1
  <2> HIDE DEF P
  <2>3. i .. N \subseteq P
    BY <1>1, <2>1, <2>2, Along
  <2>4. QED BY <2>3 DEF P
<1>10. \A i, j \in 0 .. N : i <= j => sum[i] <= sum[j]
  BY <1>1, <1>9
<1>11. QED BY <1>4, <1>7, <1>8, <1>10 DEF N

(* Two lists whose times are the same from one place on differ in what     *)
(* their entries wait by what they differ there.                           *)
LEMMA ApartBy ==
    ASSUME NEW l \in Seq(Timer), NEW m \in Seq(Timer), NEW k \in Int, NEW d \in Int,
           NEW b \in 0 .. Len(m), NEW a \in 0 .. b, a + k >= 0, b + k <= Len(l),
           Wait(m, a) = Wait(l, a + k) - d,
           \A j \in a + 1 .. b : m[j].time = l[j + k].time
    PROVE  \A j \in a .. b : Wait(m, j) = Wait(l, j + k) - d
<1> DEFINE P == {j \in a .. b : Wait(m, j) = Wait(l, j + k) - d}
<1>1. b \in Nat /\ a \in P /\ Len(l) \in Nat /\ Len(m) \in Nat
  OBVIOUS
<1>2. ASSUME NEW j \in a + 1 .. b, j - 1 \in P PROVE j \in P
  <2>1. j \in 1 .. Len(m) /\ j + k \in 1 .. Len(l) /\ j - 1 + k = j + k - 1
    BY <1>1
  <2>2. Wait(m, j) = Wait(m, j - 1) + m[j].time /\ Wait(l, j + k) = Wait(l, j + k - 1) + l[j + k].time
    BY <2>1, WaitIs
  <2>3. /\ l[j + k].time \in Nat /\ Wait(l, j + k - 1) \in Nat
        /\ m[j].time = l[j + k].time /\ Wait(m, j - 1) = Wait(l, j + k - 1) - d
    <3>1. l[j + k] \in Timer
      BY <2>1
    <3>2. j + k - 1 \in 0 .. Len(l)
      BY <1>1, <2>1
    <3>3. QED BY <1>2, <2>1, <3>1, <3>2, WaitIs DEF Timer
  <2>4. QED BY <2>2, <2>3
<1> HIDE DEF P
<1>3. a .. b \subseteq P
  BY <1>1, <1>2, Along
<1>4. QED BY <1>3 DEF P

LEMMA SameOn ==
    ASSUME NEW l \in Seq(Timer), NEW m \in Seq(Timer), NEW k \in Int,
           NEW b \in 0 .. Len(m), NEW a \in 0 .. b, a + k >= 0, b + k <= Len(l),
           Wait(m, a) = Wait(l, a + k),
           \A j \in a + 1 .. b : m[j].time = l[j + k].time
    PROVE  \A j \in a .. b : Wait(m, j) = Wait(l, j + k)
<1> DEFINE d == 0
<1>1. \A j \in a .. b : Wait(l, j + k) \in Nat
  <2>1. ASSUME NEW j \in a .. b PROVE j + k \in 0 .. Len(l)
    OBVIOUS
  <2>2. QED BY <2>1, WaitIs
<1>2. d \in Int /\ \A w \in Nat : w - d = w
  OBVIOUS
<1> HIDE DEF d
<1>3. Wait(m, a) = Wait(l, a + k) - d
  <2>1. a \in a .. b
    OBVIOUS
  <2>2. QED BY <1>1, <1>2, <2>1
<1>4. \A j \in a .. b : Wait(m, j) = Wait(l, j + k) - d
  BY <1>2, <1>3, ApartBy
<1>5. QED BY <1>1, <1>2, <1>4

----------------------------------------------------------------------------
(* An entry is put in, or taken out. *)
LEMMA JoinIs ==
    ASSUME NEW S, NEW a \in Seq(S), NEW b \in Seq(S)
    PROVE  /\ a \o b \in Seq(S) /\ Len(a \o b) = Len(a) + Len(b)
           /\ Len(a) \in Nat /\ Len(b) \in Nat
           /\ \A j \in 1 .. Len(a) + Len(b) :
                 (a \o b)[j] = IF j <= Len(a) THEN a[j] ELSE b[j - Len(a)]
OBVIOUS

Inserted(m, l, i, e) ==
    /\ Len(m) = Len(l) + 1 /\ m[i] = e
    /\ \A j \in 1 .. i - 1 : m[j] = l[j]
    /\ \A j \in i .. Len(l) : m[j + 1] = l[j]

LEMMA InsertAtIs ==
    ASSUME NEW S, NEW l \in Seq(S), NEW i \in 1 .. Len(l) + 1, NEW e \in S
    PROVE  InsertAt(l, i, e) \in Seq(S) /\ Inserted(InsertAt(l, i, e), l, i, e)
<1> DEFINE a == SubSeq(l, 1, i - 1)
           b == SubSeq(l, i, Len(l))
           c == a \o <<e>>
<1>1. a \in Seq(S) /\ Len(a) = i - 1 /\ \A j \in 1 .. i - 1 : a[j] = l[j]
  OBVIOUS
<1>2. b \in Seq(S) /\ Len(b) = Len(l) - i + 1 /\ \A j \in 1 .. Len(b) : b[j] = l[i + j - 1]
  OBVIOUS
<1>3. InsertAt(l, i, e) = c \o b
  BY DEF InsertAt
<1> HIDE DEF a, b
<1>4. c \in Seq(S) /\ Len(c) = i /\ c[i] = e /\ \A j \in 1 .. i - 1 : c[j] = l[j]
  BY <1>1
<1> HIDE DEF c
<1>5. /\ c \o b \in Seq(S) /\ Len(c \o b) = Len(l) + 1 /\ Len(l) \in Nat /\ i \in Nat
      /\ \A j \in 1 .. Len(l) + 1 : (c \o b)[j] = IF j <= i THEN c[j] ELSE b[j - i]
  BY <1>2, <1>4, JoinIs
<1>6. ASSUME NEW j \in i .. Len(l) PROVE (c \o b)[j + 1] = l[j]
  <2>1. (c \o b)[j + 1] = b[j + 1 - i] /\ j + 1 - i \in 1 .. Len(b) /\ i + (j + 1 - i) - 1 = j
    BY <1>2, <1>5
  <2>2. QED BY <1>2, <2>1
<1>7. ASSUME NEW j \in 1 .. i PROVE (c \o b)[j] = c[j]
  BY <1>5
<1>8. QED BY <1>3, <1>4, <1>5, <1>6, <1>7 DEF Inserted

Removed(m, l, i) ==
    /\ Len(m) = Len(l) - 1
    /\ \A j \in 1 .. i - 1 : m[j] = l[j]
    /\ \A j \in i .. Len(l) - 1 : m[j] = l[j + 1]

LEMMA RemoveAtIs ==
    ASSUME NEW S, NEW l \in Seq(S), NEW i \in 1 .. Len(l)
    PROVE  RemoveAt(l, i) \in Seq(S) /\ Removed(RemoveAt(l, i), l, i)
<1> DEFINE a == SubSeq(l, 1, i - 1)
           b == SubSeq(l, i + 1, Len(l))
<1>1. a \in Seq(S) /\ Len(a) = i - 1 /\ \A j \in 1 .. i - 1 : a[j] = l[j]
  OBVIOUS
<1>2. b \in Seq(S) /\ Len(b) = Len(l) - i /\ \A j \in 1 .. Len(b) : b[j] = l[i + j]
  OBVIOUS
<1>3. RemoveAt(l, i) = a \o b
  BY DEF RemoveAt
<1> HIDE DEF a, b
<1>7. Len(l) \in Nat /\ i \in Nat /\ Len(a) + Len(b) = Len(l) - 1
  BY <1>1, <1>2
<1>4. /\ a \o b \in Seq(S) /\ Len(a \o b) = Len(l) - 1 /\ Len(l) \in Nat /\ i \in Nat
      /\ \A j \in 1 .. Len(l) - 1 : (a \o b)[j] = IF j <= i - 1 THEN a[j] ELSE b[j - (i - 1)]
  <2>1. /\ a \o b \in Seq(S) /\ Len(a \o b) = Len(a) + Len(b)
        /\ \A j \in 1 .. Len(a) + Len(b) :
              (a \o b)[j] = IF j <= Len(a) THEN a[j] ELSE b[j - Len(a)]
    BY <1>1, <1>2, JoinIs
  <2>2. QED BY <1>1, <1>7, <2>1
<1>5. ASSUME NEW j \in i .. Len(l) - 1 PROVE (a \o b)[j] = l[j + 1]
  <2>1. (a \o b)[j] = b[j - (i - 1)] /\ j - (i - 1) \in 1 .. Len(b) /\ i + (j - (i - 1)) = j + 1
    BY <1>2, <1>4
  <2>2. QED BY <1>2, <2>1
<1>6. ASSUME NEW j \in 1 .. i - 1 PROVE (a \o b)[j] = l[j]
  BY <1>1, <1>4
<1>8. QED BY <1>3, <1>4, <1>5, <1>6 DEF Removed

LEMMA ReducedIs ==
    ASSUME NEW l \in Seq(Timer), NEW i \in Nat, NEW by \in Int,
           i \in 1 .. Len(l) => l[i].time - by \in Nat
    PROVE  LET m == Reduced(l, i, by) IN
           /\ m \in Seq(Timer) /\ Len(m) = Len(l)
           /\ \A j \in 1 .. Len(l) : /\ m[j].h = l[j].h /\ m[j].left = l[j].left
                                     /\ m[j].time = IF j = i THEN l[j].time - by ELSE l[j].time
<1> DEFINE m == Reduced(l, i, by)
           x(j) == IF j = i THEN [l[j] EXCEPT !.time = @ - by] ELSE l[j]
<1>1. DOMAIN l = 1 .. Len(l) /\ Len(l) \in Nat
  OBVIOUS
<1>2. ASSUME NEW j \in 1 .. Len(l)
      PROVE  /\ x(j) \in Timer /\ x(j).h = l[j].h /\ x(j).left = l[j].left
             /\ x(j).time = IF j = i THEN l[j].time - by ELSE l[j].time
  <2>1. l[j] \in Timer
    OBVIOUS
  <2>2. QED BY <2>1 DEF Timer
<1>3. m = [j \in 1 .. Len(l) |-> x(j)]
  BY <1>1 DEF Reduced
<1> HIDE DEF x, m
<1>4. m \in Seq(Timer) /\ Len(m) = Len(l) /\ \A j \in 1 .. Len(l) : m[j] = x(j)
  BY <1>1, <1>2, <1>3, IsASeq
<1>5. QED BY <1>2, <1>4 DEF m

LEMMA PlaceIs ==
    ASSUME NEW l \in Seq(Timer), NEW msecs \in Nat
    PROVE  LET p == Place(l, msecs) IN
           /\ p \in 1 .. Len(l) + 1 /\ Wait(l, p - 1) <= msecs
           /\ p <= Len(l) => Wait(l, p) > msecs
<1> DEFINE N == Len(l)
           S == {i \in DOMAIN l : Wait(l, i) <= msecs}
           Q == {j \in 1 .. N : Wait(l, j) > msecs}
           p == Place(l, msecs)
<1>1. N \in Nat /\ DOMAIN l = 1 .. N /\ p = 1 + Cardinality(S)
  BY DEF Place
<1>2. /\ Wait(l, 0) = 0 /\ \A i \in 0 .. N : Wait(l, i) \in Nat
      /\ \A i, j \in 0 .. N : i <= j => Wait(l, i) <= Wait(l, j)
  BY WaitIs
<1> HIDE DEF N, p
<1>3. \E k \in 1 .. N + 1 : S = 1 .. k - 1 /\ Wait(l, k - 1) <= msecs /\ (k <= N => Wait(l, k) > msecs)
  <2>1. CASE Q = {}
    <3>1. \A j \in 1 .. N : Wait(l, j) <= msecs
      BY <1>1, <1>2, <2>1
    <3>2. S = 1 .. (N + 1) - 1 /\ Wait(l, (N + 1) - 1) <= msecs /\ ~(N + 1 <= N) /\ N + 1 \in 1 .. N + 1
      BY <1>1, <1>2, <3>1
    <3>3. QED BY <3>2
  <2>2. CASE Q # {}
    <3>9. Q \subseteq Nat
      BY <1>1
    <3>1. PICK k \in Q : \A j \in Q : ~(<<j, k>> \in OpToRel(<, Nat))
      BY <2>2, <3>9, NatLessThanWellFounded, WFMin
    <3>2. \A j \in Q : ~(j < k)
      BY <3>1, <3>9 DEF OpToRel
    <3> k \in 1 .. N /\ k \in Nat
      BY <1>1
    <3>3. \A j \in 1 .. k - 1 : Wait(l, j) <= msecs
      BY <1>1, <1>2, <3>2
    <3>4. ASSUME NEW j \in k .. N PROVE j \in 1 .. N /\ Wait(l, j) > msecs
      <4>1. j \in 0 .. N /\ k \in 0 .. N /\ k <= j /\ Wait(l, k) > msecs /\ j \in 1 .. N
        BY <1>1
      <4>2. Wait(l, k) <= Wait(l, j) /\ Wait(l, j) \in Nat /\ Wait(l, k) \in Nat
        BY <1>2, <4>1
      <4>3. QED BY <4>1, <4>2
    <3>5. S = 1 .. k - 1
      <4>1. ASSUME NEW j \in 1 .. N PROVE Wait(l, j) <= msecs <=> j \in 1 .. k - 1
        <5>1. CASE j \in 1 .. k - 1
          BY <3>3, <5>1
        <5>2. CASE j \notin 1 .. k - 1
          <6>1. j \in k .. N
            BY <1>1, <5>2
          <6>2. Wait(l, j) > msecs /\ Wait(l, j) \in Nat
            BY <1>1, <1>2, <3>4, <6>1
          <6>3. QED BY <5>2, <6>2
        <5>3. QED BY <5>1, <5>2
      <4>2. 1 .. k - 1 \subseteq 1 .. N
        BY <1>1
      <4>3. QED BY <1>1, <4>1, <4>2
    <3>6. Wait(l, k - 1) <= msecs
      BY <1>1, <1>2, <3>3
    <3>7. k \in 1 .. N + 1 /\ Wait(l, k) > msecs
      BY <1>1
    <3>8. QED BY <3>5, <3>6, <3>7
  <2>3. QED BY <2>1, <2>2
<1>4. PICK k \in 1 .. N + 1 : S = 1 .. k - 1 /\ Wait(l, k - 1) <= msecs /\ (k <= N => Wait(l, k) > msecs)
  BY <1>3
<1>5. p = k
  <2>1. Cardinality(1 .. k - 1) = IF 1 <= k - 1 THEN k - 1 - 1 + 1 ELSE 0
    BY <1>1, FS_Interval
  <2> HIDE DEF S
  <2>2. Cardinality(S) = k - 1 /\ k \in Nat
    <3>1. k \in Nat /\ k >= 1
      BY <1>1
    <3>2. Cardinality(S) = Cardinality(1 .. k - 1)
      BY <1>4
    <3>3. QED BY <2>1, <3>1, <3>2
  <2>3. QED BY <1>1, <2>2
<1>6. QED BY <1>4, <1>5 DEF N, p

(* An entry is where it was: what matters of it, and when it is due.       *)
Same(m, j, l, i) == m[j].h = l[i].h /\ m[j].left = l[i].left /\ Wait(m, j) = Wait(l, i)
Kept(l, m, new) == \A j \in 1 .. Len(m) : j # new => \E i \in 1 .. Len(l) : Same(m, j, l, i)

LEMMA InsertKeeps ==
    ASSUME NEW l \in Seq(Timer), NEW e \in Timer
    PROVE  LET m == Insert(l, e) IN
           /\ m \in Seq(Timer) /\ Len(m) = Len(l) + 1
           /\ \E p \in 1 .. Len(m) : /\ m[p].h = e.h /\ m[p].left = e.left /\ Wait(m, p) = e.time
                                     /\ Kept(l, m, p)
<1> DEFINE N == Len(l)
<1>16. e.time \in Nat /\ N \in Nat
  BY DEF Timer
<1>17. PICK p :
           /\ p \in 1 .. N + 1
           /\ p = Place(l, e.time)
           /\ Wait(l, p - 1) <= e.time /\ (p <= N => Wait(l, p) > e.time)
  BY <1>16, PlaceIs
<1> DEFINE before == Wait(l, p - 1)
           by == e.time - before
           r == Reduced(l, p, by)
           x == [e EXCEPT !.time = @ - before]
           m == Insert(l, e)
<1>1. e.time \in Nat /\ N \in Nat /\ p \in Nat
  BY <1>16, <1>17
<1>2. p \in 1 .. N + 1 /\ before <= e.time /\ (p <= N => Wait(l, p) > e.time)
  BY <1>17
<1>3. m = InsertAt(r, p, x)
  BY <1>17 DEF Insert
<1> HIDE DEF m
<1>4. before \in Nat /\ (p <= N => Wait(l, p) = before + l[p].time /\ Wait(l, p) \in Nat)
  BY <1>1, <1>2, WaitIs
<1> HIDE DEF before
<1>15. by \in Nat
  BY <1>1, <1>2, <1>4
<1>5. x \in Timer /\ x.h = e.h /\ x.left = e.left /\ x.time = by /\ by \in Nat
  BY <1>15 DEF Timer
<1>6. p <= N => l[p] \in Timer /\ l[p].time \in Nat /\ l[p].time - by \in Nat
  <2>1. p <= N => l[p] \in Timer
    BY <1>1, <1>2
  <2>2. QED BY <1>1, <1>2, <1>4, <2>1 DEF Timer
<1> HIDE DEF x, before, by
<1>7. /\ r \in Seq(Timer) /\ Len(r) = N
      /\ \A j \in 1 .. N : /\ r[j].h = l[j].h /\ r[j].left = l[j].left
                           /\ r[j].time = IF j = p THEN l[j].time - by ELSE l[j].time
  BY <1>1, <1>2, <1>5, <1>6, ReducedIs
<1> HIDE DEF r
<1>8. /\ m \in Seq(Timer) /\ Len(m) = N + 1
      /\ \A j \in 1 .. p - 1 : m[j] = r[j]
      /\ m[p] = x
      /\ \A j \in p + 1 .. N + 1 : m[j] = r[j - 1]
  <2>1. p \in 1 .. Len(r) + 1
    BY <1>2, <1>7
  <2>2. r \in Seq(Timer) /\ x \in Timer
    BY <1>5, <1>7
  <2> HIDE DEF x
  <2>3. /\ m \in Seq(Timer) /\ Len(m) = Len(r) + 1
        /\ \A j \in 1 .. p - 1 : m[j] = r[j]
        /\ m[p] = x
        /\ \A j \in p .. Len(r) : m[j + 1] = r[j]
    <3>1. m \in Seq(Timer) /\ Inserted(m, r, p, x)
      BY <1>3, <2>1, <2>2, InsertAtIs
    <3>2. QED BY <3>1 DEF Inserted
  <2>4. ASSUME NEW j \in p + 1 .. N + 1 PROVE m[j] = r[j - 1]
    <3>1. j - 1 \in p .. Len(r) /\ (j - 1) + 1 = j
      BY <1>1, <1>7
    <3>2. QED BY <2>3, <3>1
  <2>5. QED BY <1>7, <2>3, <2>4
<1> HIDE DEF N
<1>9. \A j \in 0 .. p - 1 : Wait(m, j) = Wait(l, j + 0)
  <2>1. Wait(m, 0) = Wait(l, 0 + 0)
    BY <1>8, WaitIs
  <2>2. \A j \in 0 + 1 .. p - 1 : m[j].time = l[j + 0].time
    BY <1>1, <1>2, <1>7, <1>8
  <2> DEFINE k == 0
             a == 0
             b == p - 1
  <2>3. /\ k \in Int /\ b \in 0 .. Len(m) /\ a \in 0 .. b /\ a + k >= 0 /\ b + k <= Len(l)
        /\ Wait(m, a) = Wait(l, a + k) /\ \A j \in a + 1 .. b : m[j].time = l[j + k].time
    BY <1>1, <1>2, <1>8, <2>1, <2>2 DEF N
  <2> HIDE DEF a, b, k
  <2>4. \A j \in a .. b : Wait(m, j) = Wait(l, j + k)
    BY <1>8, <2>3, SameOn
  <2>5. QED BY <2>4 DEF a, b, k
<1>10. Wait(m, p) = e.time /\ m[p] = x
  <2>1. Wait(m, p) = Wait(m, p - 1) + m[p].time
    BY <1>1, <1>2, <1>8, WaitIs
  <2>2. Wait(m, p - 1) = before
    BY <1>1, <1>2, <1>9 DEF before
  <2>3. m[p] = x
    BY <1>1, <1>2, <1>8
  <2>4. QED BY <1>1, <1>4, <1>5, <2>1, <2>2, <2>3 DEF by
<1>11. p <= N => \A j \in p + 1 .. N + 1 : Wait(m, j) = Wait(l, j + (-1))
  <2>1. SUFFICES ASSUME p <= N PROVE \A j \in p + 1 .. N + 1 : Wait(m, j) = Wait(l, j + (-1))
    OBVIOUS
  <2>2. Wait(m, p + 1) = Wait(m, p) + m[p + 1].time
    <3> DEFINE q == p + 1
    <3>1. q \in 1 .. Len(m) /\ q - 1 = p
      BY <1>1, <1>2, <1>8, <2>1
    <3> HIDE DEF q
    <3>2. Wait(m, q) = Wait(m, q - 1) + m[q].time
      BY <1>8, <3>1, WaitIs
    <3>3. Wait(m, q) = Wait(m, p) + m[q].time
      BY <3>1, <3>2
    <3>4. QED BY <3>3 DEF q
  <2>3. m[p + 1].time = l[p].time - by
    BY <1>1, <1>2, <1>7, <1>8, <2>1
  <2>4. Wait(m, p + 1) = Wait(l, p + 1 + (-1))
    <3>1. p + 1 + (-1) = p
      BY <1>2, <1>1
    <3>2. QED BY <1>1, <1>4, <1>6, <1>10, <2>1, <2>2, <2>3, <3>1 DEF by
  <2>5. \A j \in p + 1 + 1 .. N + 1 : m[j].time = l[j + (-1)].time
    BY <1>1, <1>2, <1>7, <1>8, <2>1
  <2> DEFINE k == -1
             a == p + 1
             b == N + 1
  <2>6. /\ k \in Int /\ b \in 0 .. Len(m) /\ a \in 0 .. b /\ a + k >= 0 /\ b + k <= Len(l)
        /\ Wait(m, a) = Wait(l, a + k) /\ \A j \in a + 1 .. b : m[j].time = l[j + k].time
    BY <1>1, <1>2, <1>8, <2>1, <2>4, <2>5 DEF N
  <2> HIDE DEF a, b, k
  <2>7. \A j \in a .. b : Wait(m, j) = Wait(l, j + k)
    BY <1>8, <2>6, SameOn
  <2>8. QED BY <2>7 DEF a, b, k
<1>12. Kept(l, m, p)
  <2>1. ASSUME NEW j \in 1 .. N + 1, j < p PROVE j \in 1 .. N /\ Same(m, j, l, j)
    BY <1>1, <1>2, <1>7, <1>8, <1>9, <2>1 DEF Same
  <2>2. ASSUME NEW j \in 1 .. N + 1, j > p PROVE j - 1 \in 1 .. N /\ Same(m, j, l, j - 1)
    BY <1>1, <1>2, <1>7, <1>8, <1>11, <2>2 DEF Same
  <2>3. QED BY <1>1, <1>2, <1>8, <2>1, <2>2 DEF Kept, N
<1>13. p \in 1 .. Len(m)
  BY <1>2, <1>8
<1>14. QED BY <1>5, <1>8, <1>10, <1>12, <1>13 DEF m, N

LEMMA RemoveKeeps ==
    ASSUME NEW l \in Seq(Timer), NEW p, p \in 1 .. Len(l)
    PROVE  LET m == RemoveAt(Reduced(l, p + 1, -l[p].time), p) IN
           m \in Seq(Timer) /\ Len(m) = Len(l) - 1 /\ Kept(l, m, 0)
<1> DEFINE N == Len(l)
           q == p + 1
           by == -l[p].time
           r == Reduced(l, q, by)
           m == RemoveAt(r, p)
<1>1. N \in Nat /\ p \in Nat /\ p \in 1 .. N
  OBVIOUS
<1>2. l[p] \in Timer /\ l[p].time \in Nat
  <2>1. l[p] \in Timer
    BY <1>1
  <2>2. QED BY <2>1 DEF Timer
<1>3. by \in Int /\ q \in Nat /\ q = p + 1 /\ by = -l[p].time
  BY <1>1, <1>2
<1>4. q \in 1 .. N => l[q].time - by \in Nat
  <2>1. q \in 1 .. N => l[q] \in Timer
    OBVIOUS
  <2>2. QED BY <1>2, <1>3, <2>1 DEF Timer
<1> HIDE DEF q, by
<1>5. /\ r \in Seq(Timer) /\ Len(r) = N
      /\ \A j \in 1 .. N : /\ r[j].h = l[j].h /\ r[j].left = l[j].left
                           /\ r[j].time = IF j = q THEN l[j].time - by ELSE l[j].time
  BY <1>3, <1>4, ReducedIs
<1> HIDE DEF r
<1>6. m \in Seq(Timer) /\ Removed(m, r, p)
  BY <1>1, <1>5, RemoveAtIs
<1> HIDE DEF m
<1>7. /\ m \in Seq(Timer) /\ Len(m) = N - 1
      /\ \A j \in 1 .. p - 1 : m[j] = r[j]
      /\ \A j \in p .. N - 1 : m[j] = r[j + 1]
  BY <1>5, <1>6 DEF Removed
<1> HIDE DEF N
<1>8. \A j \in 0 .. p - 1 : Wait(m, j) = Wait(l, j + 0)
  <2>1. Wait(m, 0) = Wait(l, 0 + 0)
    BY <1>7, WaitIs
  <2>2. \A j \in 0 + 1 .. p - 1 : m[j].time = l[j + 0].time
    BY <1>1, <1>3, <1>5, <1>7
  <2> DEFINE k == 0
             a == 0
             b == p - 1
  <2>3. /\ k \in Int /\ b \in 0 .. Len(m) /\ a \in 0 .. b /\ a + k >= 0 /\ b + k <= Len(l)
        /\ Wait(m, a) = Wait(l, a + k) /\ \A j \in a + 1 .. b : m[j].time = l[j + k].time
    BY <1>1, <1>7, <2>1, <2>2 DEF N
  <2> HIDE DEF a, b, k
  <2>4. \A j \in a .. b : Wait(m, j) = Wait(l, j + k)
    BY <1>7, <2>3, SameOn
  <2>5. QED BY <2>4 DEF a, b, k
<1>9. p <= N - 1 => \A j \in p .. N - 1 : Wait(m, j) = Wait(l, j + 1)
  <2>1. SUFFICES ASSUME p <= N - 1 PROVE \A j \in p .. N - 1 : Wait(m, j) = Wait(l, j + 1)
    OBVIOUS
  <2>2. Wait(m, p) = Wait(m, p - 1) + m[p].time
    BY <1>1, <1>7, <2>1, WaitIs
  <2>3. Wait(m, p - 1) = Wait(l, p - 1)
    BY <1>1, <1>8
  <2>4. m[p].time = l[q].time - by
    BY <1>1, <1>3, <1>5, <1>7, <2>1
  <2>5. Wait(l, p) = Wait(l, p - 1) + l[p].time /\ Wait(l, p - 1) \in Nat
    BY <1>1, <2>1, WaitIs DEF N
  <2>6. Wait(l, q) = Wait(l, p) + l[q].time
    <3>1. q \in 1 .. Len(l) /\ q - 1 = p
      BY <1>1, <1>3, <2>1 DEF N
    <3>2. Wait(l, q) = Wait(l, q - 1) + l[q].time
      BY <3>1, WaitIs
    <3>3. QED BY <3>1, <3>2
  <2>7. l[q].time \in Nat
    <3>1. l[q] \in Timer
      BY <1>1, <1>3, <2>1 DEF N
    <3>2. QED BY <3>1 DEF Timer
  <2>8. Wait(m, p) = Wait(l, q)
    BY <1>2, <1>3, <2>2, <2>3, <2>4, <2>5, <2>6, <2>7
  <2>9. \A j \in p + 1 .. N - 1 : m[j].time = l[j + 1].time
    <3>1. ASSUME NEW j \in p + 1 .. N - 1 PROVE m[j].time = l[j + 1].time
      <4>1. j \in p .. N - 1 /\ j + 1 \in 1 .. N /\ j + 1 # q
        BY <1>1, <1>3
      <4>2. QED BY <1>5, <1>7, <4>1
    <3>2. QED BY <3>1
  <2> DEFINE k == 1
             a == p
             b == N - 1
  <2>10. /\ k \in Int /\ b \in 0 .. Len(m) /\ a \in 0 .. b /\ a + k >= 0 /\ b + k <= Len(l)
         /\ Wait(m, a) = Wait(l, a + k) /\ \A j \in a + 1 .. b : m[j].time = l[j + k].time
    BY <1>1, <1>3, <1>7, <2>1, <2>8, <2>9 DEF N
  <2> HIDE DEF a, b, k
  <2>11. \A j \in a .. b : Wait(m, j) = Wait(l, j + k)
    BY <1>7, <2>10, SameOn
  <2>12. QED BY <2>11 DEF a, b, k
<1>10. Kept(l, m, 0)
  <2>1. ASSUME NEW j \in 1 .. N - 1, j < p PROVE j \in 1 .. N /\ Same(m, j, l, j)
    BY <1>1, <1>3, <1>5, <1>7, <1>8, <2>1 DEF Same
  <2>2. ASSUME NEW j \in 1 .. N - 1, j >= p PROVE j + 1 \in 1 .. N /\ Same(m, j, l, j + 1)
    <3>1. j \in p .. N - 1 /\ j + 1 \in 1 .. N /\ p <= N - 1
      BY <1>1, <2>2
    <3>2. m[j] = r[j + 1] /\ Wait(m, j) = Wait(l, j + 1)
      BY <1>7, <1>9, <3>1
    <3>3. QED BY <1>5, <3>1, <3>2 DEF Same
  <2>3. QED BY <1>1, <1>7, <2>1, <2>2 DEF Kept, N
<1>11. QED BY <1>7, <1>10 DEF m, N, r, q, by

LEMMA KeptIsTransitive ==
    ASSUME NEW l, NEW m, NEW u, NEW new, Kept(l, m, 0), Kept(m, u, new), Len(m) \in Nat
    PROVE  Kept(l, u, new)
<1>1. ASSUME NEW j \in 1 .. Len(u), j # new PROVE \E i \in 1 .. Len(l) : Same(u, j, l, i)
  <2>1. PICK i \in 1 .. Len(m) : Same(u, j, m, i)
    BY <1>1 DEF Kept
  <2>2. i # 0
    OBVIOUS
  <2>3. PICK o \in 1 .. Len(l) : Same(m, i, l, o)
    BY <2>2 DEF Kept
  <2>4. QED BY <2>1, <2>3 DEF Same
<1>2. QED BY <1>1 DEF Kept

LEMMA KeptIsReflexive ==
    ASSUME NEW l PROVE Kept(l, l, 0)
BY DEF Kept, Same

(* The list and the pool with n entries between them.                      *)
Shared(st, n) == st.list \in Seq(Timer) /\ st.free \in Nat /\ st.free + Len(st.list) = n

(* What a call does: all stay, but for one that waits as long as it was    *)
(* asked to.                                                               *)
Extends(l, m) ==
    \E new \in 0 .. Len(m) : Kept(l, m, new) /\ (new # 0 => Wait(m, new) = m[new].left)

LEMMA TimeoutKeeps ==
    ASSUME NEW st, NEW n \in Nat, Shared(st, n), NEW h \in Handlers, NEW msecs \in Nat
    PROVE  Shared(Timeout(st, h, msecs), n) /\ Extends(st.list, Timeout(st, h, msecs).list)
<1> DEFINE u == Timeout(st, h, msecs)
<1>1. st.list \in Seq(Timer) /\ st.free \in Nat /\ st.free + Len(st.list) = n /\ Len(st.list) \in Nat
  BY DEF Shared
<1>2. CASE st.free = 0
  <2>1. u = st
    BY <1>2 DEF Timeout
  <2>2. Extends(st.list, st.list)
    BY <1>1, KeptIsReflexive DEF Extends
  <2>3. QED BY <2>1, <2>2
<1>3. CASE st.free # 0
  <2> DEFINE e == [h |-> h, time |-> msecs, left |-> msecs]
             m == Insert(st.list, e)
  <2>1. u.list = m /\ u.free = st.free - 1
    BY <1>3 DEF Timeout
  <2>2. e \in Timer /\ e.time = msecs /\ e.left = msecs
    BY DEF Timer
  <2> HIDE DEF e
  <2>3. m \in Seq(Timer) /\ Len(m) = Len(st.list) + 1
    BY <1>1, <2>2, InsertKeeps
  <2>4. PICK p \in 1 .. Len(m) : /\ m[p].h = e.h /\ m[p].left = e.left /\ Wait(m, p) = e.time
                                 /\ Kept(st.list, m, p)
    BY <1>1, <2>2, InsertKeeps
  <2> HIDE DEF m
  <2>5. p \in 0 .. Len(m) /\ Wait(m, p) = m[p].left
    BY <2>2, <2>4
  <2>6. Extends(st.list, m)
    BY <2>4, <2>5 DEF Extends
  <2>7. Shared(u, n)
    BY <1>1, <1>3, <2>1, <2>3 DEF Shared
  <2>8. QED BY <2>1, <2>6, <2>7
<1>4. QED BY <1>2, <1>3

LEMMA UntimeoutKeeps ==
    ASSUME NEW st, NEW n \in Nat, Shared(st, n), NEW h
    PROVE  Shared(Untimeout(st, h), n) /\ Kept(st.list, Untimeout(st, h).list, 0)
<1> DEFINE l == st.list
           u == Untimeout(st, h)
           of == {i \in DOMAIN l : l[i].h = h}
           p == Min(of)
<1>1. l \in Seq(Timer) /\ st.free \in Nat /\ st.free + Len(l) = n /\ Len(l) \in Nat
  BY DEF Shared
<1>2. CASE of = {}
  <2>1. u = st
    BY <1>2 DEF Untimeout
  <2>2. QED BY <2>1, KeptIsReflexive
<1>3. CASE of # {}
  <2>1. of \subseteq Nat /\ of \subseteq 1 .. Len(l)
    BY <1>1
  <2>2. PICK k \in of : \A j \in of : ~(<<j, k>> \in OpToRel(<, Nat))
    BY <1>3, <2>1, NatLessThanWellFounded, WFMin
  <2>3. \A j \in of : k <= j
    <3> HIDE DEF of
    <3>1. \A j \in of : ~(j < k) /\ j \in Nat
      BY <2>1, <2>2 DEF OpToRel
    <3>2. QED BY <2>1, <3>1
  <2>4. p \in of
    BY <2>2, <2>3 DEF Min
  <2> DEFINE m == RemoveAt(Reduced(l, p + 1, -l[p].time), p)
  <2>5. u.list = m /\ u.free = st.free + 1
    BY <1>3 DEF Untimeout
  <2> HIDE DEF p
  <2>6. p \in 1 .. Len(l)
    BY <2>1, <2>4
  <2>7. m \in Seq(Timer) /\ Len(m) = Len(l) - 1 /\ Kept(l, m, 0)
    BY <1>1, <2>6, RemoveKeeps
  <2> HIDE DEF m, u
  <2>8. Shared(u, n)
    BY <1>1, <2>5, <2>7 DEF Shared
  <2>9. QED BY <2>5, <2>7, <2>8 DEF u
<1>4. QED BY <1>2, <1>3

----------------------------------------------------------------------------
(* No entry is early by more than a gap, p after the last callback.        *)
Punctual(l, p) == \A i \in 1 .. Len(l) : Wait(l, i) - p >= l[i].left - Gap

LEMMA PunctualStays ==
    ASSUME NEW l \in Seq(Timer), NEW m \in Seq(Timer), NEW p \in 0 .. Gap,
           Punctual(l, p), Extends(l, m)
    PROVE  Punctual(m, p)
<1>1. PICK new \in 0 .. Len(m) : Kept(l, m, new) /\ (new # 0 => Wait(m, new) = m[new].left)
  BY DEF Extends
<1>2. ASSUME NEW j \in 1 .. Len(m) PROVE Wait(m, j) - p >= m[j].left - Gap
  <2>1. CASE j = new
    <3>1. m[j] \in Timer /\ m[j].left \in Int /\ Wait(m, j) = m[j].left
      <4>1. m[j] \in Timer
        OBVIOUS
      <4>2. QED BY <1>1, <2>1, <4>1 DEF Timer
    <3>2. p \in Int /\ p <= Gap /\ Gap \in Int
      BY TimeoutsAssumption
    <3>3. QED BY <3>1, <3>2
  <2>2. CASE j # new
    <3>1. PICK i \in 1 .. Len(l) : Same(m, j, l, i)
      BY <1>1, <2>2 DEF Kept
    <3>2. QED BY <3>1 DEF Punctual, Same
  <2>3. QED BY <2>1, <2>2
<1>3. QED BY <1>2 DEF Punctual

TimeoutsInv == /\ Shared(Timers, MEMP_NUM_SYS_TIMEOUT) /\ past \in 0 .. Gap
               /\ Punctual(timeouts, past)

LEMMA InvIsSound == TimeoutsInv => TimersAreSound
<1> SUFFICES ASSUME TimeoutsInv PROVE TimersAreSound
  OBVIOUS
<1>1. /\ timeouts \in Seq(Timer) /\ free \in Nat /\ free + Len(timeouts) = MEMP_NUM_SYS_TIMEOUT
      /\ past \in 0 .. Gap /\ DOMAIN timeouts = 1 .. Len(timeouts)
  BY DEF TimeoutsInv, Shared, Timers
<1>2. \A i \in 1 .. Len(timeouts) : timeouts[i] \in Timer
  BY <1>1
<1>3. TimeoutsTypeOK
  BY <1>1, <1>2 DEF TimeoutsTypeOK, Timer
<1>4. EarlyByAGapAtMost
  BY <1>1 DEF TimeoutsInv, Punctual, EarlyByAGapAtMost, Remaining
<1>5. QED BY <1>3, <1>4 DEF TimersAreSound

LEMMA InitIsSound == TimeoutsInit => TimeoutsInv
<1> SUFFICES ASSUME TimeoutsInit PROVE TimeoutsInv
  OBVIOUS
<1>1. timeouts = <<>> /\ free = MEMP_NUM_SYS_TIMEOUT /\ past \in 0 .. Gap
  BY DEF TimeoutsInit
<1>2. <<>> \in Seq(Timer) /\ Len(<<>>) = 0
  OBVIOUS
<1>3. Shared(Timers, MEMP_NUM_SYS_TIMEOUT)
  BY <1>1, <1>2, TimeoutsAssumption DEF Shared, Timers
<1>4. Punctual(timeouts, past)
  BY <1>1, <1>2 DEF Punctual
<1>5. QED BY <1>1, <1>3, <1>4 DEF TimeoutsInv

(* A call leaves what waits as it is.                                      *)
LEMMA CallKeeps ==
    ASSUME TimeoutsInv, Calls
    PROVE  /\ Shared(Timers', MEMP_NUM_SYS_TIMEOUT) /\ past' = past
           /\ Extends(timeouts, timeouts')
<1> DEFINE n == MEMP_NUM_SYS_TIMEOUT
<1>1. /\ n \in Nat /\ Delays \subseteq Nat /\ Timers.list = timeouts /\ Timers.free = free
      /\ Timers'.list = timeouts' /\ Timers'.free = free' /\ Shared(Timers, n)
  BY TimeoutsAssumption DEF Timers, TimeoutsInv
<1> HIDE DEF n
<1>2. ASSUME NEW st, TimersBecome(st), Shared(st, n) PROVE Shared(Timers', n) /\ timeouts' = st.list
  BY <1>1, <1>2 DEF TimersBecome, Shared
<1>3. ASSUME NEW h \in Handlers, NEW msecs \in Delays, sys_timeout(h, msecs)
      PROVE  Shared(Timers', n) /\ past' = past /\ Extends(timeouts, timeouts')
  <2>1. Shared(Timeout(Timers, h, msecs), n) /\ Extends(timeouts, Timeout(Timers, h, msecs).list)
    BY <1>1, TimeoutKeeps
  <2>2. QED BY <1>2, <1>3, <2>1 DEF sys_timeout
<1>4. ASSUME NEW h \in Handlers, sys_untimeout(h)
      PROVE  Shared(Timers', n) /\ past' = past /\ Extends(timeouts, timeouts')
  <2>1. Shared(Untimeout(Timers, h), n) /\ Kept(timeouts, Untimeout(Timers, h).list, 0)
    BY <1>1, UntimeoutKeeps
  <2>2. Shared(Timers', n) /\ timeouts' = Untimeout(Timers, h).list /\ past' = past
    BY <1>2, <1>4, <2>1 DEF sys_untimeout
  <2>3. 0 \in 0 .. Len(timeouts')
    <3>1. timeouts' \in Seq(Timer)
      BY <1>1, <2>2 DEF Shared
    <3>2. QED BY <3>1
  <2>4. Extends(timeouts, timeouts')
    BY <2>1, <2>2, <2>3 DEF Extends
  <2>5. QED BY <2>2, <2>4
<1>5. ASSUME NEW h \in Handlers, NEW msecs \in Delays, TIMEOUT(h, msecs)
      PROVE  Shared(Timers', n) /\ past' = past /\ Extends(timeouts, timeouts')
  <2> DEFINE v == Untimeout(Timers, h)
             u == Timeout(v, h, msecs)
  <2>1. Shared(v, n) /\ Kept(timeouts, v.list, 0) /\ Len(v.list) \in Nat
    BY <1>1, UntimeoutKeeps DEF Shared
  <2> HIDE DEF v
  <2>2. Shared(u, n) /\ Extends(v.list, u.list)
    BY <1>1, <2>1, TimeoutKeeps
  <2>3. TimersBecome(u) /\ past' = past
    BY <1>5 DEF TIMEOUT, v
  <2> HIDE DEF u
  <2>4. Extends(timeouts, u.list)
    BY <2>1, <2>2, KeptIsTransitive DEF Extends
  <2>5. QED BY <1>2, <2>2, <2>3, <2>4
<1>6. ASSUME sys_timeout_clear
      PROVE  Shared(Timers', n) /\ past' = past /\ Extends(timeouts, timeouts')
  <2>1. timeouts' = <<>> /\ free' = free + Len(timeouts) /\ past' = past
    BY <1>6 DEF sys_timeout_clear, TimersBecome
  <2>2. <<>> \in Seq(Timer) /\ Len(<<>>) = 0 /\ 0 \in 0 .. Len(<<>>)
    OBVIOUS
  <2>3. Shared(Timers', n)
    BY <1>1, <2>1, <2>2 DEF Shared
  <2>4. Extends(timeouts, timeouts')
    BY <2>1, <2>2 DEF Extends, Kept
  <2>5. QED BY <2>1, <2>3, <2>4
<1>7. QED BY <1>3, <1>4, <1>5, <1>6 DEF Calls, n

(* What is left of a list behind its head waits shorter by what the head   *)
(* had to.                                                                 *)
LEMMA BehindTheHead ==
    ASSUME NEW l \in Seq(Timer), l # <<>>
    PROVE  /\ Tail(l) \in Seq(Timer) /\ Len(Tail(l)) = Len(l) - 1 /\ Head(l) \in Timer
           /\ \A j \in 1 .. Len(l) - 1 : /\ Tail(l)[j] = l[j + 1]
                                         /\ Wait(Tail(l), j) = Wait(l, j + 1) - Head(l).time
<1> DEFINE m == Tail(l)
           N == Len(l)
           d == Head(l).time
<1>1. /\ m \in Seq(Timer) /\ Len(m) = N - 1 /\ N \in Nat /\ N >= 1
      /\ \A j \in 1 .. N - 1 : m[j] = l[j + 1]
  OBVIOUS
<1>2. Head(l) = l[1] /\ l[1] \in Timer /\ d \in Nat
  <2>1. Head(l) = l[1] /\ l[1] \in Timer
    BY <1>1
  <2>2. QED BY <2>1 DEF Timer
<1>3. Wait(l, 1) = d
  <2>1. Wait(l, 1) = Wait(l, 1 - 1) + l[1].time
    BY <1>1, WaitIs
  <2>2. QED BY <1>2, <2>1, WaitIs
<1> HIDE DEF m, N, d
<1> DEFINE k == 1
           a == 0
           b == N - 1
<1>4. /\ k \in Int /\ d \in Int /\ b \in 0 .. Len(m) /\ a \in 0 .. b /\ a + k >= 0 /\ b + k <= Len(l)
      /\ \A j \in a + 1 .. b : m[j].time = l[j + k].time
  BY <1>1, <1>2 DEF N
<1>5. Wait(m, a) = Wait(l, a + k) - d
  <2>1. Wait(m, 0) = 0
    BY <1>1, WaitIs
  <2>2. QED BY <1>2, <1>3, <2>1
<1> HIDE DEF a, b, k
<1>6. \A j \in a .. b : Wait(m, j) = Wait(l, j + k) - d
  BY <1>1, <1>4, <1>5, ApartBy
<1>7. QED BY <1>1, <1>2, <1>6 DEF a, b, k, N, m, d

LEMMA TheHeadWaits ==
    ASSUME NEW l \in Seq(Timer), l # <<>>, NEW p \in Nat, Head(l).time > p
    PROVE  LET m == Reduced(l, 1, p) IN
           /\ m \in Seq(Timer) /\ Len(m) = Len(l)
           /\ \A j \in 1 .. Len(l) : m[j].left = l[j].left /\ Wait(m, j) = Wait(l, j) - p
<1> DEFINE m == Reduced(l, 1, p)
           N == Len(l)
<1>1. N \in Nat /\ N >= 1 /\ Head(l) = l[1] /\ l[1] \in Timer
  OBVIOUS
<1>2. l[1].time \in Nat /\ l[1].time - p \in Nat
  BY <1>1 DEF Timer
<1>3. /\ m \in Seq(Timer) /\ Len(m) = N
      /\ \A j \in 1 .. N : /\ m[j].h = l[j].h /\ m[j].left = l[j].left
                           /\ m[j].time = IF j = 1 THEN l[j].time - p ELSE l[j].time
  BY <1>1, <1>2, ReducedIs
<1> HIDE DEF m
<1>4. Wait(m, 1) = Wait(l, 1) - p
  <2>1. Wait(m, 1) = Wait(m, 1 - 1) + m[1].time /\ Wait(m, 0) = 0
    BY <1>1, <1>3, WaitIs
  <2>2. Wait(l, 1) = Wait(l, 1 - 1) + l[1].time /\ Wait(l, 0) = 0
    BY <1>1, WaitIs
  <2>3. m[1].time = l[1].time - p
    BY <1>1, <1>3
  <2>4. QED BY <1>2, <2>1, <2>2, <2>3
<1> DEFINE k == 0
           a == 1
<1>5. /\ k \in Int /\ p \in Int /\ N \in 0 .. Len(m) /\ a \in 0 .. N /\ a + k >= 0 /\ N + k <= Len(l)
      /\ \A j \in a + 1 .. N : m[j].time = l[j + k].time
  BY <1>1, <1>3
<1>6. Wait(m, a) = Wait(l, a + k) - p
  BY <1>4
<1> HIDE DEF a, k, N
<1>7. \A j \in a .. N : Wait(m, j) = Wait(l, j + k) - p
  BY <1>3, <1>5, <1>6, ApartBy
<1>8. QED BY <1>3, <1>7 DEF a, k, N, m

LEMMA CallbackKeeps ==
    ASSUME TimeoutsInv, sys_timeout_callback
    PROVE  TimeoutsInv'
<1> DEFINE n == MEMP_NUM_SYS_TIMEOUT
           l == timeouts
<1>1. /\ n \in Nat /\ l \in Seq(Timer) /\ free \in Nat /\ free + Len(l) = n /\ Len(l) \in Nat
      /\ past \in 0 .. Gap /\ Punctual(l, past) /\ Gap \in Nat
      /\ Timers'.list = timeouts' /\ Timers'.free = free'
  BY TimeoutsAssumption DEF Timers, TimeoutsInv, Shared
<1>2. past' = 0 /\ past' \in 0 .. Gap /\ past \in Nat /\ 0 \in 0 .. Gap
  BY <1>1 DEF sys_timeout_callback
<1> HIDE DEF n, l
<1>3. SUFFICES Shared(Timers', n) /\ Punctual(timeouts', 0)
  BY <1>2 DEF TimeoutsInv, n
<1>10. \A i \in 1 .. Len(l) : l[i].left \in Int /\ Wait(l, i) \in Nat /\ Wait(l, i) - past >= l[i].left - Gap
  <2>1. ASSUME NEW i \in 1 .. Len(l) PROVE l[i].left \in Int
    <3>1. l[i] \in Timer
      BY <1>1
    <3>2. QED BY <3>1 DEF Timer
  <2>2. QED BY <1>1, <2>1, WaitIs DEF Punctual
<1>4. CASE l = <<>>
  <2>1. timeouts' = <<>> /\ free' = free
    BY <1>4 DEF sys_timeout_callback, l
  <2>2. <<>> \in Seq(Timer) /\ Len(<<>>) = 0
    OBVIOUS
  <2>3. QED BY <1>1, <1>4, <2>1, <2>2 DEF Shared, Punctual
<1>5. CASE l # <<>> /\ Head(l).time > past
  <2> DEFINE m == Reduced(l, 1, past)
  <2>1. timeouts' = m /\ free' = free
    BY <1>5 DEF sys_timeout_callback, TimersBecome, l
  <2>2. /\ m \in Seq(Timer) /\ Len(m) = Len(l)
        /\ \A j \in 1 .. Len(l) : m[j].left = l[j].left /\ Wait(m, j) = Wait(l, j) - past
    BY <1>1, <1>2, <1>5, TheHeadWaits
  <2> HIDE DEF m
  <2>3. Punctual(m, 0)
    <3>1. ASSUME NEW i \in 1 .. Len(m) PROVE Wait(m, i) - 0 >= m[i].left - Gap
      BY <1>1, <1>2, <1>10, <2>2
    <3>2. QED BY <3>1 DEF Punctual
  <2>4. QED BY <1>1, <2>1, <2>2, <2>3 DEF Shared
<1>6. CASE l # <<>> /\ ~(Head(l).time > past)
  <2> DEFINE m == Tail(l)
             off == [list |-> m, free |-> free]
             h == Head(l).h
             st == Handle(off, h)
  <2>1. timeouts' = st.list /\ free' = st.free + 1
    <3>1. TimersBecome([st EXCEPT !.free = @ + 1])
      BY <1>6 DEF sys_timeout_callback, l
    <3>2. st = off \/ \E w : st = [list |-> w.list, free |-> w.free]
      <4>1. CASE h \in DOMAIN Again /\ free # 0
        <5> DEFINE w == st
        <5>1. \E a, b : st = [list |-> a, free |-> b]
          BY <4>1 DEF Handle, Timeout
        <5>2. QED BY <5>1
      <4>2. CASE ~(h \in DOMAIN Again /\ free # 0)
        BY <4>2 DEF Handle, Timeout
      <4>3. QED BY <4>1, <4>2
    <3> HIDE DEF st
    <3>3. QED BY <3>1, <3>2 DEF TimersBecome
  <2>2. /\ m \in Seq(Timer) /\ Len(m) = Len(l) - 1 /\ Head(l) \in Timer
        /\ \A j \in 1 .. Len(l) - 1 : m[j] = l[j + 1] /\ Wait(m, j) = Wait(l, j + 1) - Head(l).time
    BY <1>1, <1>6, BehindTheHead
  <2>3. h \in Handlers /\ Head(l).time \in Nat /\ Head(l).time <= past
    BY <1>2, <1>6, <2>2 DEF Timer
  <2>4. off.list = m /\ off.free = free
    OBVIOUS
  <2> HIDE DEF m, off, h
  <2>5. Punctual(m, 0)
    <3>1. ASSUME NEW i \in 1 .. Len(m) PROVE Wait(m, i) - 0 >= m[i].left - Gap
      <4> DEFINE o == i + 1
      <4>1. o \in 1 .. Len(l) /\ m[i] = l[o] /\ Wait(m, i) = Wait(l, o) - Head(l).time
        BY <1>1, <2>2
      <4> HIDE DEF o
      <4>2. QED BY <1>1, <1>2, <1>10, <2>3, <4>1
    <3>2. QED BY <3>1 DEF Punctual
  <2> DEFINE r == n - 1
  <2>6. r \in Nat /\ Shared(off, r)
    <3>1. l # <<>> => Len(l) > 0
      BY <1>1
    <3>2. r \in Nat /\ free + Len(m) = r
      BY <1>1, <1>6, <2>2, <3>1
    <3> HIDE DEF r
    <3>3. QED BY <1>1, <2>2, <2>4, <3>2 DEF Shared
  <2> HIDE DEF r
  <2>7. Shared(st, r) /\ Extends(m, st.list)
    <3>1. CASE h \in DOMAIN Again
      <4>1. Again[h] \in Nat
        BY <3>1, TimeoutsAssumption
      <4> DEFINE msecs == Again[h]
      <4>2. st = Timeout(off, h, msecs) /\ msecs \in Nat
        BY <3>1, <4>1 DEF Handle
      <4> HIDE DEF msecs, st
      <4>3. QED BY <2>3, <2>4, <2>6, <4>2, TimeoutKeeps
    <3>2. CASE h \notin DOMAIN Again
      <4>1. st = off
        BY <3>2 DEF Handle
      <4>2. Extends(m, m)
        BY <2>2, KeptIsReflexive DEF Extends
      <4>3. QED BY <2>4, <2>6, <4>1, <4>2
    <3>3. QED BY <3>1, <3>2
  <2> HIDE DEF st
  <2>8. Punctual(st.list, 0)
    BY <1>1, <1>2, <2>2, <2>5, <2>7, PunctualStays DEF Shared
  <2>9. Shared(Timers', n)
    BY <1>1, <2>1, <2>7 DEF Shared, r
  <2>10. QED BY <2>1, <2>8, <2>9
<1>7. QED BY <1>4, <1>5, <1>6

LEMMA TickKeeps ==
    ASSUME TimeoutsInv, Tick
    PROVE  TimeoutsInv'
<1> DEFINE n == MEMP_NUM_SYS_TIMEOUT
           l == timeouts
           m == timeouts'
           N == Len(l)
           x(i) == [l[i] EXCEPT !.left = IF @ = -MaxLate THEN @ ELSE @ - 1]
<1>1. /\ n \in Nat /\ l \in Seq(Timer) /\ free \in Nat /\ free + N = n /\ N \in Nat
      /\ past \in 0 .. Gap /\ Punctual(l, past) /\ Gap \in Nat /\ MaxLate \in Nat
      /\ Timers'.list = timeouts' /\ Timers'.free = free' /\ DOMAIN l = 1 .. N
  BY TimeoutsAssumption DEF Timers, TimeoutsInv, Shared
<1>2. past < Gap /\ past' = past + 1 /\ m = [i \in 1 .. N |-> x(i)] /\ free' = free
  BY <1>1 DEF Tick
<1> DEFINE y(i) == IF l[i].left = -MaxLate THEN l[i].left ELSE l[i].left - 1
<1>3. ASSUME NEW i \in 1 .. N
      PROVE  /\ x(i) \in Timer /\ x(i).time = l[i].time /\ x(i).left = y(i) /\ l[i].left \in Int
  <2>1. l[i] \in Timer
    BY <1>1
  <2>2. QED BY <2>1 DEF Timer
<1> HIDE DEF x, l, n
<1>4. m \in Seq(Timer) /\ Len(m) = N /\ \A i \in 1 .. N : m[i] = x(i)
  BY <1>1, <1>2, <1>3, IsASeq
<1> HIDE DEF m, N
<1> DEFINE k == 0
           a == 0
<1>5. /\ k \in Int /\ N \in 0 .. Len(m) /\ a \in 0 .. N /\ a + k >= 0 /\ N + k <= Len(l)
      /\ \A j \in a + 1 .. N : m[j].time = l[j + k].time
  BY <1>1, <1>3, <1>4 DEF N
<1>6. Wait(m, a) = Wait(l, a + k)
  BY <1>1, <1>4, WaitIs
<1> HIDE DEF a, k
<1>7. \A j \in a .. N : Wait(m, j) = Wait(l, j + k)
  BY <1>1, <1>4, <1>5, <1>6, SameOn
<1>8. Punctual(m, past + 1)
  <2>1. ASSUME NEW i \in 1 .. N PROVE Wait(m, i) - (past + 1) >= m[i].left - Gap
    <3>1. m[i].left = y(i) /\ l[i].left \in Int
      BY <1>3, <1>4
    <3>2. Wait(m, i) = Wait(l, i)
      BY <1>1, <1>7 DEF a, k
    <3>3. Wait(l, i) \in Nat
      <4>1. i \in 0 .. Len(l)
        BY <1>1 DEF N
      <4>2. QED BY <1>1, <4>1, WaitIs
    <3>4. Wait(l, i) - past >= l[i].left - Gap
      BY <1>1 DEF Punctual, N
    <3>5. QED BY <1>1, <1>2, <3>1, <3>2, <3>3, <3>4
  <2>2. QED BY <1>4, <2>1 DEF Punctual
<1>9. Shared(Timers', n)
  BY <1>1, <1>2, <1>4 DEF Shared, m
<1>10. past' \in 0 .. Gap
  BY <1>1, <1>2
<1>11. QED BY <1>2, <1>8, <1>9, <1>10 DEF TimeoutsInv, m, n

LEMMA InvIsKept == TimeoutsInv /\ [TimeoutsNext]_timeoutsVars => TimeoutsInv'
<1>1. ASSUME TimeoutsInv, Calls PROVE TimeoutsInv'
  <2>1. /\ Shared(Timers', MEMP_NUM_SYS_TIMEOUT) /\ past' = past
        /\ Extends(timeouts, timeouts')
    BY <1>1, CallKeeps
  <2>2. timeouts \in Seq(Timer) /\ timeouts' \in Seq(Timer) /\ past \in 0 .. Gap /\ Punctual(timeouts, past)
    BY <1>1, <2>1 DEF TimeoutsInv, Shared, Timers
  <2>3. Punctual(timeouts', past)
    BY <2>1, <2>2, PunctualStays
  <2>4. QED BY <2>1, <2>2, <2>3 DEF TimeoutsInv
<1>2. ASSUME TimeoutsInv, UNCHANGED timeoutsVars PROVE TimeoutsInv'
  BY <1>2 DEF TimeoutsInv, timeoutsVars, Timers, Shared, Punctual
<1>3. QED BY <1>1, <1>2, CallbackKeeps, TickKeeps DEF TimeoutsNext

(* No block of the pool is lost, no time goes below zero, and no timeout   *)
(* comes more than one round of the loop early, for any handlers, times,   *)
(* pool and gap: what sys_timeout and sys_untimeout of core/sys.c subtract *)
(* from and add to the neighbours is right.                                *)
THEOREM TimersStaySound == TimeoutsInit /\ [][TimeoutsNext]_timeoutsVars => []TimersAreSound
<1>1. QED BY InitIsSound, InvIsKept, InvIsSound, PTL

(* Setting a timeout and taking one back leave every other due when it was. *)
THEOREM OthersAreKept == TimeoutsInit /\ [][TimeoutsNext]_timeoutsVars => OthersKeepTheirTime
<1>1. ASSUME TimeoutsInv, Calls
      PROVE  \E new \in 0 .. Len(timeouts') : \A j \in DOMAIN timeouts' \ {new} :
                \E i \in DOMAIN timeouts : Due(timeouts')[j] = Due(timeouts)[i]
  <2>1. /\ Shared(Timers', MEMP_NUM_SYS_TIMEOUT)
        /\ Extends(timeouts, timeouts')
    BY <1>1, CallKeeps
  <2>2. timeouts \in Seq(Timer) /\ timeouts' \in Seq(Timer)
    BY <1>1, <2>1 DEF TimeoutsInv, Shared, Timers
  <2>3. DOMAIN timeouts = 1 .. Len(timeouts) /\ DOMAIN timeouts' = 1 .. Len(timeouts')
    BY <2>2
  <2>4. PICK new \in 0 .. Len(timeouts') : Kept(timeouts, timeouts', new)
    BY <2>1 DEF Extends
  <2>5. ASSUME NEW j \in DOMAIN timeouts' \ {new}
        PROVE  \E i \in DOMAIN timeouts : Due(timeouts')[j] = Due(timeouts)[i]
    <3>1. PICK i \in DOMAIN timeouts : Same(timeouts', j, timeouts, i)
      BY <2>3, <2>4, <2>5 DEF Kept
    <3>2. Due(timeouts')[j] = Due(timeouts)[i]
      BY <3>1 DEF Due, Same
    <3>3. QED BY <3>2
  <2>6. QED BY <2>5
<1>2. QED BY <1>1, InitIsSound, InvIsKept, PTL DEF OthersKeepTheirTime

----------------------------------------------------------------------------
(* The interfaces, for any addresses, connections and listeners.  The      *)
(* lemmas say what each call of netif.c does to a record of the interfaces *)
(* that is in order; the actions are such calls.                           *)

Ips == Addresses \cup {IP_ADDR_ANY}

(* An address that an interface has, or none, or late. *)
Follows(st, c) == \/ st.local[c] \in {IP_ADDR_ANY} \cup {st.netif[n].ip : n \in {Eth, Ppp}}
                  \/ c \in late

(* Interfaces in order: those that the calls of netif.c work on. *)
InOrder(st) ==
    /\ st \in [list : Seq({Eth, Ppp}), default : {Eth, Ppp, NULL},
               netif : [{Eth, Ppp} -> [ip : Ips, up : BOOLEAN]],
               local : [Conns \cup Servers -> Ips \cup {Free}],
               on : [Conns \cup Servers -> Walked \cup {"none", "tw"}]]
    /\ IsInjective(st.list)
    /\ \A c \in Conns \cup Servers : st.on[c] \in Walked => Follows(st, c)

(* The inductive invariant: the Ethernet is on the list always, PPP while  *)
(* IPCP is up, which is when it may be up and has the address agreed on,  *)
(* and only on a link that is open. *)
NetifInv ==
    /\ NetifTypeOK
    /\ InOrder(Nets)
    /\ Eth \in ToSet(netif_list)
    /\ Ppp \in ToSet(netif_list) <=> ppp.if_up
    /\ netif[Ppp].up => ppp.if_up
    /\ ppp.if_up => ppp.openFlag /\ netif[Ppp].ip = ppp.our

----------------------------------------------------------------------------
(* The calls of netif.c. *)

(* A new address: who was at the old one follows or is aborted. *)
LEMMA SetIpaddrInOrder ==
    ASSUME NEW st, InOrder(st), NEW n \in {Eth, Ppp}, NEW ip \in Ips
    PROVE  LET r == netif_set_ipaddr(st, n, ip) IN
           /\ InOrder(r) /\ r.list = st.list /\ r.default = st.default
           /\ r.netif = [st.netif EXCEPT ![n].ip = ip]
<1> DEFINE r == netif_set_ipaddr(st, n, ip)
           old == st.netif[n].ip
           there == {c \in Conns \cup Servers :
                        st.on[c] \in Walked /\ st.local[c] = old /\ ip # old}
           aborted == {c \in there : st.on[c] = "active"}
           local == [c \in Conns \cup Servers |-> IF c \in aborted THEN Free
                                                  ELSE IF c \in there THEN ip ELSE st.local[c]]
           on1 == [c \in Conns \cup Servers |-> IF c \in aborted THEN "none" ELSE st.on[c]]
           net == [st.netif EXCEPT ![n].ip = ip]
<1>1. r = [list |-> st.list, default |-> st.default, netif |-> net, local |-> local, on |-> on1]
  <2>1. r = [st EXCEPT !.netif = net, !.local = local, !.on = on1]
    BY DEF InOrder, netif_set_ipaddr
  <2> HIDE DEF net, local, on1
  <2>2. QED BY <2>1 DEF InOrder
<1>2. local \in [Conns \cup Servers -> Ips \cup {Free}]
  BY DEF InOrder
<1>3. on1 \in [Conns \cup Servers -> Walked \cup {"none", "tw"}]
  BY DEF InOrder
<1>4. [st.netif EXCEPT ![n].ip = ip] \in [{Eth, Ppp} -> [ip : Ips, up : BOOLEAN]]
  BY DEF InOrder
<1>5. ASSUME NEW c \in Conns \cup Servers, on1[c] \in Walked
      PROVE  Follows(r, c)
  <2>1. c \notin aborted /\ st.on[c] \in Walked /\ Follows(st, c)
    BY <1>5 DEF Walked, InOrder
  <2>2. r.local[c] = local[c] /\ r.netif = net /\ net[n].ip = ip
    BY <1>1 DEF InOrder
  <2>3. CASE c \in there
    <3>1. local[c] = ip
      BY <2>1, <2>3
    <3>2. QED BY <3>1, <2>2 DEF Follows
  <2>4. CASE c \notin there
    <3>1. local[c] = st.local[c]
      BY <2>1, <2>4
    <3>2. CASE st.local[c] = IP_ADDR_ANY \/ c \in late
      BY <3>1, <3>2, <2>2 DEF Follows
    <3>3. CASE st.local[c] # IP_ADDR_ANY /\ c \notin late
      <4>1. PICK m \in {Eth, Ppp} : st.local[c] = st.netif[m].ip
        BY <3>3, <2>1 DEF Follows
      <4>2. net[m].ip = st.netif[m].ip
        BY <4>1, <2>1, <2>4 DEF InOrder
      <4>3. QED BY <3>1, <4>1, <4>2, <2>2 DEF Follows
    <3>4. QED BY <3>2, <3>3
  <2>5. QED BY <2>3, <2>4
<1>6. QED
  <2> HIDE DEF local, on1, net
  <2>1. r.list = st.list /\ r.default = st.default /\ r.netif = net /\ r.on = on1
    BY <1>1
  <2>2. net \in [{Eth, Ppp} -> [ip : Ips, up : BOOLEAN]]
    BY <1>4 DEF net
  <2>3. r \in [list : Seq({Eth, Ppp}), default : {Eth, Ppp, NULL},
               netif : [{Eth, Ppp} -> [ip : Ips, up : BOOLEAN]],
               local : [Conns \cup Servers -> Ips \cup {Free}],
               on : [Conns \cup Servers -> Walked \cup {"none", "tw"}]]
    BY <1>1, <1>2, <1>3, <2>2 DEF InOrder
  <2>4. \A c \in Conns \cup Servers : r.on[c] \in Walked => Follows(r, c)
    BY <1>5, <2>1
  <2>5. IsInjective(r.list)
    BY <2>1 DEF InOrder
  <2>6. InOrder(r)
    BY <2>3, <2>4, <2>5 DEF InOrder
  <2>7. QED BY <2>1, <2>6 DEF net

(* What leaves addresses and lists of blocks alone keeps them in order. *)
LEMMA OrderIsKept ==
    ASSUME NEW st, InOrder(st), NEW r,
           r = [list |-> r.list, default |-> r.default, netif |-> r.netif,
                local |-> st.local, on |-> st.on],
           r.list \in Seq({Eth, Ppp}), IsInjective(r.list), r.default \in {Eth, Ppp, NULL},
           r.netif \in [{Eth, Ppp} -> [ip : Ips, up : BOOLEAN]],
           \A m \in {Eth, Ppp} : r.netif[m].ip = st.netif[m].ip
    PROVE  InOrder(r)
<1>1. /\ st.local \in [Conns \cup Servers -> Ips \cup {Free}]
      /\ st.on \in [Conns \cup Servers -> Walked \cup {"none", "tw"}]
  BY DEF InOrder
<1>2. r \in [list : Seq({Eth, Ppp}), default : {Eth, Ppp, NULL},
             netif : [{Eth, Ppp} -> [ip : Ips, up : BOOLEAN]],
             local : [Conns \cup Servers -> Ips \cup {Free}],
             on : [Conns \cup Servers -> Walked \cup {"none", "tw"}]]
  BY <1>1
<1>3. r.local = st.local /\ r.on = st.on
  OBVIOUS
<1>4. ASSUME NEW c \in Conns \cup Servers, r.on[c] \in Walked
      PROVE  Follows(r, c)
  <2>1. Follows(st, c)
    BY <1>3, <1>4 DEF InOrder
  <2>2. {r.netif[m].ip : m \in {Eth, Ppp}} = {st.netif[m].ip : m \in {Eth, Ppp}}
    OBVIOUS
  <2>3. QED BY <2>1, <2>2, <1>3 DEF Follows
<1>5. QED BY <1>2, <1>4 DEF InOrder

(* The flag NETIF_FLAG_UP is the interface's own. *)
LEMMA SetUpInOrder ==
    ASSUME NEW st, InOrder(st), NEW n \in {Eth, Ppp}, NEW up \in BOOLEAN
    PROVE  LET r == [st EXCEPT !.netif[n].up = up] IN
           /\ InOrder(r) /\ r.list = st.list /\ r.default = st.default
           /\ r.netif = [st.netif EXCEPT ![n].up = up]
<1> DEFINE r == [st EXCEPT !.netif[n].up = up]
           net == [st.netif EXCEPT ![n].up = up]
<1>1. r = [list |-> st.list, default |-> st.default, netif |-> net, local |-> st.local,
         on |-> st.on]
  <2>1. r = [st EXCEPT !.netif = net]
    BY DEF InOrder
  <2> HIDE DEF net
  <2>2. QED BY <2>1 DEF InOrder
<1>2. r.netif \in [{Eth, Ppp} -> [ip : Ips, up : BOOLEAN]]
  BY <1>1 DEF InOrder
<1>3. \A m \in {Eth, Ppp} : r.netif[m].ip = st.netif[m].ip
  BY <1>1 DEF InOrder
<1>4. st.list \in Seq({Eth, Ppp}) /\ IsInjective(st.list) /\ st.default \in {Eth, Ppp, NULL}
  BY DEF InOrder
<1>5. r.list = st.list /\ r.default = st.default /\ r.netif = net
  BY <1>1
<1>6. net \in [{Eth, Ppp} -> [ip : Ips, up : BOOLEAN]] /\ \A m \in {Eth, Ppp} : net[m].ip = st.netif[m].ip
  BY <1>2, <1>3, <1>5
<1> HIDE DEF r, net
<1>7. InOrder(r)
  BY <1>1, <1>4, <1>6, OrderIsKept
<1>8. QED BY <1>5, <1>7 DEF r, net

(* Another default. *)
LEMMA SetDefaultInOrder ==
    ASSUME NEW st, InOrder(st), NEW n \in {Eth, Ppp, NULL}
    PROVE  LET r == netif_set_default(st, n) IN
           InOrder(r) /\ r.list = st.list /\ r.default = n /\ r.netif = st.netif
<1>1. netif_set_default(st, n) = [list |-> st.list, default |-> n,
                                  netif |-> st.netif, local |-> st.local,
                                  on |-> st.on]
  BY DEF InOrder, netif_set_default
<1>2. st.list \in Seq({Eth, Ppp}) /\ IsInjective(st.list)
      /\ st.netif \in [{Eth, Ppp} -> [ip : Ips, up : BOOLEAN]]
  BY DEF InOrder
<1> DEFINE r == netif_set_default(st, n)
<1>3. r.list = st.list /\ r.default = n /\ r.netif = st.netif
  BY <1>1
<1> HIDE DEF r
<1>4. InOrder(r)
  BY <1>1, <1>2, <1>3, OrderIsKept DEF r
<1>5. QED BY <1>3, <1>4 DEF r

LEMMA RemoveInOrder ==
    ASSUME NEW st, InOrder(st), NEW n \in {Eth, Ppp}
    PROVE  LET r == netif_remove(st, n) IN
           /\ InOrder(r) /\ ToSet(r.list) = ToSet(st.list) \ {n} /\ r.netif = st.netif
<1>1. CASE n \notin ToSet(st.list)
  BY <1>1 DEF netif_remove
<1>2. CASE n \in ToSet(st.list)
  <2> DEFINE l == Unlinked(st.list, n)
             d == IF st.default = n THEN NULL ELSE st.default
  <2>1. netif_remove(st, n) = [list |-> l, default |-> d, netif |-> st.netif, local |-> st.local,
                                  on |-> st.on]
    <3>1. netif_remove(st, n) = [st EXCEPT !.list = l, !.default = d]
      BY <1>2 DEF InOrder, netif_remove
    <3> HIDE DEF l, d
    <3>2. QED BY <3>1 DEF InOrder
  <2>2. l \in Seq({Eth, Ppp}) /\ IsInjective(l) /\ ToSet(l) = ToSet(st.list) \ {n}
    BY <1>2, UnlinkKeepsOthers DEF InOrder
  <2>3. d \in {Eth, Ppp, NULL}
    BY DEF InOrder
  <2>4. QED
    <3> HIDE DEF l, d
    <3>1. st.netif \in [{Eth, Ppp} -> [ip : Ips, up : BOOLEAN]]
      BY DEF InOrder
    <3> DEFINE r == netif_remove(st, n)
    <3>2. r.list = l /\ r.default = d /\ r.netif = st.netif
      BY <2>1
    <3> HIDE DEF r
    <3>3. r = [list |-> r.list, default |-> r.default, netif |-> r.netif,
               local |-> st.local, on |-> st.on]
      BY <2>1, <3>2 DEF r
    <3>4. InOrder(r)
      BY <2>2, <2>3, <3>1, <3>2, <3>3, OrderIsKept
    <3>5. QED BY <2>2, <3>2, <3>4 DEF r
<1>3. QED BY <1>1, <1>2

LEMMA AddInOrder ==
    ASSUME NEW st, InOrder(st), NEW n \in {Eth, Ppp}, n \notin ToSet(st.list), NEW ip \in Ips
    PROVE  LET r == netif_add(st, n, ip) IN
           /\ InOrder(r) /\ ToSet(r.list) = ToSet(st.list) \cup {n}
           /\ r.default = st.default /\ r.netif = [st.netif EXCEPT ![n].ip = ip]
<1> DEFINE q == netif_set_ipaddr(st, n, ip)
           l == <<n>> \o q.list
<1>1. InOrder(q) /\ q.list = st.list /\ q.default = st.default
      /\ q.netif = [st.netif EXCEPT ![n].ip = ip]
  BY SetIpaddrInOrder
<1>2. l \in Seq({Eth, Ppp}) /\ IsInjective(l) /\ ToSet(l) = ToSet(st.list) \cup {n}
  BY <1>1, LinkAdds DEF InOrder
<1>3. netif_add(st, n, ip) = [list |-> l, default |-> q.default,
                              netif |-> q.netif, local |-> q.local, on |-> q.on]
  <2>1. netif_add(st, n, ip) = [q EXCEPT !.list = l]
    BY <1>1 DEF netif_add, InOrder
  <2> HIDE DEF l, q
  <2>2. QED BY <2>1, <1>1 DEF InOrder
<1>4. QED
  <2> HIDE DEF l, q
  <2>1. q.default \in {Eth, Ppp, NULL} /\ q.netif \in [{Eth, Ppp} -> [ip : Ips, up : BOOLEAN]]
    BY <1>1 DEF InOrder
  <2> DEFINE r == netif_add(st, n, ip)
  <2>2. r.list = l /\ r.default = q.default /\ r.netif = q.netif
    BY <1>3
  <2> HIDE DEF r
  <2>3. r = [list |-> r.list, default |-> r.default, netif |-> r.netif,
             local |-> q.local, on |-> q.on]
    BY <1>3, <2>2 DEF r
  <2>4. InOrder(r)
    BY <1>1, <1>2, <2>1, <2>2, <2>3, OrderIsKept
  <2>5. QED BY <1>1, <1>2, <2>2, <2>4 DEF r

----------------------------------------------------------------------------
(* A step of netif.c's calls keeps the invariant when the list, the flag   *)
(* and the address that PPP is left with agree with it. *)
LEMMA NetsKeepInv ==
    ASSUME NEW st, InOrder(st), NetsBecome(st),
           late \subseteq Conns \cup Servers, fEnDHCP' \in BOOLEAN,
           ppp' \in [openFlag : BOOLEAN, if_up : BOOLEAN, our : Ips, route : BOOLEAN],
           Eth \in ToSet(st.list),
           Ppp \in ToSet(st.list) <=> ppp'.if_up,
           st.netif[Ppp].up => ppp'.if_up,
           ppp'.if_up => ppp'.openFlag /\ st.netif[Ppp].ip = ppp'.our
    PROVE  NetifInv'
<1>1. /\ netif_list' = st.list /\ netif_default' = st.default
      /\ netif' = st.netif /\ local_ip' = st.local /\ on' = st.on
  BY DEF NetsBecome
<1>2. Nets' = st
  <2>1. Nets' = [list |-> st.list, default |-> st.default, netif |-> st.netif,
                 local |-> st.local, on |-> st.on]
    BY <1>1 DEF Nets
  <2>2. QED BY <2>1 DEF InOrder
<1>3. late' \subseteq Conns \cup Servers
  BY DEF NetsBecome
<1>4. NetifTypeOK'
  BY <1>1, <1>3 DEF NetifTypeOK, InOrder, Ips
<1>5. ASSUME NEW c \in Conns \cup Servers, st.on[c] \in Walked
      PROVE  \/ st.local[c] \in {IP_ADDR_ANY} \cup {st.netif[n].ip : n \in {Eth, Ppp}}
             \/ c \in late'
  <2>1. Follows(st, c)
    BY <1>5 DEF InOrder
  <2>2. QED BY <2>1, <1>5 DEF Follows, NetsBecome
<1>6. InOrder(Nets)'
  <2>1. InOrder(st)
    OBVIOUS
  <2>2. QED BY <2>1, <1>2, <1>5 DEF InOrder, Follows
<1>7. QED BY <1>1, <1>4, <1>6 DEF NetifInv

(* A step of TCP keeps it when a block that goes on a list goes to an      *)
(* address that is there, or is late. *)
LEMMA TcpKeepsInv ==
    ASSUME NetifInv,
           local_ip' \in [Conns \cup Servers -> Ips \cup {Free}],
           on' \in [Conns \cup Servers -> Walked \cup {"none", "tw"}],
           late' \subseteq Conns \cup Servers,
           \A c \in Conns \cup Servers : on'[c] \in Walked =>
               \/ on[c] \in Walked /\ local_ip'[c] = local_ip[c] /\ (c \in late => c \in late')
               \/ local_ip'[c] \in {IP_ADDR_ANY} \cup Current
               \/ c \in late',
           UNCHANGED <<netif_list, netif_default, netif, fEnDHCP, ppp>>
    PROVE  NetifInv'
<1>1. NetifTypeOK'
  BY DEF NetifInv, NetifTypeOK, Ips
<1>2. ASSUME NEW c \in Conns \cup Servers, on'[c] \in Walked
      PROVE  local_ip'[c] \in {IP_ADDR_ANY} \cup Current \/ c \in late'
  <2>1. CASE on[c] \in Walked /\ local_ip'[c] = local_ip[c] /\ (c \in late => c \in late')
    <3>1. local_ip[c] \in {IP_ADDR_ANY} \cup Current \/ c \in late
      BY <2>1 DEF NetifInv, InOrder, Nets, Follows, Current
    <3>2. QED BY <2>1, <3>1
  <2>2. QED BY <2>1, <1>2
<1>3. Nets' \in [list : Seq({Eth, Ppp}), default : {Eth, Ppp, NULL},
                 netif : [{Eth, Ppp} -> [ip : Ips, up : BOOLEAN]],
                 local : [Conns \cup Servers -> Ips \cup {Free}],
                 on : [Conns \cup Servers -> Walked \cup {"none", "tw"}]]
  <2>1. /\ netif_list' \in Seq({Eth, Ppp}) /\ netif_default' \in {Eth, Ppp, NULL}
        /\ netif' \in [{Eth, Ppp} -> [ip : Ips, up : BOOLEAN]]
    BY DEF NetifInv, NetifTypeOK, Ips
  <2>2. QED BY <2>1 DEF Nets
<1>4. InOrder(Nets)'
  <2>1. IsInjective(Nets'.list)
    BY DEF NetifInv, InOrder, Nets
  <2>2. ASSUME NEW c \in Conns \cup Servers, Nets'.on[c] \in Walked
        PROVE  \/ Nets'.local[c] \in {IP_ADDR_ANY} \cup {Nets'.netif[n].ip : n \in {Eth, Ppp}}
               \/ c \in late'
    BY <1>2, <2>2 DEF Nets, Current
  <2>3. QED BY <1>3, <2>1, <2>2 DEF InOrder, Follows
<1>5. QED BY <1>1, <1>4 DEF NetifInv

----------------------------------------------------------------------------
LEMMA NetifInitInv == NetifInit => NetifInv
<1> SUFFICES ASSUME NetifInit PROVE NetifInv
  OBVIOUS
<1>1. NetifTypeOK
  <2>1. netif_list \in Seq({Eth, Ppp}) /\ netif_default \in {Eth, Ppp, NULL}
    BY DEF NetifInit
  <2>2. netif \in [{Eth, Ppp} -> [ip : Addresses \cup {IP_ADDR_ANY}, up : BOOLEAN]]
    <3>1. ASSUME NEW ip \in Addresses \cup {IP_ADDR_ANY},
                 netif = [n \in {Eth, Ppp} |-> [ip |-> IF n = Eth THEN ip ELSE IP_ADDR_ANY,
                                                up |-> FALSE]]
          PROVE  netif \in [{Eth, Ppp} -> [ip : Addresses \cup {IP_ADDR_ANY}, up : BOOLEAN]]
      BY <3>1
    <3>2. \E ip \in Addresses \cup {IP_ADDR_ANY} :
            netif = [n \in {Eth, Ppp} |-> [ip |-> IF n = Eth THEN ip ELSE IP_ADDR_ANY,
                                           up |-> FALSE]]
      BY DEF NetifInit, Eth, Ppp
    <3>3. QED BY <3>1, <3>2
  <2>3. QED BY <2>1, <2>2 DEF NetifInit, NetifTypeOK
<1>2. InOrder(Nets)
  <2>1. Nets \in [list : Seq({Eth, Ppp}), default : {Eth, Ppp, NULL},
                  netif : [{Eth, Ppp} -> [ip : Ips, up : BOOLEAN]],
                  local : [Conns \cup Servers -> Ips \cup {Free}],
                  on : [Conns \cup Servers -> Walked \cup {"none", "tw"}]]
    BY <1>1 DEF NetifTypeOK, Nets, Ips
  <2>2. IsInjective(Nets.list)
    BY DEF NetifInit, Nets, IsInjective
  <2>3. ASSUME NEW c \in Conns \cup Servers PROVE Nets.on[c] \notin Walked
    BY DEF NetifInit, Nets, Walked
  <2>4. QED BY <2>1, <2>2, <2>3 DEF InOrder
<1>3. ToSet(netif_list) = {Eth}
  BY DEF NetifInit, ToSet
<1>4. QED BY <1>1, <1>2, <1>3 DEF NetifInit, NetifInv, Eth, Ppp

(* The Ethernet is taken off the list only to be put back on it. *)
LEMMA EthernetKeepsInv == ASSUME NetifInv, Ethernet PROVE NetifInv'
<1> USE DEF Ips, Eth, Ppp
<1>1. /\ InOrder(Nets) /\ Nets.list = netif_list /\ Nets.netif = netif
      /\ netif \in [{Eth, Ppp} -> [ip : Ips, up : BOOLEAN]]
      /\ ppp \in [openFlag : BOOLEAN, if_up : BOOLEAN, our : Ips, route : BOOLEAN]
      /\ fEnDHCP \in BOOLEAN /\ late \subseteq Conns \cup Servers
  BY DEF NetifInv, NetifTypeOK, Nets
<1>2. ASSUME NEW up \in BOOLEAN, MacSeesLink(up) PROVE NetifInv'
  <2> DEFINE st == [Nets EXCEPT !.netif[Eth].up = up]
  <2>1. InOrder(st) /\ st.list = netif_list /\ st.netif = [netif EXCEPT ![Eth].up = up]
    BY <1>1, SetUpInOrder
  <2>2. NetsBecome(st)
    BY <1>2 DEF MacSeesLink, netif_set_up, netif_set_down
  <2>3. st.netif[Ppp] = netif[Ppp]
    BY <2>1, <1>1
  <2> HIDE DEF st
  <2>4. QED BY <2>1, <2>2, <2>3, <1>1, <1>2, NetsKeepInv DEF NetifInv, MacSeesLink
<1>3. ASSUME NEW ip \in Addresses, dhcp_bind(ip) PROVE NetifInv'
  <2> DEFINE a == netif_set_ipaddr(Nets, Eth, ip)
             st == netif_set_up(a, Eth)
  <2>1. InOrder(a) /\ a.list = netif_list /\ a.netif = [netif EXCEPT ![Eth].ip = ip]
    BY <1>1, SetIpaddrInOrder
  <2>2. InOrder(st) /\ st.list = netif_list /\ st.netif = [a.netif EXCEPT ![Eth].up = TRUE]
    BY <2>1, SetUpInOrder DEF netif_set_up
  <2>3. st.netif[Ppp] = netif[Ppp]
    BY <2>1, <2>2, <1>1
  <2>4. NetsBecome(st)
    BY <1>3 DEF dhcp_bind
  <2> HIDE DEF st
  <2>5. QED BY <2>2, <2>3, <2>4, <1>1, <1>3, NetsKeepInv DEF NetifInv, dhcp_bind
<1>4. ASSUME dhcp_release PROVE NetifInv'
  <2> DEFINE a == netif_set_down(Nets, Eth)
             st == netif_set_ipaddr(a, Eth, IP_ADDR_ANY)
  <2>1. InOrder(a) /\ a.list = netif_list /\ a.netif = [netif EXCEPT ![Eth].up = FALSE]
    BY <1>1, SetUpInOrder DEF netif_set_down
  <2>2. InOrder(st) /\ st.list = netif_list
        /\ st.netif = [a.netif EXCEPT ![Eth].ip = IP_ADDR_ANY]
    BY <2>1, SetIpaddrInOrder
  <2>3. st.netif[Ppp] = netif[Ppp]
    BY <2>1, <2>2, <1>1
  <2>4. NetsBecome(st)
    BY <1>4 DEF dhcp_release
  <2> HIDE DEF st
  <2>5. QED BY <2>2, <2>3, <2>4, <1>1, <1>4, NetsKeepInv DEF NetifInv, dhcp_release
<1>5. ASSUME NEW ip \in Ips, LoadNetIfPara(ip) PROVE NetifInv'
  <2> DEFINE dhcp == fEnDHCP \/ ip = IP_ADDR_ANY
             new == IF dhcp THEN IP_ADDR_ANY ELSE ip
             a == netif_remove(Nets, Eth)
             b == netif_add(a, Eth, new)
             st == netif_set_default(b, Eth)
  <2>1. InOrder(a) /\ ToSet(a.list) = ToSet(netif_list) \ {Eth} /\ a.netif = netif
    BY <1>1, RemoveInOrder
  <2>2. InOrder(b) /\ ToSet(b.list) = ToSet(netif_list) \cup {Eth}
        /\ b.netif = [netif EXCEPT ![Eth].ip = new]
    <3>1. new \in Ips /\ Eth \notin ToSet(a.list)
      BY <2>1
    <3> HIDE DEF a, new
    <3>2. /\ InOrder(b) /\ ToSet(b.list) = ToSet(a.list) \cup {Eth}
          /\ b.netif = [a.netif EXCEPT ![Eth].ip = new]
      BY <2>1, <3>1, AddInOrder
    <3>3. QED BY <3>2, <2>1
  <2>3. InOrder(st) /\ st.list = b.list /\ st.netif = b.netif
    BY <2>2, SetDefaultInOrder
  <2>4. st.netif[Ppp] = netif[Ppp]
    BY <2>2, <2>3, <1>1
  <2>5. NetsBecome(st) /\ fEnDHCP' = dhcp /\ ppp' = ppp
    BY <1>5 DEF LoadNetIfPara
  <2>6. dhcp \in BOOLEAN
    BY <1>1
  <2> HIDE DEF st, dhcp, b
  <2>7. QED BY <2>2, <2>3, <2>4, <2>5, <2>6, <1>1, NetsKeepInv DEF NetifInv
<1>6. ASSUME SetNetIfDefaultET PROVE NetifInv'
  <2> DEFINE st == netif_set_default(Nets, Eth)
  <2>1. InOrder(st) /\ st.list = netif_list /\ st.netif = netif
    BY <1>1, SetDefaultInOrder
  <2>2. NetsBecome(st) /\ fEnDHCP' = fEnDHCP /\ ppp' = ppp
    BY <1>6 DEF SetNetIfDefaultET
  <2> HIDE DEF st
  <2>3. QED BY <2>1, <2>2, <1>1, NetsKeepInv DEF NetifInv
<1>7. QED BY <1>2, <1>3, <1>4, <1>5, <1>6 DEF Ethernet

(* PPP is put on the list and up with the address of ipcp_up, and off both *)
(* in ipcp_down. *)
LEMMA PppKeepsInv == ASSUME NetifInv, PppNext PROVE NetifInv'
<1> USE DEF Ips, Eth, Ppp
<1>1. /\ InOrder(Nets) /\ Nets.list = netif_list /\ Nets.netif = netif
      /\ netif \in [{Eth, Ppp} -> [ip : Ips, up : BOOLEAN]]
      /\ ppp \in [openFlag : BOOLEAN, if_up : BOOLEAN, our : Ips, route : BOOLEAN]
      /\ fEnDHCP \in BOOLEAN /\ late \subseteq Conns \cup Servers
  BY DEF NetifInv, NetifTypeOK, Nets
<1>2. ASSUME pppOpen \/ pppLinkTerminated PROVE NetifInv'
  <2>1. UNCHANGED <<netif_list, netif_default, netif, local_ip, on, late, fEnDHCP>>
    BY <1>2 DEF pppOpen, pppLinkTerminated, pcbVars
  <2>2. /\ ppp' \in [openFlag : BOOLEAN, if_up : BOOLEAN, our : Ips, route : BOOLEAN]
        /\ ~ppp.if_up /\ ~ppp'.if_up
    BY <1>1, <1>2 DEF pppOpen, pppLinkTerminated, NetifInv
  <2>3. NetifTypeOK'
    BY <2>1, <2>2 DEF NetifInv, NetifTypeOK
  <2>4. InOrder(Nets)'
    BY <1>1, <2>1 DEF InOrder, Nets, Follows
  <2>5. QED BY <2>1, <2>2, <2>3, <2>4 DEF NetifInv
<1>3. ASSUME NEW ip \in Addresses, ipcp_up(ip) PROVE NetifInv'
  <2> DEFINE a == netif_remove(Nets, Ppp)
             b == netif_add(a, Ppp, ip)
             c == netif_set_up(b, Ppp)
             st == netif_set_default(c, Ppp)
  <2>1. InOrder(a) /\ ToSet(a.list) = ToSet(netif_list) \ {Ppp} /\ a.netif = netif
    BY <1>1, RemoveInOrder
  <2>2. InOrder(b) /\ ToSet(b.list) = ToSet(netif_list) \cup {Ppp}
        /\ b.netif = [netif EXCEPT ![Ppp].ip = ip]
    <3>1. Ppp \notin ToSet(a.list)
      BY <2>1
    <3> HIDE DEF a
    <3>2. /\ InOrder(b) /\ ToSet(b.list) = ToSet(a.list) \cup {Ppp}
          /\ b.netif = [a.netif EXCEPT ![Ppp].ip = ip]
      BY <2>1, <3>1, AddInOrder
    <3>3. QED BY <3>2, <2>1
  <2>3. InOrder(c) /\ c.list = b.list /\ c.netif = [b.netif EXCEPT ![Ppp].up = TRUE]
    BY <2>2, SetUpInOrder DEF netif_set_up
  <2>4. InOrder(st) /\ st.list = b.list /\ st.netif = c.netif
    BY <2>3, SetDefaultInOrder
  <2>5. st.netif[Ppp].ip = ip
    <3> HIDE DEF b, c, st
    <3>1. QED BY <2>2, <2>3, <2>4, <1>1
  <2>6. NetsBecome(st) /\ fEnDHCP' = fEnDHCP
    BY <1>3 DEF ipcp_up, sifup, sifdefaultroute
  <2>7. /\ ppp' \in [openFlag : BOOLEAN, if_up : BOOLEAN, our : Ips, route : BOOLEAN]
        /\ ppp'.if_up /\ ppp'.openFlag /\ ppp'.our = ip
    BY <1>1, <1>3 DEF ipcp_up, sifaddr
  <2> HIDE DEF st, b
  <2>8. QED BY <2>2, <2>4, <2>5, <2>6, <2>7, <1>1, NetsKeepInv DEF NetifInv
<1>4. ASSUME ipcp_down PROVE NetifInv'
  <2> DEFINE a == netif_set_down(Nets, Ppp)
             b == netif_remove(a, Ppp)
             st == IF ppp.route THEN netif_set_default(b, NULL) ELSE b
  <2>1. InOrder(a) /\ a.list = netif_list /\ a.netif = [netif EXCEPT ![Ppp].up = FALSE]
    BY <1>1, SetUpInOrder DEF netif_set_down
  <2>2. InOrder(b) /\ ToSet(b.list) = ToSet(netif_list) \ {Ppp} /\ b.netif = a.netif
    <3> HIDE DEF a
    <3>1. QED BY <2>1, RemoveInOrder
  <2>3. InOrder(st) /\ st.list = b.list /\ st.netif = b.netif
    <3> HIDE DEF b
    <3>1. QED BY <2>2, SetDefaultInOrder
  <2>4. ~st.netif[Ppp].up
    <3> HIDE DEF a, b, st
    <3>1. QED BY <2>1, <2>2, <2>3, <1>1
  <2>5. NetsBecome(st) /\ fEnDHCP' = fEnDHCP
    BY <1>4 DEF ipcp_down, sifdown, cifdefaultroute
  <2>6. /\ ppp' \in [openFlag : BOOLEAN, if_up : BOOLEAN, our : Ips, route : BOOLEAN]
        /\ ~ppp'.if_up
    BY <1>1, <1>4 DEF ipcp_down, cifaddr, sifaddr
  <2> HIDE DEF st, b
  <2>7. QED BY <2>2, <2>3, <2>4, <2>5, <2>6, <1>1, NetsKeepInv DEF NetifInv
<1>5. ASSUME SetNetIfDefaultPPP PROVE NetifInv'
  <2> DEFINE st == netif_set_default(Nets, Ppp)
  <2>1. InOrder(st) /\ st.list = netif_list /\ st.netif = netif
    BY <1>1, SetDefaultInOrder
  <2>2. NetsBecome(st) /\ fEnDHCP' = fEnDHCP /\ ppp' = ppp
    BY <1>5 DEF SetNetIfDefaultPPP, sifdefaultroute
  <2> HIDE DEF st
  <2>3. QED BY <2>1, <2>2, <1>1, NetsKeepInv DEF NetifInv
<1>6. QED BY <1>2, <1>3, <1>4, <1>5 DEF PppNext

(* What goes on a list is at an address of the device, or none, or late. *)
LEMMA TcpNextKeepsInv == ASSUME NetifInv, TcpNext PROVE NetifInv'
<1> USE DEF Ips
<1>1. /\ netif_list \in Seq({Eth, Ppp}) /\ netif_default \in {Eth, Ppp, NULL}
      /\ ToSet(netif_list) \subseteq {Eth, Ppp}
      /\ netif \in [{Eth, Ppp} -> [ip : Ips, up : BOOLEAN]]
      /\ local_ip \in [Conns \cup Servers -> Ips \cup {Free}]
      /\ on \in [Conns \cup Servers -> Walked \cup {"none", "tw"}]
      /\ late \subseteq Conns \cup Servers
  BY DEF NetifInv, NetifTypeOK, ToSet
<1>2. ip_route # NULL => ip_route \in {Eth, Ppp}
  BY <1>1 DEF ip_route
<1>3. ASSUME NEW c \in Conns, NEW ip \in Addresses \cup {IP_ADDR_ANY}, Binds(c, ip)
      PROVE  NetifInv'
  BY <1>1, <1>3, TcpKeepsInv DEF Binds, Unused, Walked
<1>4. ASSUME NEW c \in Conns, Connects(c) PROVE NetifInv'
  <2>1. Source(c) \in Ips
    <3>1. local_ip[c] # Free
      BY <1>4 DEF Connects, Bound
    <3>2. QED BY <1>1, <1>2, <3>1 DEF Source
  <2>2. QED BY <2>1, <1>1, <1>4, TcpKeepsInv DEF Connects, Listed, Walked
<1>5. ASSUME NEW c \in Conns, SentAgain(c) PROVE NetifInv'
  <2>1. netif[ip_route].ip \in Ips /\ netif[ip_route].ip \in Current
    BY <1>1, <1>2, <1>5 DEF SentAgain, Current
  <2>2. QED BY <2>1, <1>1, <1>5, TcpKeepsInv DEF SentAgain
<1>6. ASSUME NEW c \in Conns, TimeWait(c) PROVE NetifInv'
  BY <1>1, <1>6, TcpKeepsInv DEF TimeWait, Walked
<1>7. ASSUME NEW s \in Servers, NEW c \in Conns, Listens(s, c) PROVE NetifInv'
  <2>1. local_ip[c] \in Ips /\ c # s /\ on[c] = "none"
    BY <1>1, <1>7 DEF Listens, Bound
  <2>2. QED BY <2>1, <1>1, <1>7, TcpKeepsInv DEF Listens, Listed, Unused, Walked
<1>8. ASSUME NEW s \in Servers, NEW c \in Conns, NEW ip \in Addresses, Accepts(s, c, ip)
      PROVE  NetifInv'
  <2>1. ip \in Current
    BY <1>1, <1>8 DEF Accepts, Ours, Current
  <2>2. QED BY <2>1, <1>1, <1>8, TcpKeepsInv DEF Accepts, Listed, Unused, Walked
<1>9. ASSUME NEW c \in Conns \cup Servers, Ends(c) PROVE NetifInv'
  BY <1>1, <1>9, TcpKeepsInv DEF Ends, Walked
<1>10. QED BY <1>3, <1>4, <1>5, <1>6, <1>7, <1>8, <1>9 DEF TcpNext

(* The invariant says what the run checks. *)
LEMMA NetifInvIsSound == NetifInv => RoutesAreSound
<1> SUFFICES ASSUME NetifInv PROVE RoutesAreSound
  OBVIOUS
<1>1. Len(netif_list) = Cardinality(ToSet(netif_list))
  <2>1. netif_list \in Seq({Eth, Ppp}) /\ IsInjective(netif_list)
    BY DEF NetifInv, NetifTypeOK, InOrder, Nets
  <2>2. netif_list \in Bijection(1 .. Len(netif_list), ToSet(netif_list))
    BY <2>1 DEF IsInjective, ToSet, Bijection, Injection, Surjection, IsInjective
  <2>3. IsFiniteSet(1 .. Len(netif_list)) /\ Cardinality(1 .. Len(netif_list)) = Len(netif_list)
    <3> DEFINE n == Len(netif_list)
    <3>1. n \in Nat
      BY <2>1
    <3> HIDE DEF n
    <3>2. 1 \in Int /\ n \in Int /\ (IF 1 > n THEN 0 ELSE n - 1 + 1) = n
      BY <3>1
    <3>3. IsFiniteSet(1 .. n) /\ Cardinality(1 .. n) = IF 1 > n THEN 0 ELSE n - 1 + 1
      BY <3>2, FS_Interval
    <3>4. QED BY <3>2, <3>3 DEF n
  <2>4. QED BY <2>2, <2>3, FS_Bijection DEF ExistsBijection
<1>2. ip_route = Ppp => ppp.if_up /\ netif[Ppp].ip = ppp.our
  BY NetifAssumption DEF NetifInv, ip_route, Ppp
<1>3. ip_route # NULL => ip_route \in ToSet(netif_list)
  BY <1>2 DEF NetifInv, NetifTypeOK, ip_route
<1>4. AddressesFollow
  BY DEF NetifInv, InOrder, Nets, Follows, Current, AddressesFollow
<1>5. QED BY <1>1, <1>2, <1>3, <1>4 DEF RoutesAreSound, RoutesAreListed, NetifInv

(* An interface is on the list once, what ip_route answers is on it and    *)
(* up, PPP's only while IPCP is, and no connection or listener stays at an *)
(* address that the device has no longer, but those that were late. *)
THEOREM RoutesStaySound == NetifSpec => []RoutesAreSound
<1>1. NetifInv /\ [NetifNext]_netifVars => NetifInv'
  <2> SUFFICES ASSUME NetifInv, [NetifNext]_netifVars PROVE NetifInv'
    OBVIOUS
  <2>1. CASE UNCHANGED netifVars
    BY <2>1 DEF netifVars, pcbVars, NetifInv, NetifTypeOK, InOrder, Nets, Follows
  <2>2. QED BY <2>1, EthernetKeepsInv, PppKeepsInv, TcpNextKeepsInv DEF NetifNext
<1>2. QED BY <1>1, NetifInitInv, NetifInvIsSound, PTL DEF NetifSpec
=============================================================================
