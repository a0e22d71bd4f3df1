----------------------------- MODULE MboxProofs -----------------------------
(***************************************************************************)
(* Proofs about the mailbox for any number of threads and any ring size.   *)
(* The invariant counts: every slot is free, reserved, occupied or being   *)
(* returned, and every message is announced, claimed or unsaid.  Each step *)
(* moves one thread from one place to another, and MoveOne says what that  *)
(* does to the number of threads at a set of places.                       *)
(***************************************************************************)
EXTENDS Mbox, FiniteSetTheorems, SequenceTheorems, TLAPS

(* What t going from one place to another adds to a count. *)
Gain(t, S, places, from, to) ==
    IF t \in S /\ from \notin places /\ to \in places THEN 1
    ELSE IF t \in S /\ from \in places /\ to \notin places THEN -1
    ELSE 0

(* A step of one thread changes a count of threads by one at most. *)
LEMMA MoveOne ==
    ASSUME NEW S, S \subseteq Threads, IsFiniteSet(S),
           pc \in [Threads -> Places],
           NEW t \in Threads, NEW from \in Places, NEW to \in Places,
           Goto(t, from, to), NEW places
    PROVE  /\ Number(S, places) \in Nat /\ Number(S, places)' \in Nat
           /\ Number(S, places)' = Number(S, places) + Gain(t, S, places, from, to)
           /\ t \in S /\ from \in places => Number(S, places) > 0
<1> DEFINE A == {u \in S : pc[u] \in places}
           B == {u \in S : pc'[u] \in places}
<1>1. pc[t] = from /\ pc' = [pc EXCEPT ![t] = to] /\ pc' \in [Threads -> Places]
  BY DEF Goto
<1>2. /\ Number(S, places) = Cardinality(A) /\ Number(S, places)' = Cardinality(B)
  BY DEF Number, At
<1>3. IsFiniteSet(A) /\ IsFiniteSet(B)
  BY FS_Subset
<1>4. Cardinality(A) \in Nat /\ Cardinality(B) \in Nat
  BY <1>3, FS_CardinalityType
<1>5. \A u \in S : u # t => (u \in A <=> u \in B)
  BY <1>1
<1>6. t \in A <=> t \in S /\ from \in places
  BY <1>1
<1>7. t \in B <=> t \in S /\ to \in places
  BY <1>1
<1>8. t \in A => Cardinality(A) > 0
  <2>1. t \in A => A # {}
    OBVIOUS
  <2>2. QED BY <2>1, <1>3, <1>4, FS_EmptySet
<1>9. CASE t \in B /\ t \notin A
  <2>1. B = A \cup {t}
    BY <1>5, <1>9
  <2>2. Cardinality(B) = Cardinality(A) + 1
    BY <2>1, <1>3, <1>9, FS_AddElement
  <2>3. QED BY <2>2, <1>2, <1>4, <1>6, <1>7, <1>8, <1>9 DEF Gain
<1>10. CASE t \in A /\ t \notin B
  <2>1. B = A \ {t}
    BY <1>5, <1>10
  <2>2. Cardinality(B) = Cardinality(A) - 1
    BY <2>1, <1>3, <1>10, FS_RemoveElement
  <2>3. QED BY <2>2, <1>2, <1>4, <1>6, <1>7, <1>8, <1>10 DEF Gain
<1>11. CASE t \in A /\ t \in B
  <2>1. B = A
    BY <1>5, <1>11
  <2>2. Cardinality(B) = Cardinality(A)
    BY <2>1
  <2>3. Gain(t, S, places, from, to) = 0
    BY <1>6, <1>7, <1>11 DEF Gain
  <2>4. QED BY <2>2, <2>3, <1>2, <1>4, <1>6, <1>8
<1>12. CASE t \notin A /\ t \notin B
  <2>1. B = A
    BY <1>5, <1>12
  <2>2. Cardinality(B) = Cardinality(A)
    BY <2>1
  <2>3. Gain(t, S, places, from, to) = 0
    BY <1>6, <1>7, <1>12 DEF Gain
  <2>4. QED BY <2>2, <2>3, <1>2, <1>4, <1>6, <1>8
<1>13. QED BY <1>9, <1>10, <1>11, <1>12

(* Nobody is anywhere but at "idle" in the beginning. *)
LEMMA InitInv == MboxInit => RingIsSound
<1> SUFFICES ASSUME MboxInit PROVE RingIsSound
  OBVIOUS
<1>1. ASSUME NEW S, S \subseteq Threads, NEW places, "idle" \notin places
      PROVE  Number(S, places) = 0
  <2>1. At(S, places) = {}
    BY <1>1 DEF MboxInit, At
  <2>2. QED BY <2>1, FS_EmptySet DEF Number
<1>2. /\ Reserved = 0 /\ Returning = 0 /\ Claimed = 0 /\ Unsaid = 0 /\ Holding = 0
  <2>1. Posters \subseteq Threads /\ Takers \subseteq Threads
    BY DEF Threads
  <2>2. QED BY <2>1, <1>1 DEF Reserved, Returning, Claimed, Unsaid, Holding
<1>3. MboxTypeOK
  BY MboxAssumption DEF MboxInit, MboxTypeOK, Slots, Places, Threads
<1>4. RingAgrees
  BY <1>2, MboxAssumption DEF MboxInit, RingAgrees, Count
<1>5. QED BY <1>3, <1>4 DEF RingIsSound

(* The places the counts are made of. *)
ReservedAt  == {"wait_mutex", "write"}
ReturningAt == {"signal_space"}
ClaimedAt   == {"wait_mutex", "read"}
UnsaidAt    == {"signal_mail"}
HoldingAt   == {"write", "read", "signal_mail", "signal_space", "signal_mutex"}

(* A thread that is counted is counted. *)
Counted(t, place) ==
    /\ Reserved \in Nat /\ Returning \in Nat /\ Claimed \in Nat
    /\ Unsaid \in Nat /\ Holding \in Nat
    /\ t \in Posters /\ place \in ReservedAt => Reserved > 0
    /\ t \in Takers /\ place \in ReturningAt => Returning > 0
    /\ t \in Takers /\ place \in ClaimedAt => Claimed > 0
    /\ t \in Posters /\ place \in UnsaidAt => Unsaid > 0
    /\ place \in HoldingAt => Holding > 0

(* Every step of a thread moves the counts so. *)
LEMMA CountsMove ==
    ASSUME MboxTypeOK, NEW t \in Threads, NEW from \in Places, NEW to \in Places,
           Goto(t, from, to)
    PROVE  /\ Reserved' = Reserved + Gain(t, Posters, ReservedAt, from, to)
           /\ Returning' = Returning + Gain(t, Takers, ReturningAt, from, to)
           /\ Claimed' = Claimed + Gain(t, Takers, ClaimedAt, from, to)
           /\ Unsaid' = Unsaid + Gain(t, Posters, UnsaidAt, from, to)
           /\ Holding' = Holding + Gain(t, Threads, HoldingAt, from, to)
           /\ Counted(t, from)
           /\ pc' \in [Threads -> Places]
<1>1. /\ Posters \subseteq Threads /\ Takers \subseteq Threads /\ Threads \subseteq Threads
      /\ IsFiniteSet(Posters) /\ IsFiniteSet(Takers) /\ IsFiniteSet(Threads)
  BY MboxAssumption, FS_Union DEF Threads
<1>2. pc \in [Threads -> Places]
  BY DEF MboxTypeOK
<1>3. pc' \in [Threads -> Places] /\ pc[t] = from
  BY <1>2 DEF Goto
<1>5. ASSUME NEW S, S \subseteq Threads, IsFiniteSet(S), NEW places
      PROVE  /\ Number(S, places) \in Nat
             /\ Number(S, places)' = Number(S, places) + Gain(t, S, places, from, to)
             /\ t \in S /\ from \in places => Number(S, places) > 0
  BY <1>2, <1>5, MoveOne
<1>6. QED
  BY <1>1, <1>3, <1>5 DEF Counted, Reserved, Returning, Claimed, Unsaid, Holding,
                               ReservedAt, ReturningAt, ClaimedAt, UnsaidAt, HoldingAt

(* The steps of post and fetch at which no message changes hands. *)
PostQuiet(p) ==
    \/ \E m \in Messages : PostCall(p, m)
    \/ PostWaitSpace(p) \/ PostWaitMutex(p) \/ PostSignalMail(p) \/ SignalMutex(p)
FetchQuiet(t) ==
    \/ FetchCall(t) \/ FetchTimeout(t) \/ FetchWaitMail(t)
    \/ GetWaitMutex(t) \/ GetSignalSpace(t) \/ SignalMutex(t)

(* Every semaphore call and every access to the ring keeps the counts.     *)
LEMMA PostInv == ASSUME RingIsSound, NEW p \in Posters, post(p) PROVE  /\ RingIsSound'
           /\ \/ PostWrite(p) /\ Count' = Count + 1
              \/ PostQuiet(p) /\ Count' = Count
<1>0. /\ MboxTypeOK /\ RingAgrees /\ p \in Threads /\ p \notin Takers
      /\ SYS_MBOX_SIZE \in Nat \ {0} /\ MaxPosts \in Nat
  BY MboxAssumption DEF RingIsSound, Threads
<1>1. ASSUME NEW m \in Messages, PostCall(p, m)
      PROVE  RingIsSound' /\ Count' = Count
  <2>1. Goto(p, "idle", "wait_space")
    BY <1>1 DEF PostCall
  <2>2. /\ Reserved' = Reserved /\ Returning' = Returning /\ Claimed' = Claimed
        /\ Unsaid' = Unsaid /\ Holding' = Holding /\ pc' \in [Threads -> Places]
    <3>1. /\ Gain(p, Posters, ReservedAt, "idle", "wait_space") = 0
          /\ Gain(p, Takers, ReturningAt, "idle", "wait_space") = 0
          /\ Gain(p, Takers, ClaimedAt, "idle", "wait_space") = 0
          /\ Gain(p, Posters, UnsaidAt, "idle", "wait_space") = 0
          /\ Gain(p, Threads, HoldingAt, "idle", "wait_space") = 0
      BY <1>0 DEF Gain, ReservedAt, ReturningAt, ClaimedAt, UnsaidAt,
                           HoldingAt
    <3>2. Counted(p, "idle")
      BY <2>1, <1>0, CountsMove DEF Places
    <3>3. QED
      BY <2>1, <3>1, <3>2, <1>0, CountsMove DEF Places, Counted
  <2>3. RingAgrees'
    BY <2>2, <1>0, <1>1 DEF RingAgrees, Count, PostCall, ring, sems
  <2>4. MboxTypeOK'
    BY <2>2, <1>0, <1>1 DEF MboxTypeOK, PostCall, ring, sems, Slots
  <2>5. Count' = Count
    BY <2>2, <1>1 DEF Count, PostCall, sems
  <2>6. QED BY <2>3, <2>4, <2>5 DEF RingIsSound
<1>2. ASSUME PostWaitSpace(p)
      PROVE  RingIsSound' /\ Count' = Count
  <2>1. Goto(p, "wait_space", "wait_mutex")
    BY <1>2 DEF PostWaitSpace
  <2>2. /\ Reserved \in Nat /\ Returning \in Nat
        /\ Reserved' = Reserved + 1 /\ Returning' = Returning /\ Claimed' = Claimed
        /\ Unsaid' = Unsaid /\ Holding' = Holding /\ pc' \in [Threads -> Places]
    <3>1. /\ Gain(p, Posters, ReservedAt, "wait_space", "wait_mutex") = 1
          /\ Gain(p, Takers, ReturningAt, "wait_space", "wait_mutex") = 0
          /\ Gain(p, Takers, ClaimedAt, "wait_space", "wait_mutex") = 0
          /\ Gain(p, Posters, UnsaidAt, "wait_space", "wait_mutex") = 0
          /\ Gain(p, Threads, HoldingAt, "wait_space", "wait_mutex") = 0
      BY <1>0 DEF Gain, ReservedAt, ReturningAt, ClaimedAt, UnsaidAt,
                           HoldingAt
    <3>2. Counted(p, "wait_space")
      BY <2>1, <1>0, CountsMove DEF Places
    <3>3. QED
      BY <2>1, <3>1, <3>2, <1>0, CountsMove DEF Places, Counted
  <2>3. space' = space - 1 /\ space > 0 /\ UNCHANGED <<first, last, msgs, mail, mutex, msg, posts>>
    BY <1>2 DEF PostWaitSpace, sys_sem_wait, ring
  <2>4. MboxTypeOK'
    BY <2>2, <2>3, <1>0 DEF MboxTypeOK, Slots
  <2>5. Count' = Count
    BY <2>2, <2>3, <1>0 DEF MboxTypeOK, Count
  <2>6. QED BY <2>2, <2>3, <2>4, <2>5, <1>0 DEF RingAgrees, RingIsSound
<1>3. ASSUME PostWaitMutex(p)
      PROVE  RingIsSound' /\ Count' = Count
  <2>1. Goto(p, "wait_mutex", "write")
    BY <1>3 DEF PostWaitMutex
  <2>2. /\ Holding \in Nat
        /\ Reserved' = Reserved /\ Returning' = Returning /\ Claimed' = Claimed
        /\ Unsaid' = Unsaid /\ Holding' = Holding + 1 /\ pc' \in [Threads -> Places]
    <3>1. /\ Gain(p, Posters, ReservedAt, "wait_mutex", "write") = 0
          /\ "wait_mutex" \in ReservedAt
          /\ Gain(p, Takers, ReturningAt, "wait_mutex", "write") = 0
          /\ Gain(p, Takers, ClaimedAt, "wait_mutex", "write") = 0
          /\ Gain(p, Posters, UnsaidAt, "wait_mutex", "write") = 0
          /\ Gain(p, Threads, HoldingAt, "wait_mutex", "write") = 1
      BY <1>0 DEF Gain, ReservedAt, ReturningAt, ClaimedAt, UnsaidAt,
                           HoldingAt
    <3>2. Counted(p, "wait_mutex")
      BY <2>1, <1>0, CountsMove DEF Places
    <3>3. QED
      BY <2>1, <3>1, <3>2, <1>0, CountsMove DEF Places, Counted
  <2>3. mutex' = mutex - 1 /\ mutex > 0 /\ UNCHANGED <<first, last, msgs, mail, space, msg, posts>>
    BY <1>3 DEF PostWaitMutex, sys_sem_wait, ring
  <2>4. MboxTypeOK'
    BY <2>2, <2>3, <1>0 DEF MboxTypeOK, Slots
  <2>5. Count' = Count
    BY <2>2, <2>3 DEF Count
  <2>6. mutex' + Holding' = 1
    BY <2>2, <2>3, <1>0 DEF RingAgrees, MboxTypeOK
  <2>7. QED BY <2>2, <2>3, <2>4, <2>5, <2>6, <1>0 DEF RingAgrees, RingIsSound
<1>4. ASSUME PostWrite(p)
      PROVE  RingIsSound' /\ Count' = Count + 1
  <2>1. Goto(p, "write", "signal_mail")
    BY <1>4 DEF PostWrite
  <2>2. /\ Reserved \in Nat /\ Returning \in Nat /\ Claimed \in Nat /\ Unsaid \in Nat
        /\ Reserved > 0
        /\ Reserved' = Reserved - 1 /\ Returning' = Returning /\ Claimed' = Claimed
        /\ Unsaid' = Unsaid + 1 /\ Holding' = Holding /\ pc' \in [Threads -> Places]
    <3>1. /\ Gain(p, Posters, ReservedAt, "write", "signal_mail") = -1
          /\ "write" \in ReservedAt
          /\ Gain(p, Takers, ReturningAt, "write", "signal_mail") = 0
          /\ Gain(p, Takers, ClaimedAt, "write", "signal_mail") = 0
          /\ Gain(p, Posters, UnsaidAt, "write", "signal_mail") = 1
          /\ Gain(p, Threads, HoldingAt, "write", "signal_mail") = 0
          /\ "write" \in HoldingAt
      BY <1>0 DEF Gain, ReservedAt, ReturningAt, ClaimedAt, UnsaidAt,
                           HoldingAt
    <3>2. Counted(p, "write")
      BY <2>1, <1>0, CountsMove DEF Places
    <3>3. QED
      BY <2>1, <3>1, <3>2, <1>0, CountsMove DEF Places, Counted
  <2>3. /\ msgs' = [msgs EXCEPT ![last] = msg[p]] /\ last' = Advance(last)
        /\ UNCHANGED <<first, mail, space, mutex, msg, posts>>
    BY <1>4 DEF PostWrite, sems
  <2>4. MboxTypeOK'
    <3>1. last' \in Slots
      BY <2>3, <1>0 DEF MboxTypeOK, Slots, Advance
    <3>2. QED BY <3>1, <2>2, <2>3, <1>0 DEF MboxTypeOK, Threads
  <2>5. Count' = Count + 1 /\ Count \in Nat /\ Count < SYS_MBOX_SIZE
    BY <2>2, <2>3, <1>0 DEF Count, RingAgrees, MboxTypeOK
  <2>6. last' = first' + Count' \/ last' = first' + Count' - SYS_MBOX_SIZE
    <3>1. /\ first \in Nat /\ first < SYS_MBOX_SIZE
          /\ last \in Nat /\ last < SYS_MBOX_SIZE
          /\ last = first + Count \/ last = first + Count - SYS_MBOX_SIZE
      BY <1>0 DEF RingAgrees, MboxTypeOK, Slots
    <3>2. last' = (IF last + 1 = SYS_MBOX_SIZE THEN 0 ELSE last + 1) /\ first' = first
      BY <2>3 DEF Advance
    <3>3. QED BY <3>1, <3>2, <2>5, <1>0
  <2>7. Count' = mail' + Claimed' + Unsaid'
    BY <2>2, <2>3, <2>5, <1>0 DEF RingAgrees, MboxTypeOK
  <2>8. QED BY <2>2, <2>3, <2>4, <2>5, <2>6, <2>7, <1>0 DEF RingAgrees, RingIsSound
<1>5. ASSUME PostSignalMail(p)
      PROVE  RingIsSound' /\ Count' = Count
  <2>1. Goto(p, "signal_mail", "signal_mutex")
    BY <1>5 DEF PostSignalMail
  <2>2. /\ Claimed \in Nat /\ Unsaid \in Nat /\ Unsaid > 0
        /\ Reserved' = Reserved /\ Returning' = Returning /\ Claimed' = Claimed
        /\ Unsaid' = Unsaid - 1 /\ Holding' = Holding /\ pc' \in [Threads -> Places]
    <3>1. /\ Gain(p, Posters, ReservedAt, "signal_mail", "signal_mutex") = 0
          /\ Gain(p, Takers, ReturningAt, "signal_mail", "signal_mutex") = 0
          /\ Gain(p, Takers, ClaimedAt, "signal_mail", "signal_mutex") = 0
          /\ Gain(p, Posters, UnsaidAt, "signal_mail", "signal_mutex") = -1
          /\ "signal_mail" \in UnsaidAt
          /\ Gain(p, Threads, HoldingAt, "signal_mail", "signal_mutex") = 0
          /\ "signal_mail" \in HoldingAt
      BY <1>0 DEF Gain, ReservedAt, ReturningAt, ClaimedAt, UnsaidAt,
                           HoldingAt
    <3>2. Counted(p, "signal_mail")
      BY <2>1, <1>0, CountsMove DEF Places
    <3>3. QED
      BY <2>1, <3>1, <3>2, <1>0, CountsMove DEF Places, Counted
  <2>3. /\ mail' = IF mail < SYS_MBOX_SIZE THEN mail + 1 ELSE mail
        /\ UNCHANGED <<first, last, msgs, space, mutex, msg, posts>>
    BY <1>5 DEF PostSignalMail, sys_sem_signal, ring
  <2>4. mail' = mail + 1 /\ mail < SYS_MBOX_SIZE
    BY <2>2, <2>3, <1>0 DEF RingAgrees, MboxTypeOK
  <2>5. MboxTypeOK'
    BY <2>2, <2>3, <2>4, <1>0 DEF MboxTypeOK, Slots
  <2>6. Count' = Count
    BY <2>2, <2>3 DEF Count
  <2>7. Count' = mail' + Claimed' + Unsaid'
    BY <2>2, <2>4, <2>6, <1>0 DEF RingAgrees, MboxTypeOK
  <2>8. QED BY <2>2, <2>3, <2>5, <2>6, <2>7, <1>0 DEF RingAgrees, RingIsSound
<1>6. ASSUME SignalMutex(p)
      PROVE  RingIsSound' /\ Count' = Count
  <2>1. Goto(p, "signal_mutex", "idle")
    BY <1>6 DEF SignalMutex
  <2>2. /\ Holding \in Nat /\ Holding > 0
        /\ Reserved' = Reserved /\ Returning' = Returning /\ Claimed' = Claimed
        /\ Unsaid' = Unsaid /\ Holding' = Holding - 1 /\ pc' \in [Threads -> Places]
    <3>1. /\ Gain(p, Posters, ReservedAt, "signal_mutex", "idle") = 0
          /\ Gain(p, Takers, ReturningAt, "signal_mutex", "idle") = 0
          /\ Gain(p, Takers, ClaimedAt, "signal_mutex", "idle") = 0
          /\ Gain(p, Posters, UnsaidAt, "signal_mutex", "idle") = 0
          /\ Gain(p, Threads, HoldingAt, "signal_mutex", "idle") = -1
          /\ "signal_mutex" \in HoldingAt
      BY <1>0 DEF Gain, ReservedAt, ReturningAt, ClaimedAt, UnsaidAt,
                           HoldingAt
    <3>2. Counted(p, "signal_mutex")
      BY <2>1, <1>0, CountsMove DEF Places
    <3>3. QED
      BY <2>1, <3>1, <3>2, <1>0, CountsMove DEF Places, Counted
  <2>3. /\ mutex' = IF mutex < 1 THEN mutex + 1 ELSE mutex
        /\ UNCHANGED <<first, last, msgs, mail, space, msg, posts>>
    BY <1>6 DEF SignalMutex, sys_sem_signal, ring
  <2>4. mutex' = 1 /\ mutex' + Holding' = 1
    BY <2>2, <2>3, <1>0 DEF RingAgrees, MboxTypeOK
  <2>5. MboxTypeOK'
    BY <2>2, <2>3, <2>4, <1>0 DEF MboxTypeOK, Slots
  <2>6. Count' = Count
    BY <2>2, <2>3 DEF Count
  <2>7. QED BY <2>2, <2>3, <2>4, <2>5, <2>6, <1>0 DEF RingAgrees, RingIsSound
<1>7. QED
  BY <1>1, <1>2, <1>3, <1>4, <1>5, <1>6 DEF post, PostQuiet

(* The same for the steps of fetch, fetchT and get.                        *)
LEMMA FetchInv == ASSUME RingIsSound, NEW t \in Takers, fetch(t) PROVE  /\ RingIsSound'
           /\ \/ GetRead(t) /\ Count' = Count - 1
              \/ FetchQuiet(t) /\ Count' = Count
<1>0. /\ MboxTypeOK /\ RingAgrees /\ t \in Threads /\ t \notin Posters
      /\ SYS_MBOX_SIZE \in Nat \ {0} /\ MaxPosts \in Nat
  BY MboxAssumption DEF RingIsSound, Threads
<1>1. ASSUME FetchCall(t) \/ FetchTimeout(t)
      PROVE  RingIsSound' /\ Count' = Count
  <2>1. \/ Goto(t, "idle", "wait_mail")
        \/ Goto(t, "wait_mail", "idle")
    BY <1>1 DEF FetchCall, FetchTimeout
  <2>2. /\ Reserved' = Reserved /\ Returning' = Returning /\ Claimed' = Claimed
        /\ Unsaid' = Unsaid /\ Holding' = Holding /\ pc' \in [Threads -> Places]
    <3>1. /\ Gain(t, Posters, ReservedAt, "idle", "wait_mail") = 0
          /\ Gain(t, Takers, ReturningAt, "idle", "wait_mail") = 0
          /\ Gain(t, Takers, ClaimedAt, "idle", "wait_mail") = 0
          /\ Gain(t, Posters, UnsaidAt, "idle", "wait_mail") = 0
          /\ Gain(t, Threads, HoldingAt, "idle", "wait_mail") = 0
          /\ Gain(t, Posters, ReservedAt, "wait_mail", "idle") = 0
          /\ Gain(t, Takers, ReturningAt, "wait_mail", "idle") = 0
          /\ Gain(t, Takers, ClaimedAt, "wait_mail", "idle") = 0
          /\ Gain(t, Posters, UnsaidAt, "wait_mail", "idle") = 0
          /\ Gain(t, Threads, HoldingAt, "wait_mail", "idle") = 0
      BY <1>0 DEF Gain, ReservedAt, ReturningAt, ClaimedAt, UnsaidAt,
                           HoldingAt
    <3>2. Counted(t, "idle") \/ Counted(t, "wait_mail")
      BY <2>1, <1>0, CountsMove DEF Places
    <3>3. QED
      BY <2>1, <3>1, <3>2, <1>0, CountsMove DEF Places, Counted
  <2>3. UNCHANGED <<first, last, msgs, mail, space, mutex, msg, posts>>
    BY <1>1 DEF FetchCall, FetchTimeout, ring, sems
  <2>4. MboxTypeOK'
    BY <2>2, <2>3, <1>0 DEF MboxTypeOK, Slots
  <2>5. Count' = Count
    BY <2>2, <2>3 DEF Count
  <2>6. QED BY <2>2, <2>3, <2>4, <2>5, <1>0 DEF RingAgrees, RingIsSound
<1>2. ASSUME FetchWaitMail(t)
      PROVE  RingIsSound' /\ Count' = Count
  <2>1. Goto(t, "wait_mail", "wait_mutex")
    BY <1>2 DEF FetchWaitMail
  <2>2. /\ Claimed \in Nat /\ Unsaid \in Nat
        /\ Reserved' = Reserved /\ Returning' = Returning /\ Claimed' = Claimed + 1
        /\ Unsaid' = Unsaid /\ Holding' = Holding /\ pc' \in [Threads -> Places]
    <3>1. /\ Gain(t, Posters, ReservedAt, "wait_mail", "wait_mutex") = 0
          /\ Gain(t, Takers, ReturningAt, "wait_mail", "wait_mutex") = 0
          /\ Gain(t, Takers, ClaimedAt, "wait_mail", "wait_mutex") = 1
          /\ Gain(t, Posters, UnsaidAt, "wait_mail", "wait_mutex") = 0
          /\ Gain(t, Threads, HoldingAt, "wait_mail", "wait_mutex") = 0
      BY <1>0 DEF Gain, ReservedAt, ReturningAt, ClaimedAt, UnsaidAt,
                           HoldingAt
    <3>2. Counted(t, "wait_mail")
      BY <2>1, <1>0, CountsMove DEF Places
    <3>3. QED
      BY <2>1, <3>1, <3>2, <1>0, CountsMove DEF Places, Counted
  <2>3. mail' = mail - 1 /\ mail > 0 /\ UNCHANGED <<first, last, msgs, space, mutex, msg, posts>>
    BY <1>2 DEF FetchWaitMail, sys_sem_wait, ring
  <2>4. MboxTypeOK'
    BY <2>2, <2>3, <1>0 DEF MboxTypeOK, Slots
  <2>5. Count' = Count
    BY <2>2, <2>3 DEF Count
  <2>6. Count' = mail' + Claimed' + Unsaid'
    BY <2>2, <2>3, <2>5, <1>0 DEF RingAgrees, MboxTypeOK
  <2>7. QED BY <2>2, <2>3, <2>4, <2>5, <2>6, <1>0 DEF RingAgrees, RingIsSound
<1>3. ASSUME GetWaitMutex(t)
      PROVE  RingIsSound' /\ Count' = Count
  <2>1. Goto(t, "wait_mutex", "read")
    BY <1>3 DEF GetWaitMutex
  <2>2. /\ Holding \in Nat
        /\ Reserved' = Reserved /\ Returning' = Returning /\ Claimed' = Claimed
        /\ Unsaid' = Unsaid /\ Holding' = Holding + 1 /\ pc' \in [Threads -> Places]
    <3>1. /\ Gain(t, Posters, ReservedAt, "wait_mutex", "read") = 0
          /\ Gain(t, Takers, ReturningAt, "wait_mutex", "read") = 0
          /\ Gain(t, Takers, ClaimedAt, "wait_mutex", "read") = 0
          /\ "wait_mutex" \in ClaimedAt
          /\ Gain(t, Posters, UnsaidAt, "wait_mutex", "read") = 0
          /\ Gain(t, Threads, HoldingAt, "wait_mutex", "read") = 1
      BY <1>0 DEF Gain, ReservedAt, ReturningAt, ClaimedAt, UnsaidAt,
                           HoldingAt
    <3>2. Counted(t, "wait_mutex")
      BY <2>1, <1>0, CountsMove DEF Places
    <3>3. QED
      BY <2>1, <3>1, <3>2, <1>0, CountsMove DEF Places, Counted
  <2>3. mutex' = mutex - 1 /\ mutex > 0 /\ UNCHANGED <<first, last, msgs, mail, space, msg, posts>>
    BY <1>3 DEF GetWaitMutex, sys_sem_wait, ring
  <2>4. MboxTypeOK'
    BY <2>2, <2>3, <1>0 DEF MboxTypeOK, Slots
  <2>5. Count' = Count
    BY <2>2, <2>3 DEF Count
  <2>6. mutex' + Holding' = 1
    BY <2>2, <2>3, <1>0 DEF RingAgrees, MboxTypeOK
  <2>7. QED BY <2>2, <2>3, <2>4, <2>5, <2>6, <1>0 DEF RingAgrees, RingIsSound
<1>4. ASSUME GetRead(t)
      PROVE  RingIsSound' /\ Count' = Count - 1
  <2>1. Goto(t, "read", "signal_space")
    BY <1>4 DEF GetRead
  <2>2. /\ Reserved \in Nat /\ Returning \in Nat /\ Claimed \in Nat /\ Unsaid \in Nat
        /\ Claimed > 0
        /\ Reserved' = Reserved /\ Returning' = Returning + 1 /\ Claimed' = Claimed - 1
        /\ Unsaid' = Unsaid /\ Holding' = Holding /\ pc' \in [Threads -> Places]
    <3>1. /\ Gain(t, Posters, ReservedAt, "read", "signal_space") = 0
          /\ Gain(t, Takers, ReturningAt, "read", "signal_space") = 1
          /\ Gain(t, Takers, ClaimedAt, "read", "signal_space") = -1
          /\ "read" \in ClaimedAt
          /\ Gain(t, Posters, UnsaidAt, "read", "signal_space") = 0
          /\ Gain(t, Threads, HoldingAt, "read", "signal_space") = 0
          /\ "read" \in HoldingAt
      BY <1>0 DEF Gain, ReservedAt, ReturningAt, ClaimedAt, UnsaidAt,
                           HoldingAt
    <3>2. Counted(t, "read")
      BY <2>1, <1>0, CountsMove DEF Places
    <3>3. QED
      BY <2>1, <3>1, <3>2, <1>0, CountsMove DEF Places, Counted
  <2>3. /\ msg' = [msg EXCEPT ![t] = msgs[first]] /\ first' = Advance(first)
        /\ UNCHANGED <<last, msgs, mail, space, mutex, posts>>
    BY <1>4 DEF GetRead, sems
  <2>4. MboxTypeOK'
    <3>1. first' \in Slots
      BY <2>3, <1>0 DEF MboxTypeOK, Slots, Advance
    <3>2. QED BY <3>1, <2>2, <2>3, <1>0 DEF MboxTypeOK
  <2>5. Count' = Count - 1 /\ Count \in Nat /\ Count > 0 /\ Count <= SYS_MBOX_SIZE
    BY <2>2, <2>3, <1>0 DEF Count, RingAgrees, MboxTypeOK
  <2>6. last' = first' + Count' \/ last' = first' + Count' - SYS_MBOX_SIZE
    <3>1. /\ first \in Nat /\ first < SYS_MBOX_SIZE
          /\ last \in Nat /\ last < SYS_MBOX_SIZE
          /\ last = first + Count \/ last = first + Count - SYS_MBOX_SIZE
      BY <1>0 DEF RingAgrees, MboxTypeOK, Slots
    <3>2. first' = (IF first + 1 = SYS_MBOX_SIZE THEN 0 ELSE first + 1) /\ last' = last
      BY <2>3 DEF Advance
    <3>3. QED BY <3>1, <3>2, <2>5, <1>0
  <2>7. Count' = mail' + Claimed' + Unsaid'
    BY <2>2, <2>3, <2>5, <1>0 DEF RingAgrees, MboxTypeOK
  <2>8. QED BY <2>2, <2>3, <2>4, <2>5, <2>6, <2>7, <1>0 DEF RingAgrees, RingIsSound
<1>5. ASSUME GetSignalSpace(t)
      PROVE  RingIsSound' /\ Count' = Count
  <2>1. Goto(t, "signal_space", "signal_mutex")
    BY <1>5 DEF GetSignalSpace
  <2>2. /\ Reserved \in Nat /\ Returning \in Nat /\ Returning > 0
        /\ Reserved' = Reserved /\ Returning' = Returning - 1 /\ Claimed' = Claimed
        /\ Unsaid' = Unsaid /\ Holding' = Holding /\ pc' \in [Threads -> Places]
    <3>1. /\ Gain(t, Posters, ReservedAt, "signal_space", "signal_mutex") = 0
          /\ Gain(t, Takers, ReturningAt, "signal_space", "signal_mutex") = -1
          /\ "signal_space" \in ReturningAt
          /\ Gain(t, Takers, ClaimedAt, "signal_space", "signal_mutex") = 0
          /\ Gain(t, Posters, UnsaidAt, "signal_space", "signal_mutex") = 0
          /\ Gain(t, Threads, HoldingAt, "signal_space", "signal_mutex") = 0
          /\ "signal_space" \in HoldingAt
      BY <1>0 DEF Gain, ReservedAt, ReturningAt, ClaimedAt, UnsaidAt,
                           HoldingAt
    <3>2. Counted(t, "signal_space")
      BY <2>1, <1>0, CountsMove DEF Places
    <3>3. QED
      BY <2>1, <3>1, <3>2, <1>0, CountsMove DEF Places, Counted
  <2>3. /\ space' = IF space < SYS_MBOX_SIZE THEN space + 1 ELSE space
        /\ UNCHANGED <<first, last, msgs, mail, mutex, msg, posts>>
    BY <1>5 DEF GetSignalSpace, sys_sem_signal, ring
  <2>4. space' = space + 1 /\ space < SYS_MBOX_SIZE
    BY <2>2, <2>3, <1>0 DEF RingAgrees, MboxTypeOK, Count
  <2>5. MboxTypeOK'
    BY <2>2, <2>3, <2>4, <1>0 DEF MboxTypeOK, Slots
  <2>6. Count' = Count
    BY <2>2, <2>4, <1>0 DEF Count, MboxTypeOK
  <2>7. QED BY <2>2, <2>3, <2>5, <2>6, <1>0 DEF RingAgrees, RingIsSound
<1>6. ASSUME SignalMutex(t)
      PROVE  RingIsSound' /\ Count' = Count
  <2>1. Goto(t, "signal_mutex", "idle")
    BY <1>6 DEF SignalMutex
  <2>2. /\ Holding \in Nat /\ Holding > 0
        /\ Reserved' = Reserved /\ Returning' = Returning /\ Claimed' = Claimed
        /\ Unsaid' = Unsaid /\ Holding' = Holding - 1 /\ pc' \in [Threads -> Places]
    <3>1. /\ Gain(t, Posters, ReservedAt, "signal_mutex", "idle") = 0
          /\ Gain(t, Takers, ReturningAt, "signal_mutex", "idle") = 0
          /\ Gain(t, Takers, ClaimedAt, "signal_mutex", "idle") = 0
          /\ Gain(t, Posters, UnsaidAt, "signal_mutex", "idle") = 0
          /\ Gain(t, Threads, HoldingAt, "signal_mutex", "idle") = -1
          /\ "signal_mutex" \in HoldingAt
      BY <1>0 DEF Gain, ReservedAt, ReturningAt, ClaimedAt, UnsaidAt,
                           HoldingAt
    <3>2. Counted(t, "signal_mutex")
      BY <2>1, <1>0, CountsMove DEF Places
    <3>3. QED
      BY <2>1, <3>1, <3>2, <1>0, CountsMove DEF Places, Counted
  <2>3. /\ mutex' = IF mutex < 1 THEN mutex + 1 ELSE mutex
        /\ UNCHANGED <<first, last, msgs, mail, space, msg, posts>>
    BY <1>6 DEF SignalMutex, sys_sem_signal, ring
  <2>4. mutex' = 1 /\ mutex' + Holding' = 1
    BY <2>2, <2>3, <1>0 DEF RingAgrees, MboxTypeOK
  <2>5. MboxTypeOK'
    BY <2>2, <2>3, <2>4, <1>0 DEF MboxTypeOK, Slots
  <2>6. Count' = Count
    BY <2>2, <2>3 DEF Count
  <2>7. QED BY <2>2, <2>3, <2>4, <2>5, <2>6, <1>0 DEF RingAgrees, RingIsSound
<1>7. QED
  BY <1>1, <1>2, <1>3, <1>4, <1>5, <1>6 DEF fetch, FetchQuiet

(* Every step keeps types and counts. *)
LEMMA NextInv == RingIsSound /\ [MboxNext]_mboxVars => RingIsSound'
<1> SUFFICES ASSUME RingIsSound, [MboxNext]_mboxVars PROVE RingIsSound'
  OBVIOUS
<1>1. CASE UNCHANGED mboxVars
  BY <1>1 DEF RingIsSound, mboxVars, MboxTypeOK, RingAgrees, Count, Reserved, Returning, Claimed,
              Unsaid, Holding, Number, At
<1>2. CASE MboxNext
  BY <1>2, PostInv, FetchInv DEF MboxNext
<1>3. QED BY <1>1, <1>2

(* The semaphores agree with the ring at every step of every thread,       *)
(* whatever the interleaving, the size of the ring and the number of       *)
(* threads: no message is written over and no empty slot is read. *)
THEOREM RingStaysSound == MboxSpec => []RingIsSound
BY InitInv, NextInv, PTL DEF MboxSpec

----------------------------------------------------------------------------
(* The mapping of the mailbox to the queue it promises. *)
Queue    == [i \in 1 .. Count |-> msgs[Slot(i)]]
Sending  == [p \in Posters |-> IF pc[p] \in {"wait_space", "wait_mutex", "write"}
                               THEN msg[p] ELSE None]
Received == [t \in Takers |-> msg[t]]

(* A poster that has not written yet has a message to write. *)
Armed == \A p \in Posters :
            pc[p] \in {"wait_space", "wait_mutex", "write"} => msg[p] \in Messages

(* It holds throughout: only PostCall arms a poster. *)
LEMMA ArmedInv == RingIsSound /\ Armed /\ [MboxNext]_mboxVars => Armed'
<1> SUFFICES ASSUME RingIsSound, Armed, [MboxNext]_mboxVars PROVE Armed'
  OBVIOUS
<1>0. /\ pc \in [Threads -> Places] /\ msg \in [Threads -> Messages \cup {None}]
      /\ Posters \subseteq Threads /\ Takers \subseteq Threads
      /\ \A t \in Takers : t \notin Posters
  BY MboxAssumption DEF RingIsSound, MboxTypeOK, Threads
<1>1. ASSUME NEW p \in Posters, post(p)
      PROVE  Armed'
  BY <1>0, <1>1 DEF Armed, post, PostCall, PostWaitSpace, PostWaitMutex, PostWrite,
                    PostSignalMail, SignalMutex, Goto
<1>2. ASSUME NEW t \in Takers, fetch(t)
      PROVE  Armed'
  <2>1. \A p \in Posters : pc'[p] = pc[p] /\ msg'[p] = msg[p]
    BY <1>0, <1>2 DEF fetch, FetchCall, FetchTimeout, FetchWaitMail, GetWaitMutex,
                      GetRead, GetSignalSpace, SignalMutex, Goto
  <2>2. QED BY <2>1 DEF Armed
<1>3. CASE UNCHANGED mboxVars
  BY <1>3 DEF mboxVars, Armed
<1>4. QED BY <1>1, <1>2, <1>3 DEF MboxNext

(* The ring read from first on is a sequence of messages. *)
LEMMA QueueType ==
    ASSUME RingIsSound
    PROVE  /\ Count \in Nat /\ Count <= SYS_MBOX_SIZE
           /\ \A i \in 1 .. Count : Slot(i) \in Slots
           /\ Queue \in Seq(Messages \cup {None}) /\ Len(Queue) = Count
<1>1. Count \in Nat /\ Count <= SYS_MBOX_SIZE /\ SYS_MBOX_SIZE \in Nat \ {0}
  BY MboxAssumption DEF RingIsSound, RingAgrees
<1>2. first \in Nat /\ first < SYS_MBOX_SIZE /\ msgs \in [Slots -> Messages \cup {None}]
  BY <1>1 DEF RingIsSound, MboxTypeOK, Slots
<1>3. \A i \in 1 .. Count : Slot(i) \in Slots
  BY <1>1, <1>2 DEF Slot, Slots
<1>4. Queue \in [1 .. Count -> Messages \cup {None}]
  BY <1>2, <1>3 DEF Queue
<1> HIDE DEF Queue
<1>5. Queue \in Seq(Messages \cup {None}) /\ Len(Queue) = Count
  BY <1>1, <1>4
<1>6. QED BY <1>1, <1>3, <1>5

(* Initially both are empty. *)
LEMMA InitRefines == MboxInit => Promise!Init
<1> SUFFICES ASSUME MboxInit PROVE Promise!Init
  OBVIOUS
<1>1. Count = 0
  <2>1. RingIsSound
    BY InitInv
  <2>2. At(Posters, {"wait_mutex", "write"}) = {} /\ At(Takers, {"signal_space"}) = {}
    BY DEF MboxInit, At, Threads
  <2>3. QED BY <2>2, FS_EmptySet, MboxAssumption DEF Count, Reserved, Returning, Number, MboxInit
<1>2. [i \in 1 .. Count |-> msgs[Slot(i)]] = << >>
  BY <1>1
<1>3. /\ [p \in Posters |-> IF pc[p] \in {"wait_space", "wait_mutex", "write"}
                            THEN msg[p] ELSE None] = [p \in Posters |-> None]
      /\ [t \in Takers |-> msg[t]] = [t \in Takers |-> None]
  BY DEF MboxInit, Threads
<1>4. QED BY <1>2, <1>3 DEF Promise!Init

(* A step that touches neither ring nor count leaves the queue alone. *)
LEMMA QuietQueue ==
    ASSUME Count' = Count, first' = first, msgs' = msgs
    PROVE  Queue' = Queue
BY DEF Queue, Slot

(* Writing the ring is handing a message over. *)
LEMMA WriteRefines ==
    ASSUME RingIsSound, Armed, NEW p \in Posters, PostWrite(p), Count' = Count + 1, RingIsSound'
    PROVE  Promise!HandOver(p)
<1>1. /\ pc[p] = "write" /\ pc' = [pc EXCEPT ![p] = "signal_mail"]
      /\ msgs' = [msgs EXCEPT ![last] = msg[p]] /\ first' = first /\ msg' = msg
  BY DEF PostWrite, Goto, sems
<1>2. /\ pc \in [Threads -> Places] /\ p \in Threads /\ Posters \subseteq Threads
      /\ msg \in [Threads -> Messages \cup {None}] /\ msgs \in [Slots -> Messages \cup {None}]
      /\ first \in Nat /\ first < SYS_MBOX_SIZE /\ last \in Nat /\ last < SYS_MBOX_SIZE
      /\ last \in Slots /\ SYS_MBOX_SIZE \in Nat \ {0} /\ p \notin Takers
  BY MboxAssumption DEF RingIsSound, MboxTypeOK, Threads, Slots
<1>3. Count \in Nat /\ Count < SYS_MBOX_SIZE /\ Len(Queue) = Count
      /\ Queue \in Seq(Messages \cup {None})
      /\ \A i \in 1 .. Count : Slot(i) \in Slots
  <2>1. Count' <= SYS_MBOX_SIZE
    BY MboxAssumption DEF RingIsSound, RingAgrees
  <2>2. QED BY <2>1, QueueType, <1>2
<1>4. last = Slot(Count + 1)
  BY <1>2, <1>3 DEF RingIsSound, RingAgrees, Slot
<1>5. \A i \in 1 .. Count : Slot(i) # last
  BY <1>2, <1>3, <1>4 DEF Slot
<1>6. Queue' = Append(Queue, msg[p])
  <2>1. Queue' = [i \in 1 .. Count + 1 |-> msgs'[Slot(i)]]
    BY <1>1 DEF Queue, Slot
  <2>2. \A i \in 1 .. Count : msgs'[Slot(i)] = msgs[Slot(i)]
    BY <1>1, <1>2, <1>3, <1>5
  <2>3. msgs'[Slot(Count + 1)] = msg[p]
    BY <1>1, <1>2, <1>4
  <2>4. Append(Queue, msg[p]) = [i \in 1 .. Count + 1 |->
                                   IF i = Count + 1 THEN msg[p] ELSE Queue[i]]
    BY <1>3
  <2>5. \A i \in 1 .. Count + 1 : msgs'[Slot(i)] = IF i = Count + 1 THEN msg[p] ELSE Queue[i]
    BY <2>2, <2>3, <1>3 DEF Queue
  <2>6. QED BY <2>1, <2>4, <2>5
<1>7. Sending[p] = msg[p] /\ Sending' = [Sending EXCEPT ![p] = None]
  BY <1>1, <1>2 DEF Sending
<1>8. Received' = Received
  BY <1>1 DEF Received
<1>9. msg[p] # None
  BY <1>1, MboxAssumption DEF Armed
<1>10. QED
  BY <1>3, <1>6, <1>7, <1>8, <1>9 DEF Promise!HandOver, Queue, Sending, Received

(* Reading it is receiving the oldest message. *)
LEMMA ReadRefines ==
    ASSUME RingIsSound, NEW t \in Takers, GetRead(t), Count' = Count - 1, RingIsSound'
    PROVE  Promise!Receive(t)
<1>1. /\ pc[t] = "read" /\ pc' = [pc EXCEPT ![t] = "signal_space"]
      /\ msg' = [msg EXCEPT ![t] = msgs[first]] /\ msgs' = msgs
      /\ first' = IF first + 1 = SYS_MBOX_SIZE THEN 0 ELSE first + 1
  BY DEF GetRead, Goto, sems, Advance
<1>2. /\ pc \in [Threads -> Places] /\ t \in Threads /\ Posters \subseteq Threads
      /\ msg \in [Threads -> Messages \cup {None}] /\ Takers \subseteq Threads
      /\ first \in Nat /\ first < SYS_MBOX_SIZE /\ SYS_MBOX_SIZE \in Nat \ {0}
      /\ t \notin Posters
  BY MboxAssumption DEF RingIsSound, MboxTypeOK, Threads, Slots
<1>3. Count \in Nat /\ Count > 0 /\ Len(Queue) = Count /\ Count <= SYS_MBOX_SIZE
      /\ Queue \in Seq(Messages \cup {None})
  <2>1. Count' >= 0
    BY MboxAssumption DEF RingIsSound, RingAgrees
  <2>2. QED BY <2>1, QueueType
<1>4. Queue # << >> /\ Head(Queue) = msgs[first]
  <2>1. Head(Queue) = Queue[1] /\ Queue # << >>
    BY <1>3
  <2>2. Slot(1) = first
    BY <1>2 DEF Slot
  <2>3. QED BY <2>1, <2>2, <1>3 DEF Queue
<1>5. Queue' = Tail(Queue)
  <2>1. Queue' = [i \in 1 .. Count - 1 |-> msgs[Slot(i)']]
    BY <1>1 DEF Queue
  <2>2. \A i \in 1 .. Count - 1 : Slot(i)' = Slot(i + 1)
    BY <1>1, <1>2, <1>3 DEF Slot
  <2>3. Tail(Queue) = [i \in 1 .. Count - 1 |-> Queue[i + 1]]
    <3> DEFINE rest == Tail(Queue)
    <3>1. /\ rest \in Seq(Messages \cup {None}) /\ Len(rest) = Count - 1
          /\ \A i \in 1 .. Count - 1 : rest[i] = Queue[i + 1]
      BY <1>3, <1>4, HeadTailProperties
    <3> HIDE DEF rest
    <3>2. rest \in [1 .. Count - 1 -> Messages \cup {None}]
      BY <3>1, LenProperties
    <3>3. rest = [i \in 1 .. Count - 1 |-> rest[i]]
      BY <3>2
    <3>4. rest = [i \in 1 .. Count - 1 |-> Queue[i + 1]]
      BY <3>1, <3>3
    <3>5. QED BY <3>4 DEF rest
  <2>4. \A i \in 1 .. Count - 1 : Queue[i + 1] = msgs[Slot(i + 1)]
    BY <1>3 DEF Queue
  <2>5. QED BY <2>1, <2>2, <2>3, <2>4
<1>6. Sending' = Sending
  BY <1>1, <1>2 DEF Sending
<1>7. Received' = [Received EXCEPT ![t] = msgs[first]]
  BY <1>1, <1>2 DEF Received
<1>8. QED
  BY <1>4, <1>5, <1>6, <1>7 DEF Promise!Receive, Queue, Sending, Received

(* Every other step starts a post or changes nothing the users see. *)
LEMMA QuietRefines ==
    ASSUME RingIsSound, Count' = Count,
           (\E p \in Posters : PostQuiet(p)) \/ (\E t \in Takers : FetchQuiet(t))
    PROVE  [Promise!Next]_(Promise!fifo)
<1>0. /\ pc \in [Threads -> Places] /\ msg \in [Threads -> Messages \cup {None}]
      /\ Posters \subseteq Threads /\ Takers \subseteq Threads
      /\ \A t \in Takers : t \notin Posters
      /\ None \notin Messages
  BY MboxAssumption DEF RingIsSound, MboxTypeOK, Threads
<1>1. first' = first /\ msgs' = msgs
  BY DEF PostQuiet, FetchQuiet, PostCall, PostWaitSpace, PostWaitMutex, PostSignalMail,
         SignalMutex, FetchCall, FetchTimeout, FetchWaitMail, GetWaitMutex,
         GetSignalSpace, ring, sems
<1>2. Queue' = Queue
  BY <1>1, QuietQueue
<1>3. ASSUME NEW p \in Posters, NEW m \in Messages, PostCall(p, m)
      PROVE  Promise!StartPost(p, m)
  <2>1. /\ pc[p] = "idle" /\ pc' = [pc EXCEPT ![p] = "wait_space"]
        /\ msg' = [msg EXCEPT ![p] = m]
    BY <1>3 DEF PostCall, Goto
  <2>2. Sending[p] = None /\ Sending' = [Sending EXCEPT ![p] = m]
    BY <2>1, <1>0 DEF Sending
  <2>3. Received' = Received
    BY <2>1, <1>0 DEF Received
  <2>4. QED BY <2>2, <2>3, <1>2 DEF Promise!StartPost, Queue, Sending, Received
<1>4. ASSUME NEW p \in Posters,
             PostWaitSpace(p) \/ PostWaitMutex(p) \/ PostSignalMail(p) \/ SignalMutex(p)
      PROVE  Sending' = Sending /\ msg' = msg
  BY <1>0, <1>4 DEF Sending, PostWaitSpace, PostWaitMutex, PostSignalMail, SignalMutex, Goto
<1>5. ASSUME NEW t \in Takers, FetchQuiet(t)
      PROVE  Sending' = Sending /\ msg' = msg
  <2>1. msg' = msg /\ \A p \in Posters : pc'[p] = pc[p]
    BY <1>0, <1>5 DEF FetchQuiet, FetchCall, FetchTimeout, FetchWaitMail, GetWaitMutex,
                      GetSignalSpace, SignalMutex, Goto
  <2>2. QED BY <2>1 DEF Sending
<1>6. Sending' = Sending /\ msg' = msg => UNCHANGED (Promise!fifo)
  BY <1>2 DEF Promise!fifo, Queue, Sending, Received
<1>7. CASE \E p \in Posters, m \in Messages : PostCall(p, m)
  BY <1>3, <1>7 DEF Promise!Next
<1>8. CASE \/ \E p \in Posters : \/ PostWaitSpace(p) \/ PostWaitMutex(p)
                                 \/ PostSignalMail(p) \/ SignalMutex(p)
           \/ \E t \in Takers : FetchQuiet(t)
  BY <1>4, <1>5, <1>6, <1>8
<1>9. QED BY <1>7, <1>8 DEF PostQuiet

(* So every step of the mailbox is one of the queue or invisible. *)
LEMMA StepRefines == RingIsSound /\ Armed /\ [MboxNext]_mboxVars => [Promise!Next]_(Promise!fifo)
<1> SUFFICES ASSUME RingIsSound, Armed, [MboxNext]_mboxVars PROVE [Promise!Next]_(Promise!fifo)
  OBVIOUS
<1>0. RingIsSound'
  BY NextInv
<1>1. ASSUME NEW p \in Posters, post(p)
      PROVE  [Promise!Next]_(Promise!fifo)
  <2>1. \/ PostWrite(p) /\ Count' = Count + 1
        \/ PostQuiet(p) /\ Count' = Count
    BY <1>1, PostInv
  <2>2. QED BY <2>1, <1>0, WriteRefines, QuietRefines DEF Promise!Next
<1>2. ASSUME NEW t \in Takers, fetch(t)
      PROVE  [Promise!Next]_(Promise!fifo)
  <2>1. \/ GetRead(t) /\ Count' = Count - 1
        \/ FetchQuiet(t) /\ Count' = Count
    BY <1>2, FetchInv
  <2>2. QED BY <2>1, <1>0, ReadRefines, QuietRefines DEF Promise!Next
<1>3. CASE UNCHANGED mboxVars
  BY <1>3 DEF mboxVars, Promise!fifo, Count, Reserved, Returning, Number, At, Slot
<1>4. QED BY <1>1, <1>2, <1>3 DEF MboxNext

(* For any ring size and any threads, the mailbox is the bounded queue its *)
(* users rely on.                                                          *)
THEOREM MboxImplementsFifo == MboxSpec => ImplementsFifo
<1>1. MboxInit => Armed
  BY DEF MboxInit, Armed, Threads
<1>2. RingIsSound /\ Armed /\ [MboxNext]_mboxVars => (RingIsSound /\ Armed)'
  BY NextInv, ArmedInv
<1>3. QED
  BY <1>1, <1>2, InitInv, InitRefines, StepRefines, PTL DEF MboxSpec, ImplementsFifo, Promise!Spec
=============================================================================
