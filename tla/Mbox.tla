-------------------------------- MODULE Mbox --------------------------------
(***************************************************************************)
(* A mailbox of the FreeRTOS port, arch/FreeRTOS/SYS_ARCH.C: a ring of     *)
(* SYS_MBOX_SIZE pointers guarded by three semaphores.  "mail" counts      *)
(* messages, "space" counts free slots and "mutex" guards the indices.     *)
(*                                                                         *)
(* Each semaphore call is a step of its own, so threads interleave between *)
(* any two of them.  The reads and writes of the ring between taking and   *)
(* giving the mutex are one step: every access to them holds it.           *)
(***************************************************************************)
EXTENDS Integers, FiniteSets

CONSTANTS Posters, Takers,  \* threads calling sys_mbox_post / sys_mbox_fetch(T)
          Messages, None,
          SYS_MBOX_SIZE,
          MaxPosts          \* bound of the model: posts made by each poster

ASSUME MboxAssumption ==
    /\ IsFiniteSet(Posters) /\ IsFiniteSet(Takers) /\ Posters \cap Takers = {}
    /\ None \notin Messages
    /\ SYS_MBOX_SIZE \in Nat \ {0} /\ MaxPosts \in Nat

VARIABLES first, last, msgs,   \* struct sys_mbox: the ring and its two indices
          mail, space, mutex,  \* the counts of its semaphores
          pc,                  \* thread -> its place in post, fetch or fetchT
          msg,                 \* poster -> its argument; taker -> *msg
          posts                \* poster -> calls made

sems == <<mail, space, mutex>>
ring == <<first, last, msgs>>
mboxVars == <<first, last, msgs, mail, space, mutex, pc, msg, posts>>

Threads == Posters \cup Takers
Slots   == 0 .. SYS_MBOX_SIZE - 1
Places  == {"idle", "wait_space", "wait_mail", "wait_mutex", "write", "read",
            "signal_mail", "signal_space", "signal_mutex"}

(* xSemaphoreTake, which blocks at 0, and xSemaphoreGive, which does       *)
(* nothing once the count has reached the maximum.                         *)
sys_sem_wait(sem) == sem > 0 /\ sem' = sem - 1
sys_sem_signal(sem, max) == sem' = IF sem < max THEN sem + 1 ELSE sem

Goto(t, from, to) == pc[t] = from /\ pc' = [pc EXCEPT ![t] = to]

(* Mutant of Advance: an index is wrapped one step too late. *)
AdvanceLate(i) == IF i = SYS_MBOX_SIZE THEN 0 ELSE i + 1

(* An index moves on by one and wraps at the end of the ring. *)
Advance(i) == IF i + 1 = SYS_MBOX_SIZE THEN 0 ELSE i + 1

----------------------------------------------------------------------------
(* sys_mbox_new *)
MboxInit ==
    /\ first = 0 /\ last = 0
    /\ msgs = [i \in Slots |-> None]
    /\ mail = 0 /\ space = SYS_MBOX_SIZE /\ mutex = 1
    /\ pc = [t \in Threads |-> "idle"]
    /\ msg = [t \in Threads |-> None]
    /\ posts = [p \in Posters |-> 0]

(* sys_mbox_post, one step per semaphore call. *)
PostCall(p, m) ==
    /\ posts[p] < MaxPosts
    /\ Goto(p, "idle", "wait_space")
    /\ msg' = [msg EXCEPT ![p] = m]
    /\ posts' = [posts EXCEPT ![p] = @ + 1]
    /\ UNCHANGED <<ring, sems>>

(* Mutant of PostWaitSpace: the post does not wait for room. *)
PostNoWaitSpace(p) ==
    /\ Goto(p, "wait_space", "wait_mutex")
    /\ UNCHANGED <<ring, sems, msg, posts>>

PostWaitSpace(p) ==
    /\ Goto(p, "wait_space", "wait_mutex")
    /\ sys_sem_wait(space)
    /\ UNCHANGED <<ring, mail, mutex, msg, posts>>

PostWaitMutex(p) ==
    /\ Goto(p, "wait_mutex", "write")
    /\ sys_sem_wait(mutex)
    /\ UNCHANGED <<ring, mail, space, msg, posts>>

PostWrite(p) ==
    /\ Goto(p, "write", "signal_mail")
    /\ msgs' = [msgs EXCEPT ![last] = msg[p]]
    /\ last' = Advance(last)
    /\ UNCHANGED <<first, sems, msg, posts>>

(* Mutant of PostSignalMail: the waiting taker is not told. *)
PostNoSignalMail(p) ==
    /\ Goto(p, "signal_mail", "signal_mutex")
    /\ UNCHANGED <<ring, sems, msg, posts>>

PostSignalMail(p) ==
    /\ Goto(p, "signal_mail", "signal_mutex")
    /\ sys_sem_signal(mail, SYS_MBOX_SIZE)
    /\ UNCHANGED <<ring, space, mutex, msg, posts>>

(* The last step of post and of get. *)
SignalMutex(t) ==
    /\ Goto(t, "signal_mutex", "idle")
    /\ sys_sem_signal(mutex, 1)
    /\ UNCHANGED <<ring, mail, space, msg, posts>>

(* sys_mbox_fetch and sys_mbox_fetchT wait for mail, then call             *)
(* sys_mbox_get.  fetchT may give up while the count is 0.                 *)
FetchCall(t) ==
    /\ Goto(t, "idle", "wait_mail")
    /\ UNCHANGED <<ring, sems, msg, posts>>

FetchTimeout(t) ==
    /\ Goto(t, "wait_mail", "idle")
    /\ mail = 0
    /\ UNCHANGED <<ring, sems, msg, posts>>

(* Mutant of FetchWaitMail: a timeout is taken for a message. *)
FetchIgnoreTimeout(t) ==
    /\ Goto(t, "wait_mail", "wait_mutex")
    /\ mail' = IF mail > 0 THEN mail - 1 ELSE mail
    /\ UNCHANGED <<ring, space, mutex, msg, posts>>

FetchWaitMail(t) ==
    /\ Goto(t, "wait_mail", "wait_mutex")
    /\ sys_sem_wait(mail)
    /\ UNCHANGED <<ring, space, mutex, msg, posts>>

(* sys_mbox_get *)
GetWaitMutex(t) ==
    /\ Goto(t, "wait_mutex", "read")
    /\ sys_sem_wait(mutex)
    /\ UNCHANGED <<ring, mail, space, msg, posts>>

GetRead(t) ==
    /\ Goto(t, "read", "signal_space")
    /\ msg' = [msg EXCEPT ![t] = msgs[first]]
    /\ first' = Advance(first)
    /\ UNCHANGED <<last, msgs, sems, posts>>

(* Mutant of GetSignalSpace: the slot is not given back. *)
GetNoSignalSpace(t) ==
    /\ Goto(t, "signal_space", "signal_mutex")
    /\ UNCHANGED <<ring, sems, msg, posts>>

GetSignalSpace(t) ==
    /\ Goto(t, "signal_space", "signal_mutex")
    /\ sys_sem_signal(space, SYS_MBOX_SIZE)
    /\ UNCHANGED <<ring, mail, mutex, msg, posts>>

post(p) ==
    \/ \E m \in Messages : PostCall(p, m)
    \/ PostWaitSpace(p) \/ PostWaitMutex(p) \/ PostWrite(p)
    \/ PostSignalMail(p) \/ SignalMutex(p)

fetch(t) ==
    \/ FetchCall(t) \/ FetchTimeout(t) \/ FetchWaitMail(t)
    \/ GetWaitMutex(t) \/ GetRead(t) \/ GetSignalSpace(t) \/ SignalMutex(t)

MboxNext == (\E p \in Posters : post(p)) \/ (\E t \in Takers : fetch(t))

MboxSpec == MboxInit /\ [][MboxNext]_mboxVars

(* A FreeRTOS task that can run does run, and takers come back for more.   *)
(* Which of several waiters a semaphore wakes depends on priorities, so    *)
(* nothing stronger than weak fairness of each thread is assumed.          *)
FairMbox ==
    /\ \A p \in Posters : WF_mboxVars(post(p))
    /\ \A t \in Takers : WF_mboxVars(fetch(t))

----------------------------------------------------------------------------
At(S, places) == {t \in S : pc[t] \in places}
Number(S, places) == Cardinality(At(S, places))

(* Slots taken from "space" but not yet written, and the converse. *)
Reserved  == Number(Posters, {"wait_mutex", "write"})
Returning == Number(Takers, {"signal_space"})
(* Messages a taker has a claim on but has not read, and messages written  *)
(* but not announced. *)
Claimed   == Number(Takers, {"wait_mutex", "read"})
Unsaid    == Number(Posters, {"signal_mail"})
(* Threads between taking and giving the mutex. *)
Holding   == Number(Threads, {"write", "read", "signal_mail", "signal_space",
                              "signal_mutex"})

(* How many messages the ring holds: the indices alone cannot tell a full  *)
(* ring from an empty one.                                                 *)
Count == SYS_MBOX_SIZE - space - Reserved - Returning

MboxTypeOK ==
    /\ first \in Slots /\ last \in Slots
    /\ msgs \in [Slots -> Messages \cup {None}]
    /\ mail \in 0 .. SYS_MBOX_SIZE /\ space \in 0 .. SYS_MBOX_SIZE
    /\ mutex \in 0 .. 1
    /\ pc \in [Threads -> Places]
    /\ msg \in [Threads -> Messages \cup {None}]
    /\ posts \in [Posters -> 0 .. MaxPosts]

(* The two counting semaphores agree with the indices and with each other  *)
(* at every step of every thread, so that neither a write over an unread   *)
(* message nor a read of an empty slot can happen; and one thread at most  *)
(* is at the indices.                                                      *)
RingAgrees ==
    /\ Count \in 0 .. SYS_MBOX_SIZE
    /\ Count = mail + Claimed + Unsaid
    /\ \/ last = first + Count
       \/ last = first + Count - SYS_MBOX_SIZE
    /\ mutex + Holding = 1

(* The invariant of the mailbox. *)
RingIsSound == MboxTypeOK /\ RingAgrees

(* The slot of the i-th oldest message. *)
Slot(i) == IF first + i - 1 < SYS_MBOX_SIZE THEN first + i - 1
           ELSE first + i - 1 - SYS_MBOX_SIZE

(* The mailbox is the bounded queue its users rely on: at the step that    *)
(* writes the ring, resp. reads it, a message changes hands, and any other *)
(* step is invisible.                                                      *)
Promise == INSTANCE Fifo WITH
    Capacity <- SYS_MBOX_SIZE,
    queue    <- [i \in 1 .. Count |-> msgs[Slot(i)]],
    sending  <- [p \in Posters |->
                   IF pc[p] \in {"wait_space", "wait_mutex", "write"}
                   THEN msg[p] ELSE None],
    received <- [t \in Takers |-> msg[t]]

ImplementsFifo == Promise!Spec

(* No wakeup is lost: as long as takers keep fetching, every post returns  *)
(* and every message gets out of the mailbox.                              *)
EverythingDelivered ==
    <>[](Count = 0 /\ \A p \in Posters : pc[p] = "idle")
=============================================================================
