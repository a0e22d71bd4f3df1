------------------------------ MODULE SemPool ------------------------------
(***************************************************************************)
(* The semaphores of the FreeRTOS port, arch/FreeRTOS/SYS_ARCH.C: they are *)
(* never deleted but stay on a list (g_pTSemHead) and are handed out       *)
(* again.  Mailboxes and plain semaphores draw on the same list.           *)
(*                                                                         *)
(* sys_sem_new_m and sys_sem_free are critical sections, hence one step    *)
(* each; sys_mbox_new and sys_mbox_free make three such calls, and other   *)
(* threads run in between.                                                 *)
(***************************************************************************)
EXTENDS Naturals, Sequences, FiniteSets

CONSTANTS Mailboxes,      \* objects made by sys_mbox_new
          Signals,        \* semaphores made by sys_sem_new(0)
          SYS_MBOX_SIZE

ASSUME SemPoolAssumption ==
    /\ Mailboxes \cap Signals = {}
    /\ SYS_MBOX_SIZE \in Nat \ {0}

VARIABLES items,   \* the items in list order: [count, length, fUsed]
          sems,   \* object -> positions of its semaphores, in the order made
          phase,  \* object -> its life
          peak    \* history: the most items in use at once

semPoolVars == <<items, sems, phase, peak>>

Objects == Mailboxes \cup Signals

Ask(c, m) == [count |-> c, length |-> m]

(* The semaphores an object asks for; those of a mailbox are mail, space   *)
(* and mutex. *)
Asks(o) ==
    CASE o \in Mailboxes -> << Ask(0, SYS_MBOX_SIZE),
                               Ask(SYS_MBOX_SIZE, SYS_MBOX_SIZE), Ask(1, 1) >>
      [] o \in Signals   -> << Ask(0, 1) >>

Item(ask) == [count |-> ask.count, length |-> ask.length, fUsed |-> TRUE]
UsedIn(l) == {i \in DOMAIN l : l[i].fUsed}

----------------------------------------------------------------------------
(* mem_init makes the lock of the heap before a second thread exists.  It  *)
(* is never freed, like every semaphore made by sys_sem_new(1), so the     *)
(* list is not empty when the other calls come.                            *)
SemPoolInit ==
    /\ items = << Item(Ask(1, 1)) >>
    /\ sems = [o \in Objects |-> <<>>]
    /\ phase = [o \in Objects |-> "absent"]
    /\ peak = 1

(* Mutant of TakeUnused: the item is not marked as used. *)
TakeUnmarked(l, i, ask) ==
    [l EXCEPT ![i] = IF l[i].length = ask.length
                     THEN [Item(ask) EXCEPT !.fUsed = FALSE] ELSE @]

(* An unused item is handed out whatever its length; only one of the       *)
(* length asked for is initialised again. *)
TakeUnused(l, i, ask) ==
    [l EXCEPT ![i] = IF l[i].length = ask.length
                     THEN Item(ask) ELSE [@ EXCEPT !.fUsed = TRUE]]

(* Mutant of FirstUnused: the search stops before the last item. *)
FirstButLast(l, i) ==
    /\ i \in 1 .. Len(l) - 1 /\ ~l[i].fUsed
    /\ \A j \in 1 .. i - 1 : l[j].fUsed

FirstUnused(l, i) ==
    /\ i \in DOMAIN l /\ ~l[i].fUsed
    /\ \A j \in 1 .. i - 1 : l[j].fUsed

(* sys_sem_new_m: the first unused item, or a new one at the end. *)
sys_sem_new_m(o, ask) ==
    /\ \/ \E i \in DOMAIN items :
             /\ FirstUnused(items, i)
             /\ items' = TakeUnused(items, i, ask)
             /\ sems' = [sems EXCEPT ![o] = Append(@, i)]
       \/ /\ ~ \E i \in DOMAIN items : FirstUnused(items, i)
          /\ items' = Append(items, Item(ask))
          /\ sems' = [sems EXCEPT ![o] = Append(@, Len(items) + 1)]
    /\ peak' = IF Cardinality(UsedIn(items')) > peak
               THEN Cardinality(UsedIn(items')) ELSE peak

(* Each call of sys_mbox_new, or the one of sys_sem_new. *)
Make(o) ==
    /\ phase[o] \in {"absent", "making"}
    /\ LET k == Len(sems[o]) + 1 IN
       /\ sys_sem_new_m(o, Asks(o)[k])
       /\ phase' = [phase EXCEPT ![o] = IF k = Len(Asks(o)) THEN "live"
                                        ELSE "making"]

(* Waits and signals on a live object leave its semaphores anywhere within *)
(* their lengths. *)
Use(o) ==
    /\ phase[o] = "live"
    /\ \E k \in DOMAIN sems[o] :
         LET i == sems[o][k] IN
         \E c \in 0 .. items[i].length : items' = [items EXCEPT ![i].count = c]
    /\ UNCHANGED <<sems, phase, peak>>

(* sys_mbox_free begins by taking the mutex; sys_sem_free of a plain       *)
(* semaphore begins at once. *)
StartFree(o) ==
    /\ phase[o] = "live"
    /\ IF o \in Mailboxes
       THEN LET mutex == sems[o][3] IN
            items[mutex].count > 0 /\ items' = [items EXCEPT ![mutex].count = @ - 1]
       ELSE items' = items
    /\ phase' = [phase EXCEPT ![o] = "freeing"]
    /\ UNCHANGED <<sems, peak>>

(* sys_sem_free: the item stays on the list. *)
sys_sem_free(o) ==
    /\ phase[o] = "freeing"
    /\ items' = [items EXCEPT ![Head(sems[o])].fUsed = FALSE]
    /\ sems' = [sems EXCEPT ![o] = Tail(@)]
    /\ phase' = [phase EXCEPT ![o] = IF Len(sems[o]) = 1 THEN "absent" ELSE @]
    /\ UNCHANGED peak

SemPoolNext == \E o \in Objects : Make(o) \/ Use(o) \/ StartFree(o) \/ sys_sem_free(o)

SemPoolSpec == SemPoolInit /\ [][SemPoolNext]_semPoolVars

----------------------------------------------------------------------------
Holders(i) == {h \in Objects \X (1 .. 3) :
                  h[2] \in DOMAIN sems[h[1]] /\ sems[h[1]][h[2]] = i}

(* A semaphore has one owner: an item in use belongs to exactly one        *)
(* semaphore of one mailbox or thread and an unused one to none, also      *)
(* between the three calls of sys_mbox_new and sys_mbox_free.              *)
OneOwner ==
    \A i \in DOMAIN items \ {1} :
        Cardinality(Holders(i)) = IF items[i].fUsed THEN 1 ELSE 0

(* The list exists to bound the port's use of the kernel's heap: it never  *)
(* holds more semaphores than were in use at one moment.                   *)
NoMoreThanPeak == Len(items) <= peak

(* Both: the items have one owner each, and there are no more of them than *)
(* are needed. *)
PoolIsSound == OneOwner /\ NoMoreThanPeak
=============================================================================
