------------------------------ MODULE Timeouts ------------------------------
(***************************************************************************)
(* The timeouts of core/sys.c: a list in which each entry holds the time   *)
(* it has to wait after the one before it, the pool its entries come from, *)
(* and the callback the tcpip thread makes each time round its loop.       *)
(*                                                                         *)
(* "past" is the time since that last callback, now - lasttime.  "left",   *)
(* of every entry, is not the program's: it is what really remains of the  *)
(* time asked for.                                                         *)
(***************************************************************************)
EXTENDS Integers, Sequences, FiniteSets, SequencesExt, FiniteSetsExt

CONSTANTS Handlers,    \* what is called, with its argument
          Again,       \* those that set themselves again, and after how long
          Delays,      \* the times asked for
          MEMP_NUM_SYS_TIMEOUT,
          Gap,         \* the longest time between two callbacks
          MaxLate      \* bound: a timeout later than this is as late as this

ASSUME TimeoutsAssumption ==
    /\ Delays \subseteq Nat /\ MEMP_NUM_SYS_TIMEOUT \in Nat
    /\ Gap \in Nat \ {0} /\ MaxLate \in Nat
    /\ DOMAIN Again \subseteq Handlers
    /\ \A h \in DOMAIN Again : Again[h] \in Nat \ {0}

VARIABLES timeouts,    \* timeouts.next and on: [h, time, left]
          free,        \* how many blocks are left in the pool
          past

timeoutsVars == <<timeouts, free, past>>

TimeoutsInit == /\ timeouts = <<>>
                /\ free = MEMP_NUM_SYS_TIMEOUT
                /\ past \in 0 .. Gap

----------------------------------------------------------------------------
(* The list and the pool together are what the calls below work on. *)
Timers == [list |-> timeouts, free |-> free]
TimersBecome(st) == timeouts' = st.list /\ free' = st.free

(* What entry i of a list has to wait from the last callback on. *)
Wait(l, i) == LET sum[j \in 0 .. Len(l)] == IF j = 0 THEN 0 ELSE sum[j - 1] + l[j].time IN sum[i]

(* Where a new entry goes: behind all that wait no longer than it does. *)
Place(l, msecs) == 1 + Cardinality({i \in DOMAIN l : Wait(l, i) <= msecs})

Reduced(l, i, by) == [j \in DOMAIN l |-> IF j = i THEN [l[j] EXCEPT !.time = @ - by] ELSE l[j]]

(* A mutant: the next entry keeps its time. *)
InsertKept(l, entry) ==
    LET i == Place(l, entry.time)
        before == Wait(l, i - 1)
    IN  InsertAt(l, i, [entry EXCEPT !.time = @ - before])

Insert(l, entry) ==
    LET i == Place(l, entry.time)
        before == Wait(l, i - 1)
    IN  InsertAt(Reduced(l, i, entry.time - before), i, [entry EXCEPT !.time = @ - before])

(* sys_timeout: without a free block there is no timeout, and no error. *)
Timeout(st, h, msecs) ==
    IF st.free = 0 THEN st
    ELSE [list |-> Insert(st.list, [h |-> h, time |-> msecs, left |-> msecs]),
          free |-> st.free - 1]

(* A mutant: the block is not freed. *)
UntimeoutUnfreed(st, h) ==
    LET of == {i \in DOMAIN st.list : st.list[i].h = h}
        i  == Min(of)
    IN  IF of = {} THEN st
        ELSE [list |-> RemoveAt(Reduced(st.list, i + 1, -st.list[i].time), i), free |-> st.free]

(* sys_untimeout: the first entry of the handler, if any. *)
Untimeout(st, h) ==
    LET of == {i \in DOMAIN st.list : st.list[i].h = h}
        i  == Min(of)
    IN  IF of = {} THEN st
        ELSE [list |-> RemoveAt(Reduced(st.list, i + 1, -st.list[i].time), i),
              free |-> st.free + 1]

(* What the handler does: it is off the list, but its block is still taken. *)
Handle(st, h) == IF h \in DOMAIN Again THEN Timeout(st, h, Again[h]) ELSE st

----------------------------------------------------------------------------
sys_timeout(h, msecs) == TimersBecome(Timeout(Timers, h, msecs)) /\ UNCHANGED past

sys_untimeout(h) == TimersBecome(Untimeout(Timers, h)) /\ UNCHANGED past

(* The macro of netif/ppp/ppp.h. *)
TIMEOUT(h, msecs) == TimersBecome(Timeout(Untimeout(Timers, h), h, msecs)) /\ UNCHANGED past

sys_timeout_clear ==
    /\ TimersBecome([list |-> <<>>, free |-> free + Len(timeouts)])
    /\ UNCHANGED past

(* A mutant: lasttime is only set when nothing is due. *)
CallbackTwice ==
    IF timeouts = <<>> THEN past' = 0 /\ UNCHANGED <<timeouts, free>>
    ELSE LET to == Head(timeouts)
             st == Handle([list |-> Tail(timeouts), free |-> free], to.h)
         IN  IF to.time > past
             THEN past' = 0 /\ TimersBecome([list |-> Reduced(timeouts, 1, past), free |-> free])
             ELSE past' = past /\ TimersBecome([st EXCEPT !.free = @ + 1])

(* A mutant: the head waits on as if no time had passed. *)
CallbackForgetful ==
    /\ past' = 0
    /\ IF timeouts = <<>> \/ Head(timeouts).time > past THEN UNCHANGED <<timeouts, free>>
       ELSE LET st == Handle([list |-> Tail(timeouts), free |-> free], Head(timeouts).h)
            IN  TimersBecome([st EXCEPT !.free = @ + 1])

(* The head waits on, or it is handled; of what is due behind it nothing   *)
(* is, before the next callback. *)
sys_timeout_callback ==
    /\ past' = 0
    /\ IF timeouts = <<>> THEN UNCHANGED <<timeouts, free>>
       ELSE LET to == Head(timeouts)
                st == Handle([list |-> Tail(timeouts), free |-> free], to.h)
            IN  IF to.time > past
                THEN TimersBecome([list |-> Reduced(timeouts, 1, past), free |-> free])
                ELSE TimersBecome([st EXCEPT !.free = @ + 1])

Tick ==
    /\ past < Gap
    /\ past' = past + 1
    /\ timeouts' = [i \in DOMAIN timeouts |->
                    [timeouts[i] EXCEPT !.left = IF @ = -MaxLate THEN @ ELSE @ - 1]]
    /\ UNCHANGED free

Calls == \/ \E h \in Handlers, msecs \in Delays :
               sys_timeout(h, msecs) \/ TIMEOUT(h, msecs)
         \/ \E h \in Handlers : sys_untimeout(h)
         \/ sys_timeout_clear

TimeoutsNext == Calls \/ sys_timeout_callback \/ Tick

(* Time passes, and the tcpip thread goes round its loop. *)
FairTimeouts == WF_timeoutsVars(Tick) /\ WF_timeoutsVars(sys_timeout_callback)

----------------------------------------------------------------------------
(* Each block is free or on the list, and no time has gone below zero,     *)
(* which the u32_t of the code would take for 49 days. *)
TimeoutsTypeOK ==
    /\ past \in 0 .. Gap
    /\ \A i \in DOMAIN timeouts : /\ timeouts[i].h \in Handlers
                                  /\ timeouts[i].time \in Nat /\ timeouts[i].left \in Int
    /\ free \in Nat /\ free + Len(timeouts) = MEMP_NUM_SYS_TIMEOUT

(* What entry i still has to wait, for the list. *)
Remaining(i) == Wait(timeouts, i) - past

(* No timeout comes more than one round of the loop early, whatever is set *)
(* and taken back in front of it. *)
EarlyByAGapAtMost == \A i \in DOMAIN timeouts : Remaining(i) >= timeouts[i].left - Gap

(* Both: no block is lost and no time runs out too soon. *)
TimersAreSound == TimeoutsTypeOK /\ EarlyByAGapAtMost

(* Every entry with what it waits altogether. *)
Due(l) == [i \in DOMAIN l |-> [h |-> l[i].h, left |-> l[i].left, wait |-> Wait(l, i)]]

(* Setting a timeout and taking one back leave all others where they were: *)
(* with one exception, every entry was there before and is due as before. *)
OthersKeepTheirTime ==
    [][Calls => \E new \in 0 .. Len(timeouts') : \A j \in DOMAIN timeouts' \ {new} :
           \E i \in DOMAIN timeouts : Due(timeouts')[j] = Due(timeouts)[i]]_timeoutsVars

Handles(h) == /\ timeouts # <<>> /\ Head(timeouts).h = h /\ Head(timeouts).time <= past
              /\ sys_timeout_callback
TakesBack(h) == \/ sys_untimeout(h) \/ sys_timeout_clear
                \/ \E msecs \in Delays : TIMEOUT(h, msecs)

(* A timeout that stands is handled or taken back in the end: those that   *)
(* set themselves again and again do not hold it up. *)
AllAreHandled ==
    \A h \in Handlers : \/ []<>(\A e \in ToSet(timeouts) : e.h # h)
                        \/ []<><<Handles(h) \/ TakesBack(h)>>_timeoutsVars
=============================================================================
