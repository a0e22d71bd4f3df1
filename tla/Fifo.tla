-------------------------------- MODULE Fifo --------------------------------
(***************************************************************************)
(* What a mailbox promises its users (api_lib.c, api_msg.c, tcpip.c,       *)
(* ctrl.c): a bounded queue.  A post hands its message over at one point,  *)
(* a fetch receives the oldest message at one point, and a message is      *)
(* received exactly once.  No semaphore, ring index or lock appears here.  *)
(***************************************************************************)
EXTENDS Naturals, Sequences

CONSTANTS Posters, Takers, Messages, Capacity,
          None        \* no message: a thread with nothing to send or received

VARIABLES queue,      \* the messages handed over and not yet received
          sending,    \* poster -> the message it is trying to hand over
          received    \* taker  -> what its last fetch returned

fifo == <<queue, sending, received>>

Init ==
    /\ queue = <<>>
    /\ sending = [p \in Posters |-> None]
    /\ received = [t \in Takers |-> None]

StartPost(p, m) ==
    /\ sending[p] = None
    /\ sending' = [sending EXCEPT ![p] = m]
    /\ UNCHANGED <<queue, received>>

HandOver(p) ==
    /\ sending[p] # None /\ Len(queue) < Capacity
    /\ queue' = Append(queue, sending[p])
    /\ sending' = [sending EXCEPT ![p] = None]
    /\ UNCHANGED received

Receive(t) ==
    /\ queue # <<>>
    /\ received' = [received EXCEPT ![t] = Head(queue)]
    /\ queue' = Tail(queue)
    /\ UNCHANGED sending

Next ==
    \/ \E p \in Posters : HandOver(p) \/ \E m \in Messages : StartPost(p, m)
    \/ \E t \in Takers : Receive(t)

Spec == Init /\ [][Next]_fifo
=============================================================================
