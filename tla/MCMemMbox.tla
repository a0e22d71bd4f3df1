------------------------------ MODULE MCMemMbox -----------------------------
(* The heap and a mailbox, each in the behaviours that begin with it.      *)
(*                                                                         *)
(* A heap of 72 bytes with the real header (8), alignment (4) and MIN_SIZE *)
(* (12): room for up to four blocks, for a shrink that splits and for one  *)
(* that does not, and for a request that must be rounded up.               *)
(*                                                                         *)
(* Two posters and two takers around a ring of two slots: the ring wraps,  *)
(* fills up and runs empty, and threads of both kinds meet on every        *)
(* semaphore.                                                              *)
EXTENDS Mem, Mbox

MCRequests == {0, 1, 8, 28, 44}

VARIABLE part

memMboxVars == <<part, vars, mboxVars>>

(* The part that is not looked at rests. *)
MemMboxInit == part \in {"mem", "mbox"} /\ Init /\ MboxInit

MemMboxNext ==
    /\ UNCHANGED part
    /\ \/ part = "mem" /\ Next /\ UNCHANGED mboxVars
       \/ part = "mbox" /\ MboxNext /\ UNCHANGED vars

MemMboxSpec == /\ MemMboxInit /\ [][MemMboxNext]_memMboxVars
               /\ part = "mbox" => FairMbox
=============================================================================
