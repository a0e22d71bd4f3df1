------------------------------- MODULE MCSys -------------------------------
(* Four parts of the system that do not meet, each in the behaviours that  *)
(* begin with it: the semaphore pool, the timeouts, the Ethernet driver    *)
(* and the interfaces.                                                     *)
EXTENDS SemPool, Timeouts, Mac, Netif, TLC

CONSTANTS arp, lcp

(* The timer of ARP sets itself again, those of PPP do not. *)
OnlyArp == arp :> 2

(* Most know all modes; one is of old; with one the code's order differs. *)
MCPartners == {ToSet(PhyOrder), {"10FD", "10HD"}, {"100HD", "10FD"}}

VARIABLE part

sysVars == <<part, semPoolVars, timeoutsVars, macVars, netifVars>>

(* A part that is not looked at rests. *)
SemPoolRests == items = <<>> /\ peak = 0
                /\ sems = [o \in Objects |-> <<>>] /\ phase = [o \in Objects |-> "absent"]
TimeoutsRest == timeouts = <<>> /\ free = MEMP_NUM_SYS_TIMEOUT /\ past = 0
MacRests == MacInit /\ cable = NoCable /\ phy.at = "nowhere"
NetifRests == NetifInit /\ fEnDHCP

Init == \/ part = "sems" /\ SemPoolInit /\ TimeoutsRest /\ MacRests /\ NetifRests
        \/ part = "timers" /\ SemPoolRests /\ TimeoutsInit /\ MacRests /\ NetifRests
        \/ part = "mac" /\ SemPoolRests /\ TimeoutsRest /\ MacInit /\ NetifRests
        \/ part = "netif" /\ SemPoolRests /\ TimeoutsRest /\ MacRests /\ NetifInit

Next == /\ UNCHANGED part
        /\ \/ part = "sems" /\ SemPoolNext /\ UNCHANGED <<timeoutsVars, macVars, netifVars>>
           \/ part = "timers" /\ TimeoutsNext /\ UNCHANGED <<semPoolVars, macVars, netifVars>>
           \/ part = "mac" /\ MacNext /\ UNCHANGED <<semPoolVars, timeoutsVars, netifVars>>
           \/ part = "netif" /\ NetifNext /\ UNCHANGED <<semPoolVars, timeoutsVars, macVars>>

Spec == /\ Init /\ [][Next]_sysVars
        /\ part = "timers" => FairTimeouts
        /\ part = "mac" => FairMac

(* What is due in the end: timeouts are handled, and the Ethernet settles. *)
AllIsServed == AllAreHandled /\ InterfaceSettles
=============================================================================
