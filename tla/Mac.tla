-------------------------------- MODULE Mac --------------------------------
(***************************************************************************)
(* The Ethernet driver's task, vMACTask of arch/FreeRTOS/ethernetif.c, and *)
(* the PHY it minds through phy/ethernet_phy.c: it waits a second for a    *)
(* frame, and when none comes it looks at the link; it makes the two ends  *)
(* agree on a mode, and resets all when it is told to.                     *)
(*                                                                         *)
(* The interface is given up and down by the driver here (no DHCP; the     *)
(* other case is Lan's).  The EMAC driver library and the PHY are not in   *)
(* the repository: the first stores frames and calls back for each, the    *)
(* second is as IEEE 802.3 has it, with a link bit that stays low until it *)
(* is read.                                                                *)
(***************************************************************************)
EXTENDS Naturals, Sequences, FiniteSets, SequencesExt

CONSTANTS Partners,         \* what may be at the other end: the modes it knows
          EMAC_RX_BUFFERS,  \* frames the driver library keeps
          SemMax            \* the most xMACInterruptSemaphore counts to

(* The modes in the order in which the code, and 802.3, prefer them. *)
CodeOrder == <<"100FD", "10FD", "100HD", "10HD">>
PhyOrder == <<"100FD", "100HD", "10FD", "10HD">>
NoCable == {}

ASSUME MacAssumption ==
    /\ Partners \subseteq (SUBSET ToSet(PhyOrder)) \ {NoCable}
    /\ EMAC_RX_BUFFERS \in Nat \ {0} /\ SemMax \in Nat \ {0}

VARIABLES
    cable,     \* the other end
    phy,       \* [at, fresh, link, dropped, done, autoneg, isolated, mode]
    mac,       \* the mode the EMAC is set to, or "off" before the first
    ring,      \* frames to be read; TRUE if one was called back for
    callback,  \* EmacRxCb is set
    sem,       \* xMACInterruptSemaphore
    task,      \* "none", "waits", "reads", "negotiates"
    left,      \* how many more frames it reads before it waits again
    fLinkUp, flags,
    sending,   \* the tcpip thread is in prvLowLevelOutput, with xEmacSendSem
    reset      \* INFO_MAC_RST

macVars == <<cable, phy, mac, ring, callback, sem, task, left, fLinkUp, flags, sending, reset>>
Hardware == <<cable, mac, ring, callback, sem>>
Software == <<fLinkUp, flags, sending, reset>>

(* The first mode of an order that both ends know; at 10 half duplex when  *)
(* there is none. *)
Best(order, modes) ==
    LET common == {i \in DOMAIN order : order[i] \in modes}
    IN  IF common = {} THEN "10HD" ELSE order[CHOOSE i \in common : \A j \in common : i <= j]

(* A PHY after its reset: it has still to find the other end, which takes  *)
(* it longer than the second after which the task looks at it. *)
PhyReset(p) == [p EXCEPT !.fresh = TRUE, !.link = FALSE, !.dropped = TRUE, !.done = FALSE,
                         !.autoneg = TRUE, !.isolated = FALSE]

(* A PHY that answers at another address than the board's is found too. *)
ethernet_phy_find_valid(answers) == IF answers THEN phy.at ELSE "nowhere"

(* What is reset then is at the board's address: nothing. *)
ethernet_phy_init(answers) == ethernet_phy_find_valid(answers) # "nowhere"

BroadcastEtharpLink == {"BROADCAST", "ETHARP", "LINK_UP"}

(* prvLowLevelInit, which tries ethernet_phy_init twice; without a PHY     *)
(* there is no task, and only the flag of the link stays. *)
MacInit ==
    /\ cable \in Partners \cup {NoCable}
    /\ \E at \in {"board", "elsewhere", "nowhere"} :
         phy = [at |-> at, fresh |-> TRUE, link |-> FALSE, dropped |-> TRUE, done |-> FALSE,
                autoneg |-> TRUE, isolated |-> FALSE, mode |-> "10HD"]
    /\ \E first, second \in BOOLEAN :
         LET ok == ethernet_phy_init(first) \/ ethernet_phy_init(second) IN
         /\ task = IF ok THEN "waits" ELSE "none"
         /\ flags = BroadcastEtharpLink \cap (IF ok THEN BroadcastEtharpLink ELSE {"LINK_UP"})
    /\ mac = "off" /\ ring = <<>> /\ callback = FALSE
    /\ sem = 0 /\ left = 0 /\ fLinkUp = FALSE /\ sending = FALSE /\ reset = FALSE

----------------------------------------------------------------------------
(* The world. *)

Plug(modes) ==
    /\ cable = NoCable /\ cable' = modes
    /\ UNCHANGED <<phy, mac, ring, callback, sem, task, left>> /\ UNCHANGED Software

Unplug ==
    /\ cable # NoCable /\ cable' = NoCable
    /\ phy' = [phy EXCEPT !.link = FALSE, !.dropped = TRUE, !.done = FALSE]
    /\ UNCHANGED <<mac, ring, callback, sem, task, left>> /\ UNCHANGED Software

(* The PHY finds the other end; told not to negotiate it takes a mode. *)
PhyLinks ==
    /\ cable # NoCable /\ ~phy.link /\ ~phy.fresh
    /\ phy' = [phy EXCEPT !.link = TRUE, !.done = phy.autoneg,
                          !.mode = IF phy.autoneg THEN Best(PhyOrder, cable) ELSE "10HD"]
    /\ UNCHANGED <<task, left>> /\ UNCHANGED Hardware /\ UNCHANGED Software

(* A frame comes through: the driver library keeps it, if there is room,   *)
(* and calls EmacRxCb, if that is set. *)
FrameArrives ==
    /\ phy.link /\ ~phy.isolated /\ mac = phy.mode /\ Len(ring) < EMAC_RX_BUFFERS
    /\ ring' = Append(ring, callback)
    /\ sem' = IF callback /\ sem < SemMax THEN sem + 1 ELSE sem
    /\ UNCHANGED <<cable, phy, mac, callback, task, left>> /\ UNCHANGED Software

AsksReset ==
    /\ ~reset /\ reset' = TRUE
    /\ UNCHANGED <<phy, task, left, fLinkUp, flags, sending>> /\ UNCHANGED Hardware

(* prvLowLevelOutput, from xSemaphoreTake to xSemaphoreGive: the attempts  *)
(* are Lan's. *)
Sends(begins) ==
    /\ sending = ~begins /\ sending' = begins
    /\ UNCHANGED <<phy, task, left, fLinkUp, flags, reset>> /\ UNCHANGED Hardware

----------------------------------------------------------------------------
(* The task. *)

(* Mutant of ReInitMac: the PHY is not reset, and its link does not drop. *)
ReInitQuietly(found) ==
    /\ flags' = IF found THEN BroadcastEtharpLink ELSE {"LINK_UP"}
    /\ ring' = <<>> /\ phy' = phy

(* ReInitMac, which two attempts at the PHY may leave unfinished: fLinkUp  *)
(* and the callback stay as they were. *)
ReInitMac(found) ==
    /\ flags' = IF found THEN BroadcastEtharpLink ELSE {"LINK_UP"}
    /\ ring' = <<>> /\ phy' = PhyReset(phy)

Resets ==
    /\ task = "waits" /\ reset /\ ~sending
    /\ reset' = FALSE
    /\ \E first, second \in BOOLEAN : ReInitMac(ethernet_phy_init(first) \/ ethernet_phy_init(second))
    /\ UNCHANGED <<cable, mac, callback, sem, task, left, fLinkUp, sending>>

(* ... which leaves all as it is while the power is off. *)
SkipsReset ==
    /\ task = "waits" /\ reset /\ reset' = FALSE
    /\ UNCHANGED <<phy, task, left, fLinkUp, flags, sending>> /\ UNCHANGED Hardware

(* xSemaphoreTake: something has come. *)
Takes ==
    /\ task = "waits" /\ ~reset /\ sem > 0
    /\ sem' = sem - 1 /\ task' = "reads" /\ left' = EMAC_RX_BUFFERS
    /\ UNCHANGED <<cable, phy, mac, ring, callback>> /\ UNCHANGED Software

(* Mutant of Reads: the last buffer is not looked at. *)
ReadsButOne ==
    /\ task = "reads"
    /\ IF left < 2 \/ ring = <<>> THEN task' = "waits" /\ left' = 0 /\ UNCHANGED ring
       ELSE ring' = Tail(ring) /\ left' = left - 1 /\ UNCHANGED task
    /\ UNCHANGED <<cable, phy, mac, callback, sem>> /\ UNCHANGED Software

(* emac_dev_read, as often as there are buffers or until there is nothing; *)
(* the frame goes to ethernet_input, or is dropped without a pbuf. *)
Reads ==
    /\ task = "reads"
    /\ IF left = 0 \/ ring = <<>> THEN task' = "waits" /\ left' = 0 /\ UNCHANGED ring
       ELSE ring' = Tail(ring) /\ left' = left - 1 /\ UNCHANGED task
    /\ UNCHANGED <<cable, phy, mac, callback, sem>> /\ UNCHANGED Software

(* Reading the status: at an address where there is nothing all bits are   *)
(* set.  The bit of the link tells of a loss since it was last read. *)
Here == phy.at = "board"
LinkBit == Here => phy.link /\ ~phy.dropped
StatusRead == [phy EXCEPT !.fresh = FALSE, !.dropped = ~phy.link]

(* A second has passed without a frame: ethernet_phy_set_link reads the    *)
(* status.  When that times out nothing changes; here the link is there,   *)
(* and was. *)
SeesSame ==
    /\ task = "waits" /\ ~reset /\ sem = 0 /\ LinkBit /\ fLinkUp
    /\ phy' = StatusRead
    /\ UNCHANGED <<task, left>> /\ UNCHANGED Hardware /\ UNCHANGED Software

(* How far the accesses of ethernet_phy_auto_negotiate to the PHY get: k   *)
(* is the one that fails.  The second isolates the PHY and ends what it    *)
(* negotiates, the fifth lets it negotiate, the sixth makes it begin. *)
Accesses == 1 .. 6
Written(k) ==
    LET told == [phy EXCEPT !.dropped = ~phy.link,
                            !.isolated = IF k < 3 THEN @ ELSE k < 7,
                            !.autoneg = IF k \in 3 .. 5 THEN FALSE ELSE IF k > 5 THEN TRUE ELSE @]
    IN  IF k < 3 \/ ~Here THEN told
        ELSE [told EXCEPT !.link = FALSE, !.dropped = TRUE, !.done = FALSE]

(* The link is there and was not: ethernet_phy_auto_negotiate begins. *)
Negotiates ==
    /\ task = "waits" /\ ~reset /\ sem = 0 /\ LinkBit /\ ~fLinkUp
    /\ phy' = Written(7)
    /\ task' = "negotiates"
    /\ UNCHANGED left /\ UNCHANGED Hardware /\ UNCHANGED Software

(* ... or fails before it waits. *)
NegotiateFails(k) ==
    /\ task = "waits" /\ ~reset /\ sem = 0 /\ LinkBit /\ ~fLinkUp
    /\ phy' = Written(k)
    /\ UNCHANGED <<task, left>> /\ UNCHANGED Hardware /\ UNCHANGED Software

(* The PHY takes too long, or a read fails: the next second begins anew. *)
GivesUp ==
    /\ task = "negotiates" /\ task' = "waits"
    /\ phy' = StatusRead
    /\ UNCHANGED left /\ UNCHANGED Hardware /\ UNCHANGED Software

(* Mutant of Chosen: 10 is looked at first. *)
ChosenSlow(modes) == Best(<<"10FD", "100FD", "100HD", "10HD">>, modes)
(* What ethernet_phy_auto_negotiate sets the EMAC to. *)
Chosen(modes) == Best(CodeOrder, modes)

(* It has settled: the EMAC is set to what both ends know, and the task    *)
(* takes the link for up. *)
Settles ==
    /\ task = "negotiates" /\ task' = "waits"
    /\ Here => phy.done
    /\ phy' = StatusRead
    /\ mac' = IF Here THEN Chosen(cable) ELSE "100FD"
    /\ callback' = TRUE /\ fLinkUp' = TRUE
    /\ flags' = flags \cup {"LINK_UP", "UP"}
    /\ UNCHANGED <<cable, ring, sem, left, sending, reset>>

(* The link is gone. *)
SeesLoss ==
    /\ task = "waits" /\ ~reset /\ sem = 0 /\ ~LinkBit
    /\ phy' = StatusRead
    /\ IF fLinkUp THEN /\ fLinkUp' = FALSE /\ callback' = FALSE
                       /\ flags' = flags \ {"LINK_UP", "UP"}
                  ELSE UNCHANGED <<fLinkUp, callback, flags>>
    /\ UNCHANGED <<cable, mac, ring, sem, task, left, sending, reset>>

Faults == GivesUp \/ \E k \in Accesses : NegotiateFails(k)
Changes == Unplug \/ AsksReset \/ \E modes \in Partners : Plug(modes)
Works == Resets \/ SkipsReset \/ Takes \/ Reads \/ SeesSame \/ SeesLoss \/ Negotiates \/ Settles

MacNext == \/ Works \/ PhyLinks \/ FrameArrives
        \/ Faults \/ Changes
        \/ \E begins \in BOOLEAN : Sends(begins)

MacSpec == MacInit /\ [][MacNext]_macVars

(* The task runs, the PHY finds what is there, and the thread that sends   *)
(* is done after its attempts: xEmacSendSem goes to the task first, which  *)
(* has the higher priority. *)
FairMac == /\ WF_macVars(Works) /\ SF_macVars(Resets) /\ WF_macVars(PhyLinks) /\ WF_macVars(Sends(FALSE))

----------------------------------------------------------------------------
(* No wakeup is lost: while a frame that was called back for is not read,  *)
(* the semaphore counts or the task has still to look at the buffers.      *)
FramesAreSignalled ==
    \A i \in DOMAIN ring : ring[i] => sem > 0 \/ (task = "reads" /\ left >= i)

(* A link that the task takes for up, and that has not been lost since, is *)
(* set to the same mode at the EMAC and at the PHY, which is not isolated: *)
(* unless the other end is one for which code and 802.3 choose apart.      *)
Agreeable(modes) == Best(CodeOrder, modes) = Best(PhyOrder, modes)
ModesAgree ==
    Here /\ fLinkUp /\ phy.link /\ ~phy.dropped /\ task # "negotiates" /\ Agreeable(cable) =>
        mac = phy.mode /\ ~phy.isolated

(* Both. *)
DriverIsSound == FramesAreSignalled /\ ModesAgree

(* What the interface is when all is well, with and without a cable. *)
Usable == flags = BroadcastEtharpLink \cup {"UP"} /\ callback /\ mac = phy.mode /\ ~phy.isolated
Settled == IF cable = NoCable THEN "UP" \notin flags /\ ~callback ELSE Usable

(* When cable and PHY are left alone, the interface settles: it is down    *)
(* without a cable and works with one, whatever was unplugged, failed or   *)
(* reset before; but not with a PHY that is not where the board has it, or *)
(* that did not answer the last time all was reset. *)
InterfaceSettles ==
    \/ []<><<Faults \/ Changes>>_macVars
    \/ <>[](\/ Settled \/ ~Here \/ ~Agreeable(cable)
            \/ flags \cap {"BROADCAST", "ETHARP"} = {})
=============================================================================
