------------------------------- MODULE Etharp -------------------------------
(***************************************************************************)
(* The ARP cache, netif/etharp.c, as operators from one interface record   *)
(* to the next.  Lan turns them into steps of the tasks that call them.    *)
(*                                                                         *)
(* An interface n has its addresses ip and gw (0 when not set), the table, *)
(* and out, the frames that one call hands to linkoutput.  What is queued  *)
(* on an entry is a packet, or NoPacket; a frame carries a packet or an    *)
(* ARP message.                                                            *)
(***************************************************************************)
EXTENDS Integers, Sequences, FiniteSets, FiniteSetsExt

CONSTANTS
    ARP_TABLE_SIZE,
    ARP_MAXAGE,
    ARP_MAXPENDING,
    Outside              \* the addresses beyond the gateway

ASSUME EtharpAssumption ==
    /\ {ARP_TABLE_SIZE, ARP_MAXAGE, ARP_MAXPENDING} \subseteq Nat \ {0}
    /\ ARP_MAXPENDING < ARP_MAXAGE

ANY == 0
BROADCAST == 255

NoPacket == [dip |-> ANY]
NoHw == "none"
Bcast == "bcast"
Dev == "dev"             \* this interface's own hardware address

Slots == 1 .. ARP_TABLE_SIZE

EmptyEntry == [state |-> "EMPTY", ip |-> ANY, hw |-> NoHw, ctime |-> 0, p |-> NoPacket]
etharp_init == [i \in Slots |-> EmptyEntry]

Send(n, frame) == [n EXCEPT !.out = Append(@, frame)]

IpFrame(dst, p) == [type |-> "ip", src |-> Dev, dst |-> dst, p |-> p]
ArpFrame(op, src, dst, sip, dip) ==
    [type |-> "arp", op |-> op, src |-> src, dst |-> dst, sip |-> sip, dip |-> dip]

IsUnicast(ip) == ip \notin {ANY, BROADCAST}
IsLocal(n, ip) == n.ip = ANY \/ ip \notin Outside

----------------------------------------------------------------------------
In(n, state) == {i \in Slots : n.table[i].state = state}

(* Of entries of one age the last one counts as the oldest. *)
Oldest(n, entries) ==
    Max({i \in entries : \A j \in entries : n.table[j].ctime <= n.table[i].ctime})

Recycled(n, i, ip) ==
    [n EXCEPT !.table[i].state = "EMPTY", !.table[i].ip = ip, !.table[i].ctime = 0]

(* Mutant of find_entry: the queue of a recycled entry stays on it. *)
FindKeeping(n, ip, hard) ==
    LET match == {i \in Slots : n.table[i].state # "EMPTY" /\ n.table[i].ip = ip}
        stable == In(n, "STABLE")
        pending == In(n, "PENDING")
        take(i) == [i |-> i, n |-> Recycled(n, i, ip)]
    IN CASE match # {} -> [i |-> Min(match), n |-> n]
         [] In(n, "EMPTY") # {} -> take(Min(In(n, "EMPTY")))
         [] ~hard -> [i |-> 0, n |-> n]
         [] stable # {} -> take(Oldest(n, stable))
         [] OTHER -> take(Oldest(n, pending))

(* find_entry: the slot (0 for ERR_MEM) and the table it leaves.  Recycled *)
(* are, in this order, the oldest stable entry, the oldest pending one     *)
(* that nothing waits for, and the oldest of all. *)
find_entry(n, ip, hard) ==
    LET match == {i \in Slots : n.table[i].state # "EMPTY" /\ n.table[i].ip = ip}
        empty == In(n, "EMPTY")
        stable == In(n, "STABLE")
        pending == {i \in In(n, "PENDING") : n.table[i].p = NoPacket}
        queued == In(n, "PENDING") \ pending
        take(i) == [i |-> i, n |-> Recycled(n, i, ip)]
        drop(i) == [i |-> i, n |-> [Recycled(n, i, ip) EXCEPT !.table[i].p = NoPacket]]
    IN CASE match # {} -> [i |-> Min(match), n |-> n]
         [] match = {} /\ empty # {} -> take(Min(empty))
         [] match = {} /\ empty = {} /\ ~hard -> [i |-> 0, n |-> n]
         [] OTHER -> IF stable # {} THEN take(Oldest(n, stable))
                     ELSE IF pending # {} THEN take(Oldest(n, pending))
                     ELSE drop(Oldest(n, queued))

----------------------------------------------------------------------------
(* update_arp_entry, in the parts between which another task may run: the  *)
(* entry is stable, then it has its address, then what waits for it goes.  *)
MarkStable(n, i) == [n EXCEPT !.table[i].state = "STABLE"]
WriteAddress(n, i, hw) == [n EXCEPT !.table[i].hw = hw, !.table[i].ctime = 0]

(* Mutant of SendQueued: nothing is sent from an entry that is stable      *)
(* already. *)
SendIfPending(n, i, hw) ==
    LET p == n.table[i].p IN
    IF p = NoPacket \/ n.table[i].state # "PENDING" THEN n
    ELSE Send([n EXCEPT !.table[i].p = NoPacket], IpFrame(hw, p))

SendQueued(n, i, hw) ==
    LET p == n.table[i].p IN
    IF p = NoPacket THEN n
    ELSE Send([n EXCEPT !.table[i].p = NoPacket], IpFrame(hw, p))

update_arp_entry(n, ip, hw, hard) ==
    LET found == find_entry(n, ip, hard) IN
    IF ~IsUnicast(ip) \/ found.i = 0 THEN n
    ELSE SendQueued(WriteAddress(MarkStable(found.n, found.i), found.i, hw), found.i, hw)

(* Only in builds that set ETHARP_TRUST_IP_MAC. *)
etharp_ip_input(n, f) ==
    IF IsLocal(n, f.p.sip) THEN update_arp_entry(n, f.p.sip, f.src, FALSE) ELSE n

ForUs(n, f) == n.ip # ANY /\ f.dip = n.ip

(* The rest of etharp_arp_input, after the cache is updated: the answer.   *)
ArpAnswer(n, f) ==
    IF f.op = "request" /\ ForUs(n, f)
    THEN Send(n, ArpFrame("reply", Dev, f.src, n.ip, f.sip)) ELSE n

etharp_arp_input(n, f) ==
    ArpAnswer(update_arp_entry(n, f.sip, f.src, ForUs(n, f)), f)

----------------------------------------------------------------------------
etharp_request(n, ip) == Send(n, ArpFrame("request", Dev, Bcast, n.ip, ip))

(* etharp_query up to the request, and what it does with the packet once   *)
(* linkoutput has returned.  Only one packet can wait on an entry: a       *)
(* second is dropped. *)
Asked(n, i, ip, p) ==
    LET m == IF n.table[i].state = "EMPTY"
             THEN [n EXCEPT !.table[i].state = "PENDING"] ELSE n
    IN IF m.table[i].state = "PENDING" \/ p = NoPacket THEN etharp_request(m, ip) ELSE m

(* Mutant of Passed: the packet is sent although nobody has answered. *)
PassedUnresolved(n, i, p) ==
    IF p = NoPacket THEN n ELSE Send(n, IpFrame(n.table[i].hw, p))

Passed(n, i, p) ==
    LET e == n.table[i] IN
    CASE p = NoPacket -> n
      [] p # NoPacket /\ e.state = "STABLE" -> Send(n, IpFrame(e.hw, p))
      [] p # NoPacket /\ e.state = "PENDING" /\ e.p = NoPacket -> [n EXCEPT !.table[i].p = p]
      [] OTHER -> n

etharp_query(n, ip, p) ==
    LET found == find_entry(n, ip, TRUE) IN
    IF ~IsUnicast(ip) \/ found.i = 0 THEN n
    ELSE Passed(Asked(found.n, found.i, ip, p), found.i, p)

NextHop(n, p) == IF IsLocal(n, p.dip) THEN p.dip ELSE n.gw

etharp_output(n, p) ==
    CASE ~IsUnicast(p.dip) -> Send(n, IpFrame(Bcast, p))
      [] IsUnicast(p.dip) /\ NextHop(n, p) = ANY -> n
      [] OTHER -> etharp_query(n, NextHop(n, p), p)

----------------------------------------------------------------------------
Expired(e) ==
    \/ e.state = "STABLE" /\ e.ctime >= ARP_MAXAGE
    \/ e.state = "PENDING" /\ e.ctime >= ARP_MAXPENDING

(* etharp_tmr; nobody reads the age of an empty entry. *)
etharp_tmr(n) ==
    LET Aged(e) == IF e.state = "EMPTY" THEN e ELSE [e EXCEPT !.ctime = @ + 1]
        Cleaned(e) == IF Expired(e) THEN [e EXCEPT !.state = "EMPTY", !.p = NoPacket] ELSE e
    IN [n EXCEPT !.table = [i \in Slots |-> Cleaned(Aged(@[i]))]]

=============================================================================
