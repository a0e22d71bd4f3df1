-------------------------------- MODULE Lan ---------------------------------
(***************************************************************************)
(* A device on an Ethernet: its driver's task (vMACTask of                 *)
(* arch/FreeRTOS/ethernetif.c), the tcpip thread (api/tcpip.c), the ARP    *)
(* cache both use (Etharp) and the DHCP client (Dhcp), with the hosts and  *)
(* the DHCP server it talks to.                                            *)
(*                                                                         *)
(* The driver's task handles a frame in the steps between which the tcpip  *)
(* thread, which has the higher priority, may run ("preempt"); the tcpip   *)
(* thread gives way only where it waits for the transmitter ("yields").    *)
(* The cache has no lock: a scenario that sets neither is the cache as it  *)
(* would be with one.                                                      *)
(*                                                                         *)
(* Request timers run out when all is quiet; a scenario can grant a number *)
(* of early ones, of lost frames and of restarts of the server.            *)
(***************************************************************************)
EXTENDS Dhcp, Functions

CONSTANTS Scenarios

(* Hosts have addresses of their own kind.  Where two tasks meet in the     *)
(* cache nothing ages: the driver that has a task of its own does not call *)
(* etharp_tmr. *)
ASSUME LanAssumption ==
    \A s \in Scenarios :
        /\ \A h \in DOMAIN s.hosts : IsUnicast(s.hosts[h])
        /\ ~(s.aged /\ s.preempt)

VARIABLES
    scene,               \* the scenario: what does not change
    n,                   \* the interface (gNetIf, with arp_table and netif->dhcp)
    mac,                 \* the driver's task: what it has found out about its frame
    query,               \* the tcpip thread in etharp_query, waiting to go on
    mbox,                \* packets on their way to the tcpip thread
    link,                \* the cable: [up, start, stop], the latter g_fDhcpStart, g_fDhcpStop
    rx,                  \* host -> its frames on the way to the device
    tx,                  \* the device's frames on their way to the hosts
    book,                \* the server's: address -> [who, left]
    serving,             \* whether the server answers
    toSend,              \* what the application still sends: address -> how often
    faults,              \* what may still go wrong
    mishaps              \* history: what has gone wrong

vars == <<scene, n, mac, query, mbox, link, rx, tx, book, serving, toSend, faults, mishaps>>
outside == <<rx, book, serving>>

Idle == [pc |-> "idle"]
NoQuery == [i |-> 0]

Hosts == DOMAIN scene.hosts
Holder(hw) == scene.hosts[hw]

Init ==
    /\ scene \in Scenarios
    /\ n = [ip |-> scene.ip, gw |-> scene.gw, up |-> scene.ip # ANY, table |-> etharp_init,
            out |-> <<>>, dhcp |-> NoDhcp, xid |-> 0, coarse |-> 1]
    /\ mac = Idle
    /\ query = NoQuery
    /\ mbox = <<>>
    /\ link = [up |-> scene.ip # ANY, start |-> FALSE, stop |-> FALSE]
    /\ rx = [h \in Hosts |-> <<>>]
    /\ tx = <<>>
    /\ book = [a \in scene.pool |-> [who |-> "free", left |-> 0]]
    /\ serving = TRUE
    /\ toSend = scene.sends
    /\ faults = scene.faults
    /\ mishaps = {}

(* linkoutput: what a call has sent is on the wire if there is one. *)
Transmit(m) ==
    /\ n' = [m EXCEPT !.out = <<>>]
    /\ tx' = IF link.up THEN tx \o m.out ELSE tx

Spend(what) == faults[what] > 0 /\ faults' = [faults EXCEPT ![what] = @ - 1]
Mishap(what) == mishaps' = mishaps \cup {what}

Silent == /\ \A h \in Hosts : rx[h] = <<>>
          /\ tx = <<>> /\ mbox = <<>> /\ mac = Idle /\ query = NoQuery

----------------------------------------------------------------------------
(* The driver's task: ethernet_input.  An IP packet goes to the tcpip      *)
(* thread; an ARP frame first updates the cache, in four steps. *)
MacMayRun == query = NoQuery \/ scene.yields

MacPasses(h) ==
    /\ MacMayRun /\ mac = Idle
    /\ rx[h] # <<>>
    /\ LET f == Head(rx[h]) IN
       /\ f.type = "ip"
       /\ mbox' = Append(mbox, f.p)
       /\ Transmit(IF scene.trust THEN etharp_ip_input(n, f) ELSE n)
    /\ rx' = [rx EXCEPT ![h] = Tail(@)]
    /\ UNCHANGED <<scene, mac, query, link, book, serving, toSend, faults, mishaps>>

MacFinds(h) ==
    /\ MacMayRun /\ mac = Idle
    /\ rx[h] # <<>>
    /\ LET f == Head(rx[h])
           found == find_entry(n, f.sip, ForUs(n, f))
       IN /\ f.type = "arp"
          /\ IF IsUnicast(f.sip) /\ found.i # 0
             THEN n' = found.n /\ mac' = [pc |-> "found", f |-> f, i |-> found.i]
             ELSE n' = n /\ mac' = [pc |-> "updated", f |-> f, i |-> 0]
    /\ rx' = [rx EXCEPT ![h] = Tail(@)]
    /\ UNCHANGED <<scene, query, mbox, link, tx, book, serving, toSend, faults, mishaps>>

ethernet_input(h) == MacPasses(h) \/ MacFinds(h)

MacUpdates(from, to, m) ==
    /\ MacMayRun /\ mac.pc = from
    /\ Transmit(m)
    /\ mac' = [mac EXCEPT !.pc = to]
    /\ UNCHANGED <<scene, query, mbox, link, rx, book, serving, toSend, faults, mishaps>>

MacMarks == MacUpdates("found", "marked", MarkStable(n, mac.i))
MacWrites == MacUpdates("marked", "written", WriteAddress(n, mac.i, mac.f.src))
MacSends == MacUpdates("written", "updated", SendQueued(n, mac.i, mac.f.src))

MacAnswers ==
    /\ MacMayRun /\ mac.pc = "updated"
    /\ LET m == ArpAnswer(n, mac.f) IN
       Transmit(IF mac.f.op = "reply" /\ n.ip = ANY THEN dhcp_arp_reply(m, mac.f.sip) ELSE m)
    /\ mac' = Idle
    /\ UNCHANGED <<scene, query, mbox, link, rx, book, serving, toSend, faults, mishaps>>

(* The cable comes and goes: looked at when no frame came for a second,    *)
(* long after the tcpip thread has seen to the last change. *)
MacSeesLink ==
    /\ MacMayRun /\ mac = Idle
    /\ ~link.start /\ ~link.stop
    /\ scene.ip = ANY
    /\ \/ ~link.up /\ link' = [link EXCEPT !.up = TRUE, !.start = TRUE]
          /\ UNCHANGED <<rx, tx, faults, mishaps>>
       \/ link.up /\ Spend("unplugged") /\ link' = [link EXCEPT !.up = FALSE, !.stop = TRUE]
          /\ rx' = [h \in Hosts |-> <<>>] /\ tx' = <<>> /\ Mishap("lost")
    /\ UNCHANGED <<scene, n, mac, query, mbox, book, serving, toSend>>

----------------------------------------------------------------------------
(* The tcpip thread. *)
TcpipMayRun == query = NoQuery /\ (mac = Idle \/ scene.preempt)

Tcpip(m) ==
    /\ TcpipMayRun
    /\ Transmit(m)
    /\ UNCHANGED <<scene, mac, outside>>

(* A packet: DHCP's, if the client still has its pcb, or for someone else. *)
TcpipTakes ==
    /\ mbox # <<>>
    /\ Tcpip(IF n.dhcp # NoDhcp /\ Head(mbox).kind = "dhcp" THEN dhcp_recv(n, Head(mbox).msg) ELSE n)
    /\ mbox' = Tail(mbox)
    /\ UNCHANGED <<query, link, toSend, faults, mishaps>>

(* The application sends: etharp_output, up to the request ... *)
Send1(dip) ==
    LET p == [sip |-> n.ip, dip |-> dip, kind |-> "data", id |-> toSend[dip]]
        hop == NextHop(n, p)
        found == find_entry(n, hop, TRUE)
    IN /\ toSend[dip] > 0 /\ n.up
       /\ toSend' = [toSend EXCEPT ![dip] = @ - 1]
       /\ IF IsUnicast(dip) /\ hop # ANY
          THEN Tcpip(Asked(found.n, found.i, hop, p)) /\ query' = [i |-> found.i, p |-> p]
          ELSE Tcpip(etharp_output(n, p)) /\ query' = query
       /\ UNCHANGED <<mbox, link, faults, mishaps>>

(* ... and from there on. *)
Send2 ==
    /\ query # NoQuery /\ (mac = Idle \/ scene.preempt)
    /\ Transmit(Passed(n, query.i, query.p))
    /\ query' = NoQuery
    /\ UNCHANGED <<scene, mac, mbox, link, outside, toSend, faults, mishaps>>

(* etharp_tmr, in builds whose driver starts it. *)
ArpTimer ==
    /\ scene.aged
    /\ Tcpip(etharp_tmr(n))
    /\ mishaps' = IF Silent THEN mishaps ELSE mishaps \cup {"early"}
    /\ UNCHANGED <<query, mbox, link, toSend, faults>>

TcpipStops ==
    /\ link.stop
    /\ Tcpip(dhcp_stop(dhcp_release(n)))
    /\ link' = [link EXCEPT !.stop = FALSE]
    /\ UNCHANGED <<query, mbox, toSend, faults, mishaps>>

TcpipStarts ==
    /\ link.start /\ ~link.stop
    /\ Tcpip(dhcp_start(n))
    /\ link' = [link EXCEPT !.start = FALSE]
    /\ UNCHANGED <<query, mbox, toSend, faults, mishaps>>

RequestTimeout ==
    /\ n.dhcp # NoDhcp /\ n.dhcp.timer
    /\ \/ Silent /\ UNCHANGED <<faults, mishaps>>
       \/ ~Silent /\ Spend("early") /\ Mishap("early")
    /\ Tcpip(dhcp_timeout(n))
    /\ UNCHANGED <<query, mbox, link, toSend>>

(* A minute passes, for the server's leases too; it is longer than what    *)
(* the client takes over an offer or a renewal that the server answers.    *)
(* The tcpip thread calls dhcp_coarse_tmr after the first minute, then     *)
(* each time half a lease has gone by. *)
Next_coarse(m) == IF m.dhcp = NoDhcp \/ m.dhcp.lease < 2 THEN 1 ELSE m.dhcp.lease \div 2

(* Mutant of CoarseTick: the half of the lease is reckoned from the last   *)
(* minute on. *)
CoarseLate(m) ==
    IF m.coarse > 1 THEN [m EXCEPT !.coarse = @ - 1]
    ELSE LET after == dhcp_coarse_tmr(m) IN [after EXCEPT !.coarse = Next_coarse(after) + 1]

CoarseTick(m) ==
    IF m.coarse > 1 THEN [m EXCEPT !.coarse = @ - 1]
    ELSE LET after == dhcp_coarse_tmr(m) IN [after EXCEPT !.coarse = Next_coarse(after)]

Elapsed(b) ==
    CASE b.left > 1 -> [b EXCEPT !.left = @ - 1]
      [] b.left = 1 -> [who |-> "free", left |-> 0]
      [] OTHER -> b

Retrying == {"SELECTING", "RENEWING", "REBINDING"}

Minute ==
    /\ Silent /\ TcpipMayRun /\ ~link.start /\ ~link.stop
    /\ n.dhcp.state \in {"none", "BOUND"} \/ (~serving /\ n.dhcp.state \in Retrying)
    /\ Spend("minutes")
    /\ Transmit(CoarseTick(n))
    /\ book' = [a \in DOMAIN book |-> Elapsed(book[a])]
    /\ UNCHANGED <<scene, mac, query, mbox, link, rx, serving, toSend, mishaps>>

----------------------------------------------------------------------------
(* The others.  A host answers who asks for its address. *)
ArpReaction(h, f) ==
    IF f.type = "arp" /\ f.op = "request" /\ f.dip = Holder(h)
    THEN <<ArpFrame("reply", h, f.src, Holder(h), f.sip)>> ELSE <<>>

(* The server keeps an address for the device from its offer on, and for   *)
(* the lease from its acknowledgement on. *)
Ours == {a \in DOMAIN book : book[a].who \in {"offered", "bound"}}
Free == {a \in DOMAIN book : book[a].who = "free"}

(* It lays its options out as the scenario says. *)
Laid(opts, codes) == SelectSeq(opts, LAMBDA o : o.code \in codes) \o <<END>>
Says(kind) == <<Opt("OVERLOAD", scene.layout.overload), Opt("MESSAGE_TYPE", kind),
                Opt("SERVER_ID", Holder(scene.server)), Opt("LEASE_TIME", scene.lease),
                Opt("T1", scene.lease \div 2), Opt("T2", scene.lease),
                Opt("ROUTER", Holder(scene.server))>>
Cut(all, k) == <<SubSeq(all, 1, k), SubSeq(all, k + 1, Len(all))>>
Answer(kind, m, addr) ==
    [type |-> "ip", src |-> scene.server, dst |-> IF kind = "NAK" THEN Bcast ELSE Dev,
     p |-> [sip |-> Holder(scene.server), dip |-> addr, kind |-> "dhcp",
            msg |-> [xid |-> m.xid, yi |-> addr,
                     chain |-> Cut(<<Laid(Says(kind), scene.layout.sname),
                                     Laid(Says(kind), scene.layout.file)>>
                                   \o Laid(Says(kind), scene.layout.options), scene.layout.cut)]]]

Grant(m, addr) ==
    IF addr \in Ours
    THEN [book |-> [book EXCEPT ![addr] = [who |-> "bound", left |-> scene.lease]],
          out |-> <<Answer("ACK", m, addr)>>]
    ELSE [book |-> book, out |-> <<Answer("NAK", m, ANY)>>]

Serve(m) ==
    LET none == [book |-> book, out |-> <<>>]
        offer(a) == [book |-> IF a \in Ours THEN book ELSE [book EXCEPT ![a].who = "offered"],
                     out |-> <<Answer("OFFER", m, a)>>]
        set(a, who) == [book |-> [book EXCEPT ![a] = [who |-> who, left |-> 0]], out |-> <<>>]
        kind == FirstOf(m.options, "MESSAGE_TYPE")
        addr == IF Has(m.options, "REQUESTED_IP") THEN FirstOf(m.options, "REQUESTED_IP") ELSE m.ci
    IN CASE kind = "DISCOVER" ->
                IF Ours # {} THEN offer(Min(Ours))
                ELSE IF Free # {} THEN offer(Min(Free)) ELSE none
         [] kind = "REQUEST" -> Grant(m, addr)
         [] kind = "DECLINE" -> IF addr \in Ours THEN set(addr, "declined") ELSE none
         [] kind = "RELEASE" -> IF m.ci \in Ours THEN set(m.ci, "free") ELSE none
         [] OTHER -> none

Heard(h, f) == f.dst \in {h, Bcast}

NetTakes ==
    /\ tx # <<>>
    /\ LET f == Head(tx)
           served == IF serving /\ f.type = "ip" /\ scene.server \in Hosts /\ Heard(scene.server, f)
                        /\ f.p.kind = "dhcp"
                     THEN Serve(f.p.msg) ELSE [book |-> book, out |-> <<>>]
           back(h) == (IF Heard(h, f) THEN ArpReaction(h, f) ELSE <<>>)
                      \o (IF h = scene.server THEN served.out ELSE <<>>)
       IN /\ book' = served.book
          /\ rx' = [h \in Hosts |-> rx[h] \o back(h)]
    /\ tx' = Tail(tx)
    /\ UNCHANGED <<scene, n, mac, query, mbox, link, serving, toSend, faults, mishaps>>

(* A host asks for an address. *)
HostAsks(h, dip) ==
    /\ link.up /\ Spend("asked")
    /\ dip \in ({n.ip} \cup Range(scene.hosts)) \ {ANY, Holder(h)}
    /\ rx' = [rx EXCEPT ![h] = Append(@, ArpFrame("request", h, Bcast, Holder(h), dip))]
    /\ UNCHANGED <<scene, n, mac, query, mbox, link, tx, book, serving, toSend, mishaps>>

LoseIn(h) ==
    /\ rx[h] # <<>>
    /\ Spend("lost") /\ Mishap("lost")
    /\ rx' = [rx EXCEPT ![h] = Tail(@)]
    /\ UNCHANGED <<scene, n, mac, query, mbox, link, tx, book, serving, toSend>>

LoseOut ==
    /\ tx # <<>>
    /\ Spend("lost") /\ Mishap("lost")
    /\ tx' = Tail(tx)
    /\ UNCHANGED <<scene, n, mac, query, mbox, link, rx, book, serving, toSend>>

(* The server is away, and comes back with its leases or without. *)
ServerLeaves ==
    /\ serving /\ Spend("restarts")
    /\ serving' = FALSE
    /\ UNCHANGED <<scene, n, mac, query, mbox, link, rx, tx, book, toSend, mishaps>>

ServerReturns ==
    /\ ~serving /\ serving' = TRUE
    /\ \/ UNCHANGED <<book, mishaps>>
       \/ /\ Mishap("forgotten")
          /\ book' = [a \in DOMAIN book |-> IF book[a].who = "declined" THEN book[a]
                                            ELSE [who |-> "free", left |-> 0]]
    /\ UNCHANGED <<scene, n, mac, query, mbox, link, rx, tx, toSend, faults>>

MacNext == \/ \E h \in Hosts : ethernet_input(h)
           \/ MacMarks \/ MacWrites \/ MacSends \/ MacAnswers
LinkUp == MacSeesLink /\ link'.up
TcpipNext == TcpipTakes \/ Send2 \/ TcpipStops \/ TcpipStarts \/ RequestTimeout

Next ==
    \/ MacNext \/ MacSeesLink \/ TcpipNext
    \/ \E dip \in DOMAIN toSend : Send1(dip)
    \/ ArpTimer \/ Minute
    \/ NetTakes \/ LoseOut \/ ServerLeaves \/ ServerReturns
    \/ \E h \in Hosts : LoseIn(h) \/ \E dip \in {n.ip} \cup Range(scene.hosts) : HostAsks(h, dip)

(* The two threads and the network go on; nothing need go wrong, and no    *)
(* time need pass but that of a request.  For the tcpip thread weak        *)
(* fairness is written out, with what it has to do in place of ENABLED.    *)
TcpipHasWork ==
    \/ mbox # <<>> \/ query # NoQuery \/ link.stop \/ link.start
    \/ Silent /\ n.dhcp # NoDhcp /\ n.dhcp.timer

Fairness ==
    /\ WF_vars(MacNext) /\ WF_vars(LinkUp) /\ WF_vars(NetTakes)
    /\ <>[]TcpipHasWork => []<><<TcpipNext>>_vars

Spec == Init /\ [][Next]_vars
FairSpec == Spec /\ Fairness

----------------------------------------------------------------------------
(* What leaves for one host leaves for the one that has the address, or    *)
(* for the gateway when the address is outside (which entry a packet waits *)
(* on, which address is written into it, and who recycles it in between).  *)
(* It is so as long as the two tasks do not meet in the cache. *)
FramesReachTheirHost ==
    ~scene.preempt /\ ~scene.yields =>
        \A k \in DOMAIN tx : LET f == tx[k] IN
            f.type = "ip" /\ f.dst # Bcast =>
                /\ f.dst \in Hosts
                /\ Holder(f.dst) = IF f.p.dip \in Outside THEN scene.gw ELSE f.p.dip

(* No address has two entries, and what waits on one is not resolved yet   *)
(* (find_entry asserts it) and waits for that entry's address, or for the  *)
(* gateway's, however entries are recycled. *)
TableIsSound ==
    mac = Idle =>
        /\ \A i, j \in Slots : LET e == n.table[i] IN
               e.state # "EMPTY" /\ n.table[j].state # "EMPTY" /\ e.ip = n.table[j].ip => i = j
        /\ \A i \in Slots : LET e == n.table[i] IN
               e.p # NoPacket => /\ e.state = "PENDING"
                                 /\ e.p.dip \in {e.ip} \cup Outside

(* An answer finds what waits for it: when all is quiet and no frame was   *)
(* lost, nothing waits for a host that is there. *)
NothingLeftWaiting ==
    Silent /\ mishaps = {} =>
        \A i \in Slots : n.table[i].ip \in Range(scene.hosts) => n.table[i].p = NoPacket

(* Both: the table is sound, and what waits in it is found. *)
CacheIsSound == TableIsSound /\ NothingLeftWaiting

(* A client that takes itself for bound is: the server has the address     *)
(* down as ours, however answers and timers cross and frames are lost.  It *)
(* is so for leases of up to two minutes: t1 and t2 count calls that are   *)
(* half a lease apart as if they were minutes. *)
AddressIsLeased ==
    scene.lease <= 2 /\ n.dhcp.state \in {"BOUND", "RENEWING"} /\ "forgotten" \notin mishaps =>
        n.ip \in DOMAIN book /\ book[n.ip].who = "bound"

(* An address that another host answers for is not used, unless its answer *)
(* is lost or comes too late. *)
NoDuplicateAddress ==
    n.dhcp # NoDhcp /\ n.up /\ mishaps \cap {"lost", "early"} = {} =>
        n.ip \notin Range(scene.hosts)

(* Both: the device alone has the address it uses, by the server's leave.  *)
AddressIsOurs == AddressIsLeased /\ NoDuplicateAddress

(* Where there is a cable and a server with an address to give, the device *)
(* comes up, whatever was lost before. *)
GetsAnAddress ==
    <>[](link.up /\ serving /\ scene.ip = ANY) => []<>(n.up \/ Free \cup Ours = {})

=============================================================================
