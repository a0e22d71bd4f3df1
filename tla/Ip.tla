--------------------------------- MODULE Ip ---------------------------------
(***************************************************************************)
(* IPv4 with reassembly and fragmentation (core/ipv4), ICMP, UDP and raw   *)
(* IP (core/udp.c, core/raw.c) on one host with an Ethernet interface: the *)
(* functions the tcpip thread calls, as operators on the host.             *)
(*                                                                         *)
(* A message is what one call sends or answers: [src, dst, proto, sport,   *)
(* dport, len], where len is what IP carries and n tells messages apart.   *)
(* A packet is a part of it, [msg, off, len, mf, whole]; whole is whether  *)
(* its checksums are right: whether it is nothing but that part.           *)
(***************************************************************************)
EXTENDS Pbuf

CONSTANTS MTU, IP_REASS_BUFSIZE

ASSUME IpAssumption == MTU > 28 /\ IP_REASS_BUFSIZE \in Nat \ {0}

IP_HLEN == 20
UDP_HLEN == 8
ETH_HLEN == 14
IP_REASS_MAXAGE == 3
IP_PROTO(m) == IF m.proto = "UDP" THEN "UDP" ELSE "ICMP"

(* What memory holds where nothing has been written, and what is left of   *)
(* a packet that was damaged. *)
Zeros == [src |-> NIL, dst |-> NIL, proto |-> "UDP", sport |-> 0, dport |-> 0, len |-> 0, n |-> 0]
Noise == [Zeros EXCEPT !.len = 1]
Whole(m) == [msg |-> m, off |-> 0, len |-> m.len, mf |-> FALSE, whole |-> TRUE]

(* A host: its pbufs; the UDP and raw pcbs in the order of their lists, by *)
(* the sockets that have them; the netconns; the buffer for reassembly;    *)
(* the frame that waits for an address; whether the address is known, and  *)
(* the interface up; the mailbox of the tcpip thread; and what one call    *)
(* puts on the wire.  missed is a history: a frame has found the place of  *)
(* the one that waits taken, or a fragment the buffer for reassembly.      *)
NoPcb == [lport |-> 0, rip |-> NIL, rport |-> 0, connected |-> FALSE]
NoConn == [type |-> "NONE", open |-> FALSE, recvmbox |-> <<>>, recv_avail |-> 0]
NoReass == [tmr |-> 0, src |-> NIL, proto |-> "UDP", last |-> FALSE, len |-> 0,
            bitmap |-> {}, buf |-> [u \in 0 .. (IP_REASS_BUFSIZE \div 8) - 1 |-> Zeros]]
NewHost(socks, netbufs, resolved) ==
    [b |-> pbuf_init, netbufs |-> netbufs, udp_pcbs |-> <<>>, raw_pcbs |-> <<>>,
     pcb |-> [s \in socks |-> NoPcb], conn |-> [s \in socks |-> NoConn],
     reass |-> NoReass, waiting |-> [p |-> NIL, k |-> Whole(Zeros)], resolved |-> resolved,
     up |-> TRUE, mbox |-> <<>>, sent |-> <<>>, missed |-> FALSE]

Frees(H, p) == [H EXCEPT !.b = pbuf_free(@, p)]
Moves(H, p, inc) == [H EXCEPT !.b = pbuf_header(@, p, inc)]

----------------------------------------------------------------------------
(* Going out. *)

(* A frame for a host whose address is not known waits, one at a time; one *)
(* whose data is somebody else's is copied first. *)
Queued(H, taken, k) ==
    IF taken.p = NIL \/ H.waiting.p # NIL
    THEN [H EXCEPT !.b = taken.b, !.missed = @ \/ H.waiting.p # NIL]
    ELSE [H EXCEPT !.b = pbuf_ref(taken.b, taken.p), !.waiting = [p |-> taken.p, k |-> k]]
etharp_query(H, p, k) ==
    IF H.resolved THEN [H EXCEPT !.sent = Append(@, k)] ELSE Queued(H, pbuf_take(H.b, p), k)

etharp_output(H, p, k) ==
    IF ~CanMove(H.b, p, ETH_HLEN) THEN H ELSE etharp_query(Moves(H, p, ETH_HLEN), p, k)

(* What copy_from_pbuf leaves of the chain p, whose IP header is skipped:  *)
(* each part is cut off in front of where it was read from last. *)
CopiedFrom(b, p, starts) ==
    LET c == Chain(b, p)
        lens == Lens(b, c)
        first(i) == Upto(lens, i - 1) - IP_HLEN
        after(i) == Upto(lens, i) - IP_HLEN
        read(i) == {s \in starts : s <= after(i) /\ (s > first(i) \/ i = 1)}
    IN  [x \in Ids |->
            IF \E i \in DOMAIN c : c[i] = x /\ read(i) # {}
            THEN LET i == CHOOSE i \in DOMAIN c : c[i] = x
                 IN  [b[x] EXCEPT !.len = after(i) - Max(read(i))]
            ELSE b[x]]

(* One fragment: a pbuf for the link header, and behind it the buffer that *)
(* all fragments are made in. *)
Chained(H, header, rambuf, k) ==
    Frees(etharp_output([H EXCEPT !.b = pbuf_chain(header.b, header.p, rambuf)], header.p, k), header.p)
OneFragment(H, rambuf, k, last) ==
    LET cut == IF last THEN pbuf_realloc(H.b, rambuf, k.len + IP_HLEN) ELSE H.b
    IN  Chained(H, pbuf_alloc(cut, "LINK", 0, "RAM"), rambuf, k)

RECURSIVE Fragments(_, _, _, _, _)
Fragments(H, rambuf, m, off, left) ==
    LET nfb == ((MTU - IP_HLEN) \div 8) * 8
        last == left <= MTU - IP_HLEN
        cop == IF last THEN left ELSE nfb
        k == [msg |-> m, off |-> off, len |-> cop, mf |-> ~last, whole |-> TRUE]
        H2 == OneFragment(H, rambuf, k, last)
    IN  IF left = 0 THEN H ELSE Fragments(H2, rambuf, m, off + nfb, left - cop)

ip_frag(H, p, m) ==
    LET ram == pbuf_alloc(H.b, "LINK", 0, "REF")
        size == [ram.b EXCEPT ![ram.p].len = MTU, ![ram.p].tot_len = MTU]
        nfb == ((MTU - IP_HLEN) \div 8) * 8
        starts == {i * nfb : i \in 0 .. m.len \div nfb} \cap 0 .. m.len - 1
        H2 == [H EXCEPT !.b = CopiedFrom(size, p, starts)]
    IN  Frees(Fragments(H2, ram.p, m, 0, m.len), ram.p)

(* Its header is written, or is there already. *)
OutputHeaded(H, p, m) ==
    IF H.b[p].tot_len > MTU THEN ip_frag(H, p, m) ELSE etharp_output(H, p, Whole(m))

ip_output_if(H, p, m) ==
    IF ~CanMove(H.b, p, IP_HLEN) THEN H ELSE OutputHeaded(Moves(H, p, IP_HLEN), p, m)

(* There is one way out, the default interface, if it is up. *)
ip_output(H, p, m) == IF H.up THEN ip_output_if(H, p, m) ELSE H

(* The data has no room for a header in front when it is somebody else's:  *)
(* the header gets a pbuf of its own. *)
Prepended(H, p, hlen) ==
    LET q == pbuf_alloc(H.b, "IP", hlen, "RAM")
    IN  IF q.p = NIL THEN q ELSE [b |-> pbuf_chain(q.b, q.p, p), p |-> q.p]
Headed(H, p) ==
    IF CanMove(H.b, p, UDP_HLEN) THEN [b |-> pbuf_header(H.b, p, UDP_HLEN), p |-> p]
    ELSE Prepended(H, p, UDP_HLEN)

(* What a message was sent with goes when it was not the caller's. *)
Done(H, q, p) == IF q = p THEN H ELSE Frees(H, q)
Goes(H, q, p, m) ==
    IF q.p = NIL THEN [H EXCEPT !.b = q.b]
    ELSE Done(ip_output_if([H EXCEPT !.b = q.b], q.p, m), q.p, p)

(* Mutant of udp_send: the header is forgotten. *)
SendKeeping(H, p, m) ==
    LET q == Headed(H, p)
    IN  IF H.up THEN Goes(H, q, q.p, m) ELSE [H EXCEPT !.b = q.b]

(* Without a route it returns at once. *)
udp_send(H, p, m) ==
    LET q == Headed(H, p)
    IN  IF H.up THEN Goes(H, q, p, m) ELSE [H EXCEPT !.b = q.b]

(* ICMP takes the Ethernet interface, up or down. *)
raw_sendto(H, p, m) ==
    Goes(H, IF CanMove(H.b, p, IP_HLEN) THEN [b |-> H.b, p |-> p] ELSE Prepended(H, p, 0), p, m)

----------------------------------------------------------------------------
(* Reassembly.  There is one buffer; the bitmap has a bit for each eight   *)
(* bytes, in bytes of eight. *)
UnitsOf(from, to) == (from \div 8) .. (to \div 8) - 1

(* Mutant of Complete: an end that is no multiple of eight is rounded up.  *)
RoundedUp(r) ==
    LET t == r.len \div 64
    IN  /\ r.last
        /\ \A i \in 0 .. t - 2 : UnitsOf(64 * i, 64 * (i + 1)) \subseteq r.bitmap
        /\ UnitsOf(64 * t, 64 * (t + 1)) \cap r.bitmap = UnitsOf(64 * t, r.len + 7)

(* All bytes of the bitmap but the last whole one, and the one in which    *)
(* the datagram ends. *)
Complete(r) ==
    LET t == r.len \div 64
    IN  /\ r.last
        /\ \A i \in 0 .. t - 2 : UnitsOf(64 * i, 64 * (i + 1)) \subseteq r.bitmap
        /\ UnitsOf(64 * t, 64 * (t + 1)) \cap r.bitmap = UnitsOf(64 * t, r.len)

(* What the buffer then holds. *)
Reassembled(r) ==
    LET m == r.buf[0]
    IN  [msg |-> [m EXCEPT !.proto = r.proto, !.src = r.src], off |-> 0, len |-> r.len, mf |-> FALSE,
         whole |-> /\ m.len = r.len /\ m.proto = r.proto /\ m.src = r.src
                   /\ \A u \in 0 .. (r.len + 7) \div 8 - 1 : r.buf[u] = m]

Started(r, k) == IF r.tmr # 0 THEN r
                 ELSE [r EXCEPT !.src = k.msg.src, !.proto = k.msg.proto, !.last = FALSE,
                                !.tmr = IP_REASS_MAXAGE, !.bitmap = {}]

(* The identification is always 0: a source has one datagram at a time. *)
Belongs(r, k) == r.src = k.msg.src

Added(r, k) ==
    [r EXCEPT !.bitmap = @ \cup UnitsOf(k.off, k.off + k.len),
              !.buf = [u \in DOMAIN @ |-> IF u \in UnitsOf(k.off, k.off + k.len + 7)
                                          THEN IF k.whole THEN k.msg ELSE Noise ELSE @[u]],
              !.last = @ \/ ~k.mf, !.len = IF k.mf THEN @ ELSE k.off + k.len]

(* What becomes of the buffer. *)
Collected(r, k) ==
    IF ~Belongs(r, k) THEN r
    ELSE IF k.off + k.len > IP_REASS_BUFSIZE THEN [r EXCEPT !.tmr = 0]
    ELSE Added(r, k)

(* Nothing, or the packet that is whole now, in pbuf q. *)
Given(H, q, r) == [H |-> [H EXCEPT !.b = q.b, !.reass = [r EXCEPT !.tmr = 0]], p |-> q.p, k |-> Reassembled(r)]
Gathered(H, r, k, ends) ==
    IF ends /\ Complete(r) THEN Given(H, pbuf_alloc(H.b, "LINK", r.len + IP_HLEN, "POOL"), r)
    ELSE [H |-> [H EXCEPT !.reass = r], p |-> NIL, k |-> k]
ip_reass(H, p, k) ==
    LET r == Started(H.reass, k)
        noted == [H EXCEPT !.missed = @ \/ ~Belongs(r, k)]
    IN  Gathered(Frees(noted, p), Collected(r, k), k,
                 Belongs(r, k) /\ k.off + k.len <= IP_REASS_BUFSIZE)

(* Mutant of ip_reass_timer: it stops, and the buffer stays taken. *)
StopsAtOne(H) == [H EXCEPT !.reass.tmr = IF @ > 1 THEN @ - 1 ELSE @]

ip_reass_timer(H) == [H EXCEPT !.reass.tmr = IF @ > 0 THEN @ - 1 ELSE @]

----------------------------------------------------------------------------
(* Coming in. *)

(* The callbacks of the sockets, in api/api_msg.c: without a netbuf the    *)
(* data is dropped, and without a mailbox it is kept by nobody. *)
Posts(H, s, p, k) ==
    [H EXCEPT !.netbufs = @ - 1,
              !.conn[s].recvmbox = Append(@, [p |-> p, k |-> k]),
              !.conn[s].recv_avail = @ + H.b[p].tot_len]

recv_udp(H, s, p, k) ==
    IF ~H.conn[s].open THEN H
    ELSE IF H.netbufs = 0 THEN Frees(H, p)
    ELSE Posts(H, s, p, k)

(* Mutant of recv_raw: it forgets that the pbuf is not its own. *)
RawTakes(H, s, p, k) ==
    IF ~H.conn[s].open \/ H.netbufs = 0 THEN H ELSE Posts(H, s, p, k)

recv_raw(H, s, p, k) ==
    IF ~H.conn[s].open \/ H.netbufs = 0 THEN H
    ELSE Posts([H EXCEPT !.b = pbuf_ref(@, p)], s, p, k)

(* None of the callbacks eats what it is shown. *)
raw_input(H, p, k) ==
    LET Shown(G, s) == IF k.msg.proto # "UDP" THEN recv_raw(G, s, p, k) ELSE G
    IN  FoldLeft(Shown, H, H.raw_pcbs)

(* The answer quotes the beginning of what it is about. *)
Unreachable(m) == [src |-> m.dst, dst |-> m.src, proto |-> "UNREACH", sport |-> m.sport,
                   dport |-> m.dport, len |-> 36, n |-> m.n]
icmp_dest_unreach(H, m) ==
    LET q == pbuf_alloc(H.b, "IP", 36, "RAM")
    IN  Frees(ip_output([H EXCEPT !.b = q.b], q.p, Unreachable(m)), q.p)

(* The pcb a datagram is for: one that is connected to its source, or one  *)
(* that is not connected. *)
Matches(H, s, m) == H.pcb[s].rport = m.sport /\ H.pcb[s].lport = m.dport
                    /\ H.pcb[s].rip \in {NIL, m.src}
Listens(H, s, m) == ~H.pcb[s].connected /\ H.pcb[s].lport = m.dport
FirstOf(H, Test(_, _, _), m) == SelectSeq(H.udp_pcbs, LAMBDA s : Test(H, s, m))
Receivers(H, m) == FirstOf(H, Matches, m) \o FirstOf(H, Listens, m)

(* Mutant of Checked: nobody looks. *)
Unchecked(k) == TRUE

(* A checksum of zero is none. *)
Checked(k) == k.whole \/ k.msg.len = 0

(* To the first pcb that takes it; if none does, the sender is told. *)
Handed(H, p, k, to) ==
    IF to # <<>> THEN recv_udp(H, Head(to), p, k)
    ELSE Frees(icmp_dest_unreach(H, k.msg), p)

udp_input(H, p, k) ==
    LET opened == Moves(H, p, -(UDP_HLEN + IP_HLEN))
    IN  IF Checked(k) THEN Handed(opened, p, k, Receivers(H, k.msg)) ELSE Frees(opened, p)

(* An echo request is turned into its answer where it lies. *)
Replied(m) == [m EXCEPT !.src = m.dst, !.dst = m.src, !.proto = "REPLY"]
icmp_input(H, p, k) ==
    LET opened == Moves(H, p, -IP_HLEN)
    IN  Frees(IF k.msg.proto # "ECHO" \/ ~k.whole THEN opened
              ELSE OutputHeaded(Moves(opened, p, IP_HLEN), p, Replied(k.msg)), p)

Deliver(H, p, k) ==
    LET shown == raw_input(H, p, k)
    IN  IF k.msg.proto = "UDP" THEN udp_input(shown, p, k) ELSE icmp_input(shown, p, k)

(* Padding is cut off; what is not for this host is dropped. *)
ip_input(H, p, k) ==
    LET cut == [H EXCEPT !.b = pbuf_realloc(@, p, k.len + IP_HLEN)]
        r == IF k.off = 0 /\ ~k.mf THEN [H |-> cut, p |-> p, k |-> k] ELSE ip_reass(cut, p, k)
    IN  IF ~H.up THEN Frees(cut, p)
        ELSE IF r.p = NIL THEN r.H ELSE Deliver(r.H, r.p, r.k)
=============================================================================
