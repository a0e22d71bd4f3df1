------------------------------- MODULE Netif -------------------------------
(***************************************************************************)
(* The interfaces of core/netif.c, Ethernet's and that of PPP, as they are *)
(* added, numbered and taken away by api/ctrl.c, the DHCP client and IPCP, *)
(* and the TCP connections and listeners that are at their addresses.      *)
(*                                                                         *)
(* ip_route asks for no destination: all goes out by netif_default.        *)
(***************************************************************************)
EXTENDS Naturals, Sequences, FiniteSets, SequencesExt, Lists

CONSTANTS Addresses,   \* those that interfaces are given
          Conns,       \* control blocks, tcp_pcb
          Servers,     \* control blocks of listeners, tcp_pcb_listen
          NULL,
          Free         \* a control block that is not in use

IP_ADDR_ANY == 0

ASSUME NetifAssumption == /\ Addresses \subseteq Nat \ {IP_ADDR_ANY}
                          /\ NULL \notin {"et", "pp"}

VARIABLES netif_list, netif_default,
          netif,       \* interface -> [ip, up]
          local_ip,    \* of each control block, or Free
          on,          \* the list it is on: "none" before tcp_connect or tcp_listen
          late,        \* history: those put on a list at an address that was gone by then
          fEnDHCP,     \* g_fEnDHCP: the Ethernet asks for its address
          ppp          \* pppControl[0]: [openFlag, if_up, our, route], the last default_route_set

netifVars == <<netif_list, netif_default, netif, local_ip, on, late, fEnDHCP, ppp>>
pcbVars == <<local_ip, on, late>>

Eth == "et"
Ppp == "pp"

(* InitTCPIP and NetIfInit, with the parameters of the device. *)
NetifInit ==
    /\ netif_list = <<Eth>> /\ netif_default = Eth
    /\ \/ fEnDHCP = TRUE /\ netif = [n \in {Eth, Ppp} |-> [ip |-> IP_ADDR_ANY, up |-> FALSE]]
       \/ \E ip \in Addresses :
            /\ fEnDHCP = FALSE
            /\ netif = [n \in {Eth, Ppp} |->
                            [ip |-> IF n = Eth THEN ip ELSE IP_ADDR_ANY, up |-> FALSE]]
    /\ local_ip = [c \in Conns \cup Servers |-> Free]
    /\ on = [c \in Conns \cup Servers |-> "none"] /\ late = {}
    /\ ppp = [openFlag |-> FALSE, if_up |-> FALSE, our |-> IP_ADDR_ANY, route |-> FALSE]

----------------------------------------------------------------------------
(* What the calls of netif.c work on. *)
Nets == [list |-> netif_list, default |-> netif_default, netif |-> netif,
         local |-> local_ip, on |-> on]

(* The lists that netif_set_ipaddr walks. *)
Walked == {"active", "listen"}

(* Who is late is so until an interface gets that address. *)
NetsBecome(st) ==
    /\ netif_list' = st.list /\ netif_default' = st.default /\ netif' = st.netif
    /\ local_ip' = st.local /\ on' = st.on
    /\ late' = {c \in late : /\ st.on[c] \in Walked
                             /\ st.local[c] \notin {st.netif[n].ip : n \in {Eth, Ppp}}}

(* Mutant of netif_set_ipaddr: the listeners stay where they were. *)
SetIpaddrOnly(st, n, ip) ==
    LET old == st.netif[n].ip
        there == {c \in Conns \cup Servers :
                      st.on[c] = "active" /\ st.local[c] = old /\ ip # old}
    IN  [st EXCEPT !.netif[n].ip = ip,
            !.local = [c \in DOMAIN @ |-> IF c \in there THEN Free ELSE @[c]],
            !.on = [c \in DOMAIN @ |-> IF c \in there THEN "none" ELSE @[c]]]

(* The connections at the old address are aborted, the listeners go with   *)
(* the interface: when it had none, those that listen to any address too.  *)
(* What is only bound, or waits in TIME_WAIT, is on neither list and keeps *)
(* its address. *)
netif_set_ipaddr(st, n, ip) ==
    LET old == st.netif[n].ip
        there == {c \in Conns \cup Servers :
                      st.on[c] \in Walked /\ st.local[c] = old /\ ip # old}
        aborted == {c \in there : st.on[c] = "active"}
    IN  [st EXCEPT !.netif[n].ip = ip,
            !.local = [c \in DOMAIN @ |-> IF c \in aborted THEN Free
                                          ELSE IF c \in there THEN ip ELSE @[c]],
            !.on = [c \in DOMAIN @ |-> IF c \in aborted THEN "none" ELSE @[c]]]

netif_set_up(st, n) == [st EXCEPT !.netif[n].up = TRUE]
netif_set_down(st, n) == [st EXCEPT !.netif[n].up = FALSE]
netif_set_default(st, n) == [st EXCEPT !.default = n]

netif_add(st, n, ip) == [netif_set_ipaddr(st, n, ip) EXCEPT !.list = <<n>> \o @]

netif_remove(st, n) ==
    IF n \notin ToSet(st.list) THEN st
    ELSE [st EXCEPT !.list = Unlinked(@, n),
                    !.default = IF @ = n THEN NULL ELSE @]

ip_route == IF netif_default = NULL \/ ~netif[netif_default].up THEN NULL ELSE netif_default

----------------------------------------------------------------------------
(* The Ethernet. *)

(* The driver sees the link come and go, where there is no DHCP. *)
MacSeesLink(up) ==
    /\ ~fEnDHCP
    /\ NetsBecome(IF up THEN netif_set_up(Nets, Eth) ELSE netif_set_down(Nets, Eth))
    /\ UNCHANGED <<fEnDHCP, ppp>>

dhcp_bind(ip) ==
    /\ fEnDHCP
    /\ NetsBecome(netif_set_up(netif_set_ipaddr(Nets, Eth, ip), Eth))
    /\ UNCHANGED <<fEnDHCP, ppp>>

(* The end of dhcp_release. *)
dhcp_release ==
    /\ fEnDHCP
    /\ NetsBecome(netif_set_ipaddr(netif_set_down(Nets, Eth), Eth, IP_ADDR_ANY))
    /\ UNCHANGED <<fEnDHCP, ppp>>

(* New parameters, while all goes on: once the Ethernet has asked for its  *)
(* address it always does. *)
LoadNetIfPara(ip) ==
    LET dhcp == fEnDHCP \/ ip = IP_ADDR_ANY
        added == netif_add(netif_remove(Nets, Eth), Eth, IF dhcp THEN IP_ADDR_ANY ELSE ip)
    IN  /\ fEnDHCP' = dhcp
        /\ NetsBecome(netif_set_default(added, Eth))
        /\ UNCHANGED ppp

SetNetIfDefaultET == NetsBecome(netif_set_default(Nets, Eth)) /\ UNCHANGED <<fEnDHCP, ppp>>

----------------------------------------------------------------------------
(* PPP.  Its calls do nothing on a closed link. *)

sifaddr(p, ip) == [p EXCEPT !.our = ip]
cifaddr(p) == sifaddr(p, IP_ADDR_ANY)

sifup(ip) == netif_set_up(netif_add(netif_remove(Nets, Ppp), Ppp, ip), Ppp)

(* Mutant of sifdown: the interface stays up. *)
SifdownUp == netif_remove(Nets, Ppp)

sifdown == netif_remove(netif_set_down(Nets, Ppp), Ppp)

sifdefaultroute(st) == netif_set_default(st, Ppp)
(* There is no default any more, whichever it was. *)
cifdefaultroute(st) == netif_set_default(st, NULL)

pppOpen ==
    /\ ~ppp.openFlag
    /\ ppp' = [ppp EXCEPT !.openFlag = TRUE, !.if_up = FALSE]
    /\ UNCHANGED <<netif_list, netif_default, netif, pcbVars, fEnDHCP>>

(* The end of ipcp_up. *)
ipcp_up(ip) ==
    /\ ppp.openFlag /\ ~ppp.if_up
    /\ NetsBecome(sifdefaultroute(sifup(ip)))
    /\ ppp' = [sifaddr(ppp, ip) EXCEPT !.if_up = TRUE, !.route = TRUE]
    /\ UNCHANGED fEnDHCP

ipcp_down ==
    /\ ppp.openFlag /\ ppp.if_up
    /\ NetsBecome(IF ppp.route THEN cifdefaultroute(sifdown) ELSE sifdown)
    /\ ppp' = [cifaddr(ppp) EXCEPT !.if_up = FALSE, !.route = FALSE]
    /\ UNCHANGED fEnDHCP

(* The link has ended, and with it IPCP. *)
pppLinkTerminated ==
    /\ ppp.openFlag /\ ~ppp.if_up
    /\ ppp' = [ppp EXCEPT !.openFlag = FALSE]
    /\ UNCHANGED <<netif_list, netif_default, netif, pcbVars, fEnDHCP>>

SetNetIfDefaultPPP ==
    /\ ppp.openFlag
    /\ NetsBecome(sifdefaultroute(Nets)) /\ UNCHANGED <<fEnDHCP, ppp>>

----------------------------------------------------------------------------
(* TCP. *)
Current == {netif[n].ip : n \in {Eth, Ppp}}
Unused(c) == on[c] = "none" /\ local_ip[c] = Free
Bound(c) == on[c] = "none" /\ local_ip[c] # Free

(* A block that is at ip goes on a list. *)
Listed(c, list, ip) ==
    /\ on' = [on EXCEPT ![c] = list]
    /\ late' = IF ip \in Current \cup {IP_ADDR_ANY} THEN late ELSE late \cup {c}
    /\ UNCHANGED <<netif_list, netif_default, netif, fEnDHCP, ppp>>

(* tcp_new, and tcp_bind where the program gives an address: it may be any *)
(* and is not looked at.  The block is on no list. *)
Binds(c, ip) ==
    /\ Unused(c)
    /\ local_ip' = [local_ip EXCEPT ![c] = ip]
    /\ UNCHANGED <<netif_list, netif_default, netif, on, late, fEnDHCP, ppp>>

(* The address the block was bound to, or that of the way out: without a   *)
(* route the SYN stays in the queue and the connection has none yet. *)
Source(c) == IF local_ip[c] # IP_ADDR_ANY THEN local_ip[c]
             ELSE IF ip_route = NULL THEN IP_ADDR_ANY ELSE netif[ip_route].ip

(* tcp_connect and the SYN it sends. *)
Connects(c) ==
    /\ Bound(c)
    /\ local_ip' = [local_ip EXCEPT ![c] = Source(c)]
    /\ Listed(c, "active", Source(c))

(* The SYN goes out when the timer sends it again. *)
SentAgain(c) ==
    /\ on[c] = "active" /\ local_ip[c] = IP_ADDR_ANY /\ ip_route # NULL
    /\ local_ip' = [local_ip EXCEPT ![c] = netif[ip_route].ip]
    /\ UNCHANGED <<netif_list, netif_default, netif, on, late, fEnDHCP, ppp>>

(* tcp_listen: a smaller block takes the place of the bound one, and its   *)
(* address, whatever has become of that. *)
Listens(s, c) ==
    /\ Bound(c) /\ Unused(s)
    /\ local_ip' = [local_ip EXCEPT ![s] = local_ip[c], ![c] = Free]
    /\ Listed(s, "listen", local_ip[c])

(* A datagram is for us when an interface that is up has its destination. *)
Ours(ip) == \E n \in ToSet(netif_list) : netif[n].up /\ netif[n].ip = ip /\ ip # IP_ADDR_ANY

(* tcp_listen_input. *)
Accepts(s, c, ip) ==
    /\ Ours(ip) /\ on[s] = "listen" /\ local_ip[s] \in {IP_ADDR_ANY, ip}
    /\ Unused(c)
    /\ local_ip' = [local_ip EXCEPT ![c] = ip]
    /\ Listed(c, "active", ip)

(* The connection goes to tcp_tw_pcbs. *)
TimeWait(c) ==
    /\ on[c] = "active"
    /\ on' = [on EXCEPT ![c] = "tw"] /\ late' = late \ {c}
    /\ UNCHANGED <<netif_list, netif_default, netif, local_ip, fEnDHCP, ppp>>

Ends(c) == /\ local_ip[c] # Free
           /\ local_ip' = [local_ip EXCEPT ![c] = Free]
           /\ on' = [on EXCEPT ![c] = "none"] /\ late' = late \ {c}
           /\ UNCHANGED <<netif_list, netif_default, netif, fEnDHCP, ppp>>

Ethernet == \/ \E up \in BOOLEAN : MacSeesLink(up)
            \/ \E ip \in Addresses : dhcp_bind(ip)
            \/ dhcp_release
            \/ \E ip \in Addresses \cup {IP_ADDR_ANY} : LoadNetIfPara(ip)
            \/ SetNetIfDefaultET

PppNext == \/ pppOpen
           \/ \E ip \in Addresses : ipcp_up(ip)
           \/ ipcp_down
           \/ pppLinkTerminated
           \/ SetNetIfDefaultPPP

TcpNext == \/ \E c \in Conns, ip \in Addresses \cup {IP_ADDR_ANY} : Binds(c, ip)
           \/ \E c \in Conns : Connects(c) \/ SentAgain(c) \/ TimeWait(c)
           \/ \E s \in Servers, c \in Conns : Listens(s, c)
           \/ \E s \in Servers, c \in Conns, ip \in Addresses : Accepts(s, c, ip)
           \/ \E c \in Conns \cup Servers : Ends(c)

NetifNext == Ethernet \/ PppNext \/ TcpNext

NetifSpec == NetifInit /\ [][NetifNext]_netifVars

----------------------------------------------------------------------------
(* An interface is on the list once at most, and what ip_route answers is  *)
(* on it: PPP's only while IPCP is up. *)
RoutesAreListed ==
    /\ Len(netif_list) = Cardinality(ToSet(netif_list))
    /\ ip_route # NULL => ip_route \in ToSet(netif_list)
    /\ ip_route = Ppp => ppp.if_up /\ netif[Ppp].ip = ppp.our

(* No connection that moves data and no listener is left behind at an     *)
(* address the device no longer has, whatever numbers its interfaces were  *)
(* given: only those are at such an address that were bound to it and      *)
(* listed when it was gone already, which nothing in tcp.c asks about. *)
AddressesFollow ==
    \A c \in Conns \cup Servers :
        on[c] \in Walked => local_ip[c] \in {IP_ADDR_ANY} \cup Current \/ c \in late

NetifTypeOK ==
    /\ netif_list \in Seq({Eth, Ppp}) /\ netif_default \in {Eth, Ppp, NULL}
    /\ netif \in [{Eth, Ppp} -> [ip : Addresses \cup {IP_ADDR_ANY}, up : BOOLEAN]]
    /\ local_ip \in [Conns \cup Servers -> Addresses \cup {IP_ADDR_ANY, Free}]
    /\ on \in [Conns \cup Servers -> Walked \cup {"none", "tw"}]
    /\ late \subseteq Conns \cup Servers
    /\ fEnDHCP \in BOOLEAN
    /\ ppp \in [openFlag : BOOLEAN, if_up : BOOLEAN,
                 our : Addresses \cup {IP_ADDR_ANY}, route : BOOLEAN]

(* All of this. *)
RoutesAreSound == NetifTypeOK /\ RoutesAreListed /\ AddressesFollow
=============================================================================
