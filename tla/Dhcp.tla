-------------------------------- MODULE Dhcp --------------------------------
(***************************************************************************)
(* The DHCP client, core/dhcp.c, as operators from one interface record to *)
(* the next.  Beside the fields that Etharp uses, an interface n has up,   *)
(* dhcp, xid (the last transaction number, which outlives the client) and  *)
(* coarse (the minutes until the tcpip thread next calls dhcp_coarse_tmr). *)
(*                                                                         *)
(* request_timeout is only whether it will fire, t1 and t2 count calls of  *)
(* dhcp_coarse_tmr, and times are in minutes, renew in half minutes.  A    *)
(* packet of DHCP has a message of DhcpOptions.                            *)
(***************************************************************************)
EXTENDS Etharp, DhcpOptions

CONSTANTS
    MaxSelects,          \* REQUESTs for one offer (5)
    MaxChecks,           \* the tries after which a probe is the last (1)
    MaxRebinds           \* broadcast REQUESTs for one lease (8)

ASSUME DhcpAssumption == {MaxSelects, MaxChecks, MaxRebinds} \subseteq Nat

NoDhcp == [state |-> "none"]
dhcp_zero ==
    [state |-> "OFF", tries |-> 0, timer |-> FALSE, t1 |-> 0, t2 |-> 0, xid |-> 0,
     offered |-> ANY, server |-> ANY, gw |-> ANY,
     lease |-> 0, renew |-> 0, rebind |-> 0]

(* tries is compared with 0 and these bounds only: it stays at the last.   *)
TriesCap == Max({MaxSelects, MaxChecks, MaxRebinds}) + 1

dhcp_set_state(n, state) ==
    IF n.dhcp.state = state THEN n
    ELSE [n EXCEPT !.dhcp.state = state, !.dhcp.tries = 0]

(* A new transaction begins with the first try in a state. *)
dhcp_create_request(n) ==
    LET xid == IF n.dhcp.tries = 0 THEN n.xid + 1 ELSE n.xid IN
    [n EXCEPT !.xid = xid, !.dhcp.xid = xid]

(* UDP and IP add the address that a message comes from. *)
my_dhcp_udp_send(n, p) == etharp_output(n, [p EXCEPT !.sip = n.ip])

(* The message goes to dip. *)
Request(n, kind, dip, opts) ==
    LET m == dhcp_create_request(n) IN
    my_dhcp_udp_send(m, [sip |-> ANY, dip |-> dip, kind |-> "dhcp",
                         msg |-> Written(m.dhcp.xid, m.ip, kind, opts)])
Wanted(addr) == <<Opt("REQUESTED_IP", addr)>>
Parameters == <<Opt("PARAMETER_REQUEST_LIST", {"SUBNET_MASK", "ROUTER", "BROADCAST", "DNS_SERVER"})>>

(* Another try was made: wait for its answer. *)
Tried(n) ==
    [n EXCEPT !.dhcp.tries = IF @ < TriesCap THEN @ + 1 ELSE @, !.dhcp.timer = TRUE]

----------------------------------------------------------------------------
dhcp_discover(n) ==
    LET m == [n EXCEPT !.dhcp.offered = ANY] IN
    Tried(dhcp_set_state(Request(m, "DISCOVER", BROADCAST, Parameters), "SELECTING"))

dhcp_select(n) ==
    Tried(dhcp_set_state(Request(n, "REQUEST", BROADCAST,
                                 Wanted(n.dhcp.offered) \o <<Opt("SERVER_ID", n.dhcp.server)>>
                                 \o Parameters), "REQUESTING"))

(* A probe; the state changes after it is counted. *)
dhcp_check(n) ==
    dhcp_set_state(Tried(etharp_query(n, n.dhcp.offered, NoPacket)), "CHECKING")

dhcp_decline(n) ==
    LET m == dhcp_set_state(n, "BACKING_OFF") IN
    Tried(Request(m, "DECLINE", BROADCAST, Wanted(m.dhcp.offered)))

dhcp_renew(n) ==
    LET m == dhcp_set_state(n, "RENEWING") IN
    Tried(Request(m, "REQUEST", m.dhcp.server, <<>>))

dhcp_rebind(n) ==
    LET m == dhcp_set_state(n, "REBINDING") IN
    Tried(Request(m, "REQUEST", BROADCAST, <<>>))

(* The server's address is forgotten before the message that is meant for  *)
(* it is sent: it is broadcast. *)
dhcp_release(n) ==
    LET off == dhcp_set_state(n, "OFF")
        m == [off EXCEPT !.dhcp.server = ANY, !.dhcp.offered = ANY,
                         !.dhcp.gw = ANY,
                         !.dhcp.lease = 0, !.dhcp.renew = 0, !.dhcp.rebind = 0]
    IN [Tried(Request(m, "RELEASE", ANY, <<>>)) EXCEPT !.up = FALSE, !.ip = ANY, !.gw = ANY]

(* The gateway is the router the server names, or host 1 of the network.   *)
DefaultGw == 1

(* Rounded, and never 0. *)
T1(renew) == Max({1, (renew + 1) \div 2})
T2(rebind) == Max({1, rebind})

dhcp_bind(n) ==
    LET d == n.dhcp IN
    dhcp_set_state(
        [n EXCEPT !.dhcp.t1 = T1(d.renew), !.dhcp.t2 = T2(d.rebind),
                  !.ip = d.offered, !.gw = IF d.gw = ANY THEN DefaultGw ELSE d.gw,
                  !.up = TRUE],
        "BOUND")

(* udp_new and mem_malloc succeed. *)
dhcp_start(n) == dhcp_discover([n EXCEPT !.dhcp = dhcp_zero])
dhcp_stop(n) == [n EXCEPT !.dhcp = NoDhcp]

----------------------------------------------------------------------------
(* What is received.  An answer to another transaction is dropped, an      *)
(* offer that does not say who makes it is not taken up. *)
dhcp_handle_offer(n, m) ==
    LET server == dhcp_get_option_ptr(m, "SERVER_ID")
    IN  IF server = Absent THEN n
        ELSE dhcp_select([n EXCEPT !.dhcp.server = server, !.dhcp.offered = m.yi])

dhcp_handle_ack(n, m) ==
    LET lease == OptionOr(m, "LEASE_TIME", n.dhcp.lease)
        t1 == dhcp_get_option_ptr(m, "T1")
    IN  [n EXCEPT !.dhcp.lease = lease, !.dhcp.renew = IF t1 = Absent THEN lease ELSE 2 * t1,
                  !.dhcp.rebind = OptionOr(m, "T2", lease), !.dhcp.offered = m.yi,
                  !.dhcp.gw = OptionOr(m, "ROUTER", ANY)]

(* Mutant of dhcp_handle_nak: no time is set after which to start again.   *)
NakForGood(n) == dhcp_set_state([n EXCEPT !.dhcp.timer = FALSE], "BACKING_OFF")

(* The address stays in use. *)
dhcp_handle_nak(n) == dhcp_set_state([n EXCEPT !.dhcp.timer = TRUE], "BACKING_OFF")

(* Mutant of dhcp_ack: what the server grants is not looked at. *)
AckUnchecked(n, m) ==
    LET quiet == [n EXCEPT !.dhcp.timer = FALSE] IN
    CASE n.dhcp.state = "REQUESTING" -> dhcp_bind(dhcp_handle_ack(quiet, m))
      [] n.dhcp.state \in {"RENEWING", "REBINDING"} -> dhcp_bind(quiet)
      [] OTHER -> n

dhcp_ack(n, m) ==
    LET quiet == [n EXCEPT !.dhcp.timer = FALSE] IN
    CASE n.dhcp.state = "REQUESTING" -> dhcp_check(dhcp_handle_ack(quiet, m))
      [] n.dhcp.state \in {"RENEWING", "REBINDING"} -> dhcp_bind(quiet)
      [] OTHER -> n

dhcp_recv(n, p) ==
    LET state == n.dhcp.state
        m == dhcp_unfold_reply(p)
        type == dhcp_get_option_ptr(m, "MESSAGE_TYPE")
    IN CASE n.dhcp.xid # m.xid -> n
         [] n.dhcp.xid = m.xid /\ type = "ACK" -> dhcp_ack(n, m)
         [] /\ n.dhcp.xid = m.xid /\ type = "NAK"
            /\ state \in {"REQUESTING", "RENEWING", "REBINDING"} -> dhcp_handle_nak(n)
         [] n.dhcp.xid = m.xid /\ type = "OFFER" /\ state = "SELECTING" ->
                dhcp_handle_offer([n EXCEPT !.dhcp.timer = FALSE], m)
         [] OTHER -> n

(* Someone has the address that is being checked. *)
dhcp_arp_reply(n, addr) ==
    IF n.dhcp.state = "CHECKING" /\ n.dhcp.offered = addr THEN dhcp_decline(n) ELSE n

----------------------------------------------------------------------------
(* Timers. *)
dhcp_timeout(n) ==
    LET m == [n EXCEPT !.dhcp.timer = FALSE]
        tries == n.dhcp.tries
    IN CASE n.dhcp.state \in {"BACKING_OFF", "SELECTING"} -> dhcp_discover(m)
         [] n.dhcp.state = "REQUESTING" ->
                IF tries <= MaxSelects THEN dhcp_select(m) ELSE dhcp_discover(dhcp_release(m))
         [] n.dhcp.state = "CHECKING" ->
                IF tries <= MaxChecks THEN dhcp_check(m) ELSE dhcp_bind(m)
         [] n.dhcp.state = "RENEWING" -> dhcp_renew(m)
         [] n.dhcp.state = "REBINDING" ->
                IF tries <= MaxRebinds THEN dhcp_rebind(m) ELSE dhcp_discover(dhcp_release(m))
         [] OTHER -> m

Renewable == {"REQUESTING", "BOUND", "RENEWING"}
dhcp_t1_timeout(n) == IF n.dhcp.state \in Renewable THEN dhcp_renew(n) ELSE n
dhcp_t2_timeout(n) == IF n.dhcp.state \in Renewable THEN dhcp_rebind(n) ELSE n

(* A counter that is 0 goes on at 65535: here it stays. *)
Down1(t) == IF t = 0 THEN 0 ELSE t - 1

dhcp_coarse_tmr(n) ==
    LET d == n.dhcp
        m == [n EXCEPT !.dhcp.t2 = Down1(@)]
    IN CASE d = NoDhcp -> n
         [] d # NoDhcp /\ d.t2 = 1 -> dhcp_t2_timeout(m)
         [] d # NoDhcp /\ d.t2 # 1 /\ d.t1 = 1 -> dhcp_t1_timeout([m EXCEPT !.dhcp.t1 = 0])
         [] OTHER -> [m EXCEPT !.dhcp.t1 = Down1(@)]

=============================================================================
