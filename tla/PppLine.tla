------------------------------ MODULE PppLine -------------------------------
(***************************************************************************)
(* The lines PPP runs on: bytes on a serial line (PppHdlc), one sender and *)
(* one receiver of it, or sessions over an Ethernet (Pppoe) between a unit *)
(* and the access concentrators that answer it.                            *)
(*                                                                         *)
(* Serial: the tcpip thread writes whole frames; pppMain reads what has    *)
(* come, in pieces; the pool is shared with everybody else.                *)
(* Ethernet: the program's thread opens and closes, the driver's task      *)
(* hears, the tcpip thread runs the timers.  Time passes in ticks of       *)
(* PPPOE_DISC_TIMEOUT, when all that is quick has happened.                *)
(***************************************************************************)
EXTENDS PppHdlc, Pppoe

CONSTANTS
    Scenarios,
    OpenTicks,           \* the 121 * 500 ms of pppOverEthernetOpen
    CloseTicks           \* the 30 * 500 ms of pppClose

VARIABLES
    scene,               \* the scenario: what does not change
    tx, wire, rx,        \* the serial line, from sender to receiver
    u,                   \* the unit on the Ethernet
    inside,              \* where each task is in pppoe_destroy: "idle" is nowhere
    opener,              \* the program's thread: [pc, clock, closes]
    acs,                 \* the concentrators
    air, ether,          \* frames to them, and to the unit
    taken,               \* pbufs the rest of the program has
    toSend,              \* packets still to be sent
    sent, got,           \* history: packets sent, and received
    faults,              \* what may still go wrong
    spoilt,              \* history: packets the line may have spoilt, or a delay
    past                 \* history: [met, called, late], see where they are set

serial == <<tx, wire, rx>>
session == <<u, inside, opener, acs, air, ether, past>>
vars == <<scene, serial, session, taken, toSend, sent, got, faults, spoilt>>

ACs == DOMAIN acs
Spend(fault) ==
    /\ faults[fault] > 0
    /\ faults' = [faults EXCEPT ![fault] = @ - 1]

Init ==
    /\ scene \in Scenarios
    /\ tx = ppp_send_config(Unconfigured, scene.escaped, scene.compressed, scene.compressed)
    /\ rx = ppp_recv_config(NoFrame(scene.pool, scene.messages), scene.ignored)
    /\ wire = <<>>
    /\ u = NewUnit(scene.pool, scene.messages)
    /\ inside = [task \in {"program", "tcpip", "driver"} |-> "idle"]
    /\ opener = [pc |-> "idle", clock |-> 0, closes |-> scene.closes]
    /\ acs = [a \in DOMAIN scene.acs |-> [serves |-> scene.acs[a], session |-> 0, next |-> 10 * a]]
    /\ air = <<>> /\ ether = <<>>
    /\ taken = 0
    /\ toSend = scene.packets
    /\ sent = <<>> /\ got = <<>>
    /\ faults = scene.faults
    /\ spoilt = 0
    /\ past = [met |-> FALSE, called |-> FALSE, late |-> FALSE]

----------------------------------------------------------------------------
(* The serial line. *)
Built(packet, idle) ==
    IF packet.proto = PPP_IP THEN pppifOutput(tx, packet.data, idle, rx.free)
    ELSE pppWrite(tx, packet.proto, packet.data, rx.free)

(* A chain that could not be built is freed: nothing is sent. *)
Output ==
    /\ scene.closes = <<>>
    /\ toSend # <<>>
    /\ \E idle \in BOOLEAN :
         LET frame == Built(Head(toSend), idle) IN
         IF frame.ok
         THEN \E cut \in 0..Len(FlattenSeq(frame.bufs)) :
                LET put == nPut(tx, frame.bufs, cut) IN
                /\ IF cut = Len(FlattenSeq(frame.bufs)) THEN UNCHANGED <<faults, spoilt>>
                   ELSE Spend("cut") /\ spoilt' = spoilt + 1
                /\ tx' = put.tx
                /\ wire' = wire \o put.wrote
                /\ sent' = Append(sent, Head(toSend))
         ELSE UNCHANGED <<tx, wire, sent, faults, spoilt>>
    /\ toSend' = Tail(toSend)
    /\ UNCHANGED <<scene, rx, session, taken, got>>

(* pppMain: what sio_read returns. *)
Read ==
    \E n \in {1, Len(wire)} :
      /\ wire # <<>>
      /\ rx' = pppInProc(rx, SubSeq(wire, 1, n))
      /\ wire' = SubSeq(wire, n + 1, Len(wire))
      /\ UNCHANGED <<scene, tx, session, taken, toSend, sent, got, faults, spoilt>>

(* pppInput, in the tcpip thread. *)
Input ==
    /\ rx.posted # <<>>
    /\ LET bufs == Head(rx.posted)
           packet == FlattenSeq(bufs) IN
       /\ rx' = [rx EXCEPT !.posted = Tail(@), !.free = @ + Len(bufs)]
       /\ got' = Append(got, [proto |-> packet[1],
                              data |-> SubSeq(packet, sizeof_pih + 1, Len(packet))])
    /\ UNCHANGED <<scene, tx, wire, session, taken, toSend, sent, faults, spoilt>>

(* A byte is lost or damaged: at most two frames are spoilt. *)
Hit ==
    /\ Spend("hit")
    /\ \E i \in DOMAIN wire :
         wire' \in {RemoveAt(wire, i), [wire EXCEPT ![i] = Xor(@, 1)],
                    [wire EXCEPT ![i] = Xor(@, 32)], [wire EXCEPT ![i] = PPP_FLAG]}
    /\ spoilt' = spoilt + 2
    /\ UNCHANGED <<scene, tx, rx, session, taken, toSend, sent, got>>

(* The modems between put in a byte of the receiver's accm. *)
FlowControl ==
    /\ Spend("inserted")
    /\ \E i \in DOMAIN wire, c \in scene.ignored : wire' = InsertAt(wire, i, c)
    /\ UNCHANGED <<scene, tx, rx, session, taken, toSend, sent, got, spoilt>>

----------------------------------------------------------------------------
(* The unit on the Ethernet: v is what a step of a task makes of it, which  *)
(* may end in pppoe_destroy. *)
Unit(task, v) ==
    /\ u' = [v EXCEPT !.out = <<>>, !.failing = FALSE]
    /\ air' = air \o v.out
    /\ inside' = IF v.failing THEN [inside EXCEPT ![task] = "find"] ELSE inside

(* met: two tasks have found the softc before one has freed it. *)
Destroys(task) ==
    /\ inside[task] \in {"find", "untimeout", "free"}
    /\ LET does == pppoe_destroy(u, inside[task]) IN
       /\ u' = does.unit
       /\ inside' = [inside EXCEPT ![task] = does.next]
       /\ past' = [past EXCEPT !.met = @ \/ (does.next = "untimeout" /\ \E other \in DOMAIN inside :
                                                 inside[other] \in {"untimeout", "free"})]
    /\ UNCHANGED <<scene, serial, opener, acs, air, ether, taken, toSend, sent, got, faults, spoilt>>

Fails(task) ==
    /\ task # "program"
    /\ inside[task] = "out"
    /\ u' = InitFailed(u)
    /\ inside' = [inside EXCEPT ![task] = "idle"]
    /\ UNCHANGED <<scene, serial, opener, acs, air, ether, past, taken, toSend, sent, got, faults, spoilt>>

Waits == opener.pc \in {"opening", "stopping"}
others == <<scene, serial, acs, ether, taken, toSend, sent, got, faults, spoilt>>

pppOverEthernetOpen ==
    /\ opener.pc = "idle"
    /\ opener.closes # <<>>
    /\ LET v == [u EXCEPT !.openFlag = TRUE, !.if_up = FALSE, !.phase = "INITIALIZE"] IN
       IF u.openFlag \/ u.listed
       THEN /\ Unit("program", IF u.openFlag THEN u ELSE [v EXCEPT !.openFlag = FALSE])
            /\ opener' = [opener EXCEPT !.closes = Tail(@)]
       ELSE IF u.free = 0
       THEN /\ Unit("program", lcp_close(pppoe_connect(pppoe_create(v))))
            /\ opener' = [opener EXCEPT !.pc = "stopping", !.clock = 0]
       ELSE /\ Unit("program", pppoe_connect(pppoe_create(v)))
            /\ opener' = [opener EXCEPT !.pc = "opening", !.clock = 0]
    /\ UNCHANGED <<others, past>>

OpenReturns ==
    /\ opener.pc = "opening"
    /\ u.if_up
    /\ opener' = [opener EXCEPT !.pc = "up"]
    /\ UNCHANGED <<others, u, air, inside, past>>

(* The program closes, or pppOverEthernetOpen does: the link is dead, or   *)
(* not up in time. *)
pppClose ==
    /\ \/ opener.pc = "up" /\ Head(opener.closes) = "pppClose"
       \/ opener.pc = "opening" /\ (u.phase = "DEAD" \/ opener.clock = OpenTicks)
    /\ Unit("program", lcp_close(u))
    /\ opener' = [opener EXCEPT !.pc = "stopping", !.clock = 0]
    /\ UNCHANGED <<others, past>>

(* The sleeps of seconds outlast the handlers and the frames under way. *)
Quiet ==
    /\ air = <<>> /\ ether = <<>>
    /\ u.mbox = <<>>
    /\ \A timer \in Range(u.timers \o u.lcp_timer) : timer > 0
    /\ inside.tcpip = "idle" /\ inside.driver = "idle"

pppCloseStops ==
    /\ opener.pc = "stopping"
    /\ u.phase = "DEAD" \/ opener.clock = CloseTicks
    /\ u' = [u EXCEPT !.phase = "DEAD"]
    /\ opener' = [opener EXCEPT !.pc = "sleeping"]
    /\ UNCHANGED <<others, air, inside, past>>

(* Every timer of the tcpip thread goes.  LCP stays what it is.  Frames    *)
(* that are under way where nobody sleeps outlast the unit. *)
clr_timeout ==
    /\ \/ opener.pc \in {"sleeping", "closed"} /\ Quiet
       \/ opener.pc = "dead" /\ inside.tcpip = "idle"
    /\ u' = [u EXCEPT !.timers = <<>>, !.lcp_timer = <<>>]
    /\ opener' = IF opener.pc = "sleeping" THEN [opener EXCEPT !.pc = "leaving"]
                 ELSE [opener EXCEPT !.pc = "idle", !.closes = Tail(@)]
    /\ spoilt' = IF air = <<>> /\ ether = <<>> THEN spoilt ELSE 1
    /\ UNCHANGED <<scene, serial, acs, air, ether, inside, past, taken, toSend, sent, got, faults>>

(* What is left of the unit, 3 s later. *)
pppCloseDestroys ==
    /\ opener.pc = "leaving"
    /\ Quiet
    /\ u.openFlag
    /\ inside' = [inside EXCEPT !.program = "find"]
    /\ opener' = [opener EXCEPT !.pc = "destroying"]
    /\ UNCHANGED <<others, u, air, past>>

CloseReturns ==
    /\ \/ opener.pc = "leaving" /\ Quiet /\ ~u.openFlag
       \/ opener.pc = "destroying" /\ inside.program = "out"
    /\ u' = [u EXCEPT !.openFlag = FALSE]
    /\ inside' = [inside EXCEPT !.program = "idle"]
    /\ opener' = [opener EXCEPT !.pc = "idle", !.closes = Tail(@)]
    /\ UNCHANGED <<others, air, past>>

(* pppoe_destroy follows without waiting for LCP; called remembers it. *)
pppOverEthernetClose ==
    /\ opener.pc = "up"
    /\ Head(opener.closes) = "pppOverEthernetClose"
    /\ IF u.openFlag
       THEN LET v == lcp_close(u) IN
            /\ u' = [v EXCEPT !.out = <<>>]
            /\ air' = air \o v.out
            /\ inside' = [inside EXCEPT !.program = "find"]
            /\ opener' = [opener EXCEPT !.pc = "closing"]
            /\ past' = [past EXCEPT !.called = TRUE]
       ELSE /\ opener' = [opener EXCEPT !.pc = "idle", !.closes = Tail(@)]
            /\ UNCHANGED <<u, air, inside, past>>
    /\ UNCHANGED others

pppOverEthernetCloseSleeps ==
    /\ opener.pc = "closing"
    /\ inside.program = "out"
    /\ inside' = [inside EXCEPT !.program = "idle"]
    /\ u' = [u EXCEPT !.openFlag = FALSE, !.phase = "DEAD"]
    /\ opener' = [opener EXCEPT !.pc = IF u.phase = "DEAD" THEN "dead" ELSE "closed"]
    /\ UNCHANGED <<others, air, past>>

----------------------------------------------------------------------------
(* LCP, in the tcpip thread, as far as it tells on the session. *)
Agreed == InSession(u.sc) /\ \E a \in ACs : u.sc.sc_dest = a /\ acs[a].session = u.sc.sc_session

(* What the peer says about LCP arrives. *)
Hears == u.listed /\ u.sc.sc_state = "SESSION" /\ Agreed

Tcpip(v) ==
    /\ inside.tcpip = "idle"
    /\ Unit("tcpip", v)

LcpUp ==
    /\ u.lcp = "REQSENT" /\ Hears
    /\ Tcpip([u EXCEPT !.lcp = "OPENED", !.lcp_timer = <<>>, !.if_up = TRUE, !.phase = "NETWORK"])
    /\ UNCHANGED <<others, opener, past>>

(* Nobody agrees: the last Configure-Request has not been answered. *)
LcpFails ==
    /\ u.lcp = "REQSENT" /\ u.lcp_timer # <<>>
    /\ Spend("refused")
    /\ Tcpip(link_terminated([u EXCEPT !.lcp = "STOPPED", !.lcp_timer = <<>>]))
    /\ UNCHANGED <<scene, serial, opener, acs, ether, past, taken, toSend, sent, got, spoilt>>

(* fsm_rtermack, for the Terminate-Request this LCP has sent. *)
LcpFinished(v) ==
    link_terminated([v EXCEPT !.lcp = Turned(@, [CLOSING |-> "CLOSED", STOPPING |-> "STOPPED"]),
                              !.lcp_timer = <<>>])
TermAck ==
    /\ u.lcp \in {"CLOSING", "STOPPING"} /\ u.lcp_timer # <<>>
    /\ Hears
    /\ Tcpip(LcpFinished(u))
    /\ UNCHANGED <<others, opener, past>>

fsm_timeout ==
    /\ u.lcp_timer = <<0>>
    /\ LET again == pppWriteOverEthernet([u EXCEPT !.lcp_timer = <<1>>]) IN
       Tcpip(IF u.lcp = "REQSENT" THEN again
             ELSE IF u.retransmits > 0 THEN [again EXCEPT !.retransmits = @ - 1]
             ELSE LcpFinished(u))
    /\ UNCHANGED <<others, opener, past>>

(* pppifOutput: not while the unit is closed or dead. *)
Send ==
    /\ u.if_up
    /\ toSend # <<>>
    /\ Tcpip(IF u.openFlag /\ u.phase # "DEAD" THEN pppifOutputOverEthernet(u, Head(toSend)) ELSE u)
    /\ toSend' = Tail(toSend)
    /\ UNCHANGED <<scene, serial, opener, acs, ether, past, taken, sent, got, faults, spoilt>>

----------------------------------------------------------------------------
(* The driver's task and the tcpip thread. *)
(* late: the session is confirmed when nobody waits for it any more;       *)
(* pppClose does not stop the discovery. *)
Hear ==
    /\ ether # <<>>
    /\ inside.driver = "idle"
    /\ LET f == Head(ether)
           held == [u EXCEPT !.free = @ - f.pbufs]
           v == IF f.code = "DATA" THEN pppoe_data_input(held, f) ELSE pppoe_disc_input(held, f)
       IN Unit("driver", IF u.free < f.pbufs THEN u ELSE [v EXCEPT !.free = @ + f.pbufs])
    /\ past' = [past EXCEPT !.late = @ \/ (u.sc.sc_state # "SESSION" /\ u'.sc.sc_state = "SESSION"
                                          /\ opener.pc # "opening")]
    /\ ether' = Tail(ether)
    /\ UNCHANGED <<scene, serial, opener, acs, taken, toSend, sent, got, faults, spoilt>>

(* fsm_rtermreq.  A unit that is closed answers it through the softc it    *)
(* has freed. *)
TerminateReq(v) ==
    CASE v.lcp \in {"INITIAL", "STARTING"} -> v
      [] v.lcp = "OPENED" ->
           pppWriteOverEthernet([link_down([v EXCEPT !.lcp_timer = <<1>>])
                                    EXCEPT !.lcp = "STOPPING", !.retransmits = 0])
      [] OTHER -> pppWriteOverEthernet(v)

(* pppInput: before PHASE_NETWORK only LCP's own. *)
Deliver ==
    /\ u.mbox # <<>>
    /\ LET n == Head(u.mbox)
           taken1 == [u EXCEPT !.mbox = Tail(@), !.free = @ + 1] IN
       /\ Tcpip(IF n = 0 THEN TerminateReq(taken1) ELSE taken1)
       /\ got' = IF n > 0 /\ u.phase \in {"NETWORK", "TERMINATE"} THEN Append(got, n) ELSE got
    /\ UNCHANGED <<scene, serial, opener, acs, ether, past, taken, toSend, sent, faults, spoilt>>

Timeout ==
    /\ u.timers # <<>> /\ Head(u.timers) = 0
    /\ Tcpip(pppoe_timeout([u EXCEPT !.timers = Tail(@)]))
    /\ UNCHANGED <<others, opener, past>>

(* What takes less than a tick: the poll every 500 ms, LCP. *)
Prompt ==
    \/ ~Quiet
    \/ u.lcp = "REQSENT" /\ Hears
    \/ opener.pc = "opening" /\ (u.if_up \/ u.phase = "DEAD" \/ opener.clock = OpenTicks)
    \/ opener.pc = "stopping" /\ (u.phase = "DEAD" \/ opener.clock = CloseTicks)
    \/ opener.pc \in {"closing", "closed", "dead", "sleeping", "leaving", "destroying"}

Tick ==
    /\ \A timer \in Range(u.timers \o u.lcp_timer) : timer > 0
    /\ u.timers # <<>> \/ u.lcp_timer # <<>> \/ Waits
    /\ IF Prompt THEN Spend("delayed") /\ spoilt' = 1 ELSE UNCHANGED <<faults, spoilt>>
    /\ Waits => opener.clock < OpenTicks
    /\ LET less(timers) == [i \in DOMAIN timers |-> timers[i] - 1] IN
       u' = [u EXCEPT !.timers = less(@), !.lcp_timer = less(@)]
    /\ opener' = [opener EXCEPT !.clock = IF Waits THEN @ + 1 ELSE @]
    /\ UNCHANGED <<scene, serial, inside, acs, air, ether, past, taken, toSend, sent, got>>

----------------------------------------------------------------------------
(* Concentrators: one is silent ("no"), offers and then refuses ("error",  *)
(* "leaves") or opens a session ("yes"); it answers a repeated request with *)
(* the session it has opened. *)
Answer(a, code, number) ==
    [Disc(code, a, number) EXCEPT !.src = a, !.hunique = TRUE, !.pbufs = scene.pbufs]

Asks(a, f) == f.code = "PADR" /\ f.dst = a /\ f.cookie = a

Assigned(a, f) ==
    IF acs[a].session = 0 /\ acs[a].serves = "yes" THEN acs[a].next ELSE acs[a].session

Answers(a, f) ==
    IF f.code = "PADI" /\ acs[a].serves # "no" THEN <<Answer(a, "PADO", 0)>>
    ELSE IF ~Asks(a, f) THEN <<>>
    ELSE IF acs[a].serves = "leaves" THEN <<Answer(a, "PADT", 0)>>
    ELSE <<[Answer(a, "PADS", Assigned(a, f)) EXCEPT !.error = acs[a].serves = "error"]>>

Serve ==
    /\ air # <<>>
    /\ LET f == Head(air) IN
       /\ ether' = ether \o FlattenSeq([a \in ACs |-> Answers(a, f)])
       /\ acs' = [a \in ACs |->
                    IF Asks(a, f)
                    THEN [acs[a] EXCEPT !.session = Assigned(a, f), !.next = Assigned(a, f) + 1]
                    ELSE IF f.code = "PADT" /\ f.dst = a /\ f.session = acs[a].session
                    THEN [acs[a] EXCEPT !.session = 0] ELSE acs[a]]
    /\ air' = Tail(air)
    /\ UNCHANGED <<scene, serial, u, inside, past, opener, taken, toSend, sent, got, faults, spoilt>>

Talk(a) ==
    /\ acs[a].session # 0
    /\ Len(sent) < scene.replies
    /\ sent' = Append(sent, Len(sent) + 1)
    /\ ether' = Append(ether, [Answer(a, "DATA", acs[a].session) EXCEPT !.n = Len(sent) + 1])
    /\ UNCHANGED <<scene, serial, u, inside, past, opener, acs, air, taken, toSend, got, faults, spoilt>>

(* The peer ends what was agreed. *)
Ends(a) ==
    /\ acs[a].session # 0
    /\ Spend("ends")
    /\ ether' = Append(ether, Answer(a, "DATA", acs[a].session))
    /\ UNCHANGED <<scene, serial, u, inside, past, opener, acs, air, taken, toSend, sent, got, spoilt>>

(* One forgets its session: its PADT carries no Host-Uniq. *)
Forget(a) ==
    /\ acs[a].session # 0
    /\ Spend("forgets")
    /\ acs' = [acs EXCEPT ![a].session = 0]
    /\ ether' = Append(ether, [Answer(a, "PADT", acs[a].session) EXCEPT !.hunique = FALSE])
    /\ spoilt' = 1
    /\ UNCHANGED <<scene, serial, u, inside, past, opener, air, taken, toSend, sent, got>>

Lose ==
    /\ Spend("lost")
    /\ \/ air # <<>> /\ air' = Tail(air) /\ UNCHANGED ether
       \/ ether # <<>> /\ ether' = Tail(ether) /\ UNCHANGED air
    /\ UNCHANGED <<scene, serial, u, inside, past, opener, acs, taken, toSend, sent, got, spoilt>>

Double ==
    /\ Spend("doubled")
    /\ ether # <<>> /\ Head(ether).code # "DATA"
    /\ ether' = <<Head(ether)>> \o ether
    /\ UNCHANGED <<scene, serial, u, inside, past, opener, acs, air, taken, toSend, sent, got, spoilt>>

----------------------------------------------------------------------------
(* The rest of the program takes a pbuf, and gives it back. *)
Take ==
    /\ Spend("taken")
    /\ rx.free > 0 /\ u.free > 0
    /\ rx' = [rx EXCEPT !.free = @ - 1]
    /\ u' = [u EXCEPT !.free = @ - 1]
    /\ taken' = taken + 1
    /\ UNCHANGED <<scene, tx, wire, inside, past, opener, acs, air, ether, toSend, sent, got, spoilt>>

Give ==
    /\ taken > 0
    /\ rx' = [rx EXCEPT !.free = @ + 1]
    /\ u' = [u EXCEPT !.free = @ + 1]
    /\ taken' = taken - 1
    /\ UNCHANGED <<scene, tx, wire, inside, past, opener, acs, air, ether, toSend, sent, got, faults, spoilt>>

Open == pppOverEthernetOpen \/ OpenReturns
Close ==
    \/ pppClose \/ pppCloseStops \/ clr_timeout \/ pppCloseDestroys \/ CloseReturns
    \/ pppOverEthernetClose \/ pppOverEthernetCloseSleeps
    \/ \E task \in DOMAIN inside : Destroys(task) \/ Fails(task)
Lcps == LcpUp \/ TermAck \/ fsm_timeout
Serially == Output \/ Read \/ Input
Progress ==
    \/ Open \/ Close \/ Lcps
    \/ Send \/ Hear \/ Deliver \/ Timeout \/ Tick \/ Serve
    \/ \E a \in ACs : Talk(a)
Next ==
    \/ Serially \/ Progress
    \/ Hit \/ FlowControl \/ LcpFails \/ Lose \/ Double \/ Take \/ Give
    \/ \E a \in ACs : Forget(a) \/ Ends(a)

Spec == Init /\ [][Next]_vars
FairSpec == Spec /\ WF_vars(Progress)

----------------------------------------------------------------------------
(* What is received has been sent, as it is and in this order. *)
FramesAreWhole ==
    Len(got) = FoldLeft(LAMBDA k, packet : IF k < Len(got) /\ got[k + 1] = packet
                                           THEN k + 1 ELSE k, 0, sent)

(* A serial line loses no more frames than have been spoilt or have met    *)
(* with a lack of pbufs or messages: none takes another with it. *)
NothingElseIsLost ==
    wire = <<>> /\ rx.posted = <<>> /\ scene.closes = <<>>
        => Len(sent) <= Len(got) + rx.missed + spoilt

(* Every pbuf is in the pool, or held by one who will free it. *)
BuffersBalance ==
    LET posted == FoldLeft(LAMBDA k, bufs : k + Len(bufs), 0, rx.posted) IN
    /\ rx.free + Len(rx.bufs) + posted + taken = scene.pool
    /\ u.free + Len(u.mbox) + taken = scene.pool

(* The session a unit is in is one that the concentrator it sends to has   *)
(* opened for it, unless frames outlast the timers.  (While a connection   *)
(* is given up the softc is CLOSING, with no session.) *)
SessionIsAgreed ==
    /\ u.listed /\ spoilt = 0
    /\ InSession(u.sc) /\ (u.sc.sc_state = "SESSION" \/ u.sc.sc_session # 0)
    => Agreed

(* A unit that is not open has given back its softc, the only one there    *)
(* is, once, and no timer runs for a softc that is gone.  Two tasks that   *)
(* are in pppoe_destroy at once give it back twice. *)
SoftcIsReturned ==
    /\ ~u.openFlag /\ (\A task \in DOMAIN inside : inside[task] = "idle") => ~u.listed
    /\ ~u.listed /\ spoilt = 0 => u.timers = <<>>
    /\ u.twice => past.met

(* Whoever has closed its unit finds LCP ready for the next time, but not  *)
(* after pppOverEthernetClose, and not if the session was confirmed while  *)
(* the unit was being closed. *)
LcpIsReturned ==
    opener.pc = "idle" /\ spoilt = 0 /\ ~past.called /\ ~past.late => u.lcp = "INITIAL" /\ u.lcp_timer = <<>>

(* The line and the pool, and the session with its softc.                  *)
FramesAreSound == FramesAreWhole /\ NothingElseIsLost /\ BuffersBalance
SessionIsSound == SessionIsAgreed /\ SoftcIsReturned /\ LcpIsReturned

(* Three lost frames, whichever, do not keep a unit from coming up where a *)
(* concentrator serves it. *)
OpenComesUp == scene.steady => (opener.pc = "opening" ~> opener.pc = "up")

=============================================================================
