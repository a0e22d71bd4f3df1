------------------------------- MODULE Pppoe --------------------------------
(***************************************************************************)
(* PPP over Ethernet (netif/ppp/ppp_oe.c) and what pppif2.c and auth.c do  *)
(* around it, as operators from one unit to the next.  A unit u has        *)
(*   sc       its pppoe_softc: what its block holds, which pc->pppoe_sc    *)
(*            points to for good; listed says that it is in use,           *)
(*   timers   the ticks until each pppoe_timeout, 0 for the 20 ms of       *)
(*            pppoe_disconnect (a tick is PPPOE_DISC_TIMEOUT),             *)
(*   lcp      LCP's state, of which PppFsm has the detail: REQSENT is      *)
(*            ACKRCVD and ACKSENT too,                                     *)
(*   lcp_timer  the ticks until fsm_timeout, at most one number: its 6 s   *)
(*            are due within the second tick,                              *)
(*   retransmits  the Terminate-Requests still to be sent,                 *)
(*   failing  a step has come to the pppoe_destroy of InitFailed,          *)
(*   twice    history: the block has been freed while it was free,         *)
(*   phase, openFlag, if_up, free (pbufs), messages (tcpip_callback's),    *)
(*   mbox     what it has handed to the tcpip thread,                      *)
(*   out      the frames it sends in this step.                            *)
(* Host-Uniq is the softc's address: there being one block, that of every  *)
(* softc the unit has had.                                                 *)
(***************************************************************************)
EXTENDS Integers, Sequences, SequencesExt

CONSTANTS
    PPPOE_DISC_MAXPADI,
    PPPOE_DISC_MAXPADR,
    FSM_DEFMAXTERMREQS

ASSUME PppoeAssumption ==
    {PPPOE_DISC_MAXPADI, PPPOE_DISC_MAXPADR, FSM_DEFMAXTERMREQS} \subseteq Nat \ {0}

ethbroadcast == 0
NoSoftc == [sc_state |-> "none"]

NewUnit(free, messages) ==
    [sc |-> NoSoftc, listed |-> FALSE, timers |-> <<>>, lcp |-> "INITIAL", lcp_timer |-> <<>>,
     retransmits |-> 0, phase |-> "INITIALIZE", openFlag |-> FALSE, if_up |-> FALSE,
     failing |-> FALSE, twice |-> FALSE,
     free |-> free, messages |-> messages, mbox |-> <<>>, out |-> <<>>]

InSession(sc) == sc.sc_state \in {"SESSION", "CLOSING"}      \* >= PPPOE_STATE_SESSION

sys_timeout(u, ticks) ==
    [u EXCEPT !.timers = SortSeq(Append(@, ticks), LAMBDA x, y: x < y)]
sys_untimeout(u) == [u EXCEPT !.timers = IF @ = <<>> THEN @ ELSE Tail(@)]

(* Each frame takes one pbuf, free again when it has been sent. *)
pppoe_output(u, frame) ==
    IF u.free = 0 THEN u
    ELSE [u EXCEPT !.out = Append(@, [frame EXCEPT !.dst = u.sc.sc_dest])]

Disc(code, cookie, session) ==
    [code |-> code, dst |-> ethbroadcast, src |-> 0, hunique |-> code # "PADT",
     cookie |-> cookie, session |-> session, error |-> FALSE, pbufs |-> 1, n |-> 0]

pppoe_send_padi(u) == pppoe_output(u, Disc("PADI", 0, 0))
pppoe_send_padr(u) == pppoe_output(u, Disc("PADR", u.sc.sc_ac_cookie, 0))
pppoe_send_padt(u) == pppoe_output(u, Disc("PADT", 0, u.sc.sc_session))

(* The caller's pbufs go with the one for the header, sent or not.  While  *)
(* CLOSING the frame gets the type of discovery.  Nothing asks whether the  *)
(* softc is still the unit's. *)
pppoe_xmit(u, n) ==
    IF ~InSession(u.sc) THEN u
    ELSE pppoe_output(u, [Disc("DATA", 0, u.sc.sc_session) EXCEPT
                             !.n = n, !.error = u.sc.sc_state # "SESSION"])

pppifOutputOverEthernet(u, n) == pppoe_xmit(u, n)
pppWriteOverEthernet(u) == pppoe_xmit(u, 0)

----------------------------------------------------------------------------
pppoe_create(u) ==
    [u EXCEPT !.listed = TRUE, !.sc = [sc_state |-> "INITIAL", sc_dest |-> ethbroadcast, sc_session |-> 0,
                      sc_ac_cookie |-> 0, padi_retried |-> 0, padr_retried |-> 0]]

Step(unit, next) == [unit |-> unit, next |-> next]

(* Mutant: the timer stays. *)
DestroyOnly(u, step) ==
    CASE step = "find" -> Step(u, IF u.listed THEN "free" ELSE "out")
      [] step = "free" -> Step([u EXCEPT !.listed = FALSE, !.twice = @ \/ ~u.listed], "out")

(* Nothing keeps a second task out: each goes on with the softc it has     *)
(* found, unlinks it and frees it. *)
pppoe_destroy(u, step) ==
    CASE step = "find" -> Step(u, IF u.listed THEN "untimeout" ELSE "out")
      [] step = "untimeout" -> Step(sys_untimeout(u), "free")
      [] step = "free" -> Step([u EXCEPT !.listed = FALSE, !.twice = @ \/ ~u.listed], "out")

(* Whether it could be sent or not, there is a timer; its own answer,      *)
(* ERR_MEM, is below 0. *)
pppoe_connect(u) ==
    sys_timeout(pppoe_send_padi([u EXCEPT !.sc.sc_state = "PADI_SENT",
                                          !.sc.padr_retried = 0]), 1)

pppoe_disconnect(u) ==
    IF ~InSession(u.sc) THEN u ELSE sys_timeout([u EXCEPT !.sc.sc_state = "CLOSING"], 0)

----------------------------------------------------------------------------
(* PPP above it. *)
pppLinkDown(u) == pppoe_disconnect(u)
pppLinkTerminated(u) == pppoe_disconnect(u)

link_down(u) ==
    pppLinkDown([u EXCEPT !.if_up = FALSE, !.phase = IF @ = "DEAD" THEN @ ELSE "TERMINATE"])

link_terminated(u) ==
    IF u.phase = "DEAD" THEN u ELSE pppLinkTerminated([u EXCEPT !.phase = "DEAD"])

Turned(state, to) == IF state \in DOMAIN to THEN to[state] ELSE state

TermReq(u) == [pppWriteOverEthernet(u) EXCEPT !.lcp_timer = <<1>>]

(* pppStopCB; the Terminate-Request follows what lcp_down does. *)
lcp_close(u) ==
    LET ending == [u EXCEPT !.phase = IF @ = "DEAD" THEN @ ELSE "TERMINATE",
                            !.retransmits = FSM_DEFMAXTERMREQS - 1] IN
    CASE u.lcp = "OPENED" -> [TermReq(link_down(ending)) EXCEPT !.lcp = "CLOSING"]
      [] u.lcp = "REQSENT" -> [TermReq(ending) EXCEPT !.lcp = "CLOSING"]
      [] OTHER ->
           [ending EXCEPT !.retransmits = u.retransmits,
                          !.lcp = Turned(@, [STARTING |-> "INITIAL", STOPPED |-> "CLOSED",
                                             STOPPING |-> "CLOSING"])]

lcp_lowerdown(u) ==
    LET down == [u EXCEPT !.lcp_timer = <<>>,
                          !.lcp = Turned(@, [CLOSED |-> "INITIAL", CLOSING |-> "INITIAL",
                                             STOPPED |-> "STARTING", STOPPING |-> "STARTING",
                                             REQSENT |-> "STARTING", OPENED |-> "STARTING"])]
    IN IF u.lcp = "OPENED" THEN link_down(down) ELSE down

pppHupCB(u) == link_terminated(lcp_lowerdown(u))

(* lcp_lowerup and lcp_open: an LCP that was left CLOSING goes to STOPPING, *)
(* and sends nothing. *)
pppStartCB(u) ==
    LET starts == u.lcp \in {"INITIAL", "STARTING", "CLOSED"}
        opened == [u EXCEPT !.phase = "ESTABLISH"] IN
    IF starts
    THEN [pppWriteOverEthernet(opened) EXCEPT !.lcp = "REQSENT", !.lcp_timer = <<1>>]
    ELSE [opened EXCEPT !.lcp = Turned(@, [CLOSING |-> "STOPPING"])]

(* Mutant: the softc is kept for the next time. *)
FailedKeeping(u) == [lcp_close(pppHupCB(u)) EXCEPT !.openFlag = FALSE]

(* pppoe_destroy and what comes after it are steps of their own. *)
pppOverEthernetInitFailed(u) == [lcp_close(pppHupCB(u)) EXCEPT !.failing = TRUE]

(* openFlag, and what the three callers of the callback still write to the *)
(* softc it has freed. *)
InitFailed(u) ==
    [u EXCEPT !.openFlag = FALSE, !.sc.sc_state = "INITIAL", !.sc.sc_dest = ethbroadcast,
              !.sc.sc_ac_cookie = 0, !.sc.sc_session = 0]

pppOverEthernetLinkStatusCB(u, up) ==
    IF up THEN pppStartCB(u) ELSE pppOverEthernetInitFailed(u)

----------------------------------------------------------------------------
(* Timers. *)
pppoe_do_disconnect(u) ==
    LET told == IF InSession(u.sc) THEN pppoe_send_padt(u) ELSE u
    IN pppOverEthernetLinkStatusCB(
           [told EXCEPT !.sc.sc_state = "INITIAL", !.sc.sc_dest = ethbroadcast,
                        !.sc.sc_ac_cookie = 0, !.sc.sc_session = 0], FALSE)

pppoe_abort_connect(u) ==
    pppOverEthernetLinkStatusCB([u EXCEPT !.sc.sc_state = "CLOSING"], FALSE)

(* No pbuf to send it with: it does not count as a try. *)
PadiTimeout(u) ==
    LET tried == [u EXCEPT !.sc.padi_retried = @ + 1]
        sent == pppoe_send_padi(tried) IN
    IF tried.sc.padi_retried >= PPPOE_DISC_MAXPADI THEN pppoe_abort_connect(tried)
    ELSE sys_timeout([sent EXCEPT !.sc.padi_retried = IF u.free = 0 THEN @ - 1 ELSE @],
                     1 + u.sc.padi_retried)

(* Mutant: the Request is repeated once. *)
RequestTwice(u) ==
    LET tried == [u EXCEPT !.sc.padr_retried = @ + 1] IN
    IF tried.sc.padr_retried >= PPPOE_DISC_MAXPADR THEN u ELSE sys_timeout(pppoe_send_padr(tried), 2)

PadrTimeout(u) ==
    LET tried == [u EXCEPT !.sc.padr_retried = @ + 1]
        again == [u EXCEPT !.sc.sc_dest = ethbroadcast, !.sc.sc_state = "PADI_SENT",
                           !.sc.padr_retried = 0]
        kept == [pppoe_send_padr(tried) EXCEPT
                    !.sc.padr_retried = IF u.free = 0 THEN @ - 1 ELSE @] IN
    IF tried.sc.padr_retried >= PPPOE_DISC_MAXPADR
    THEN sys_timeout(pppoe_send_padi(again), 1 + u.sc.padi_retried)
    ELSE sys_timeout(kept, 1 + kept.sc.padr_retried)

pppoe_timeout(u) ==
    CASE u.sc.sc_state = "PADI_SENT" -> PadiTimeout(u)
      [] u.sc.sc_state = "PADR_SENT" -> PadrTimeout(u)
      [] u.sc.sc_state = "CLOSING" -> pppoe_do_disconnect(u)
      [] OTHER -> u

----------------------------------------------------------------------------
(* Input. *)
pppoe_find_softc_by_hunique(u, f) ==
    f.hunique /\ u.listed /\ u.sc.sc_state \in {"PADI_SENT", "PADR_SENT"}
pppoe_find_softc_by_session(u, session) ==
    session # 0 /\ u.listed /\ u.sc.sc_state = "SESSION" /\ u.sc.sc_session = session

(* Mutant: an offer is taken while another has been asked for. *)
AnyOffer(u, f) ==
    sys_timeout(pppoe_send_padr([sys_untimeout(u) EXCEPT
                    !.sc.sc_ac_cookie = f.cookie, !.sc.sc_dest = f.src,
                    !.sc.padr_retried = 0, !.sc.sc_state = "PADR_SENT"]), 1)

Offered(u, f) ==
    IF u.sc.sc_state # "PADI_SENT" THEN u
    ELSE sys_timeout(pppoe_send_padr([sys_untimeout(u) EXCEPT
                         !.sc.sc_ac_cookie = IF f.cookie = 0 THEN @ ELSE f.cookie,
                         !.sc.sc_dest = f.src, !.sc.padr_retried = 0,
                         !.sc.sc_state = "PADR_SENT"]), 1)

Confirmed(u, f) ==
    pppOverEthernetLinkStatusCB([sys_untimeout(u) EXCEPT !.sc.sc_session = f.session,
                                                         !.sc.sc_state = "SESSION"], TRUE)

pppoe_clear_softc(u) ==
    pppOverEthernetLinkStatusCB([sys_untimeout(u) EXCEPT !.sc.sc_state = "INITIAL"], FALSE)

pppoe_dispatch_disc_pkt(u, f) ==
    IF f.error \/ ~pppoe_find_softc_by_hunique(u, f) THEN u
    ELSE CASE f.code = "PADO" -> Offered(u, f)
           [] f.code = "PADS" -> Confirmed(u, f)
           [] f.code = "PADT" -> pppoe_clear_softc(u)
           [] OTHER -> u

(* A frame in more than one pbuf is copied to one; if that fails it is too *)
(* short for what its header says, and dropped. *)
pppSingleBuf(u, f) == f.pbufs = 1 \/ u.free > 0

pppoe_disc_input(u, f) ==
    IF u.listed /\ pppSingleBuf(u, f) THEN pppoe_dispatch_disc_pkt(u, f) ELSE u

(* Mutant: the frame is handed on, and freed. *)
HandOnAndFree(u, f) ==
    IF Len(u.mbox) = u.messages THEN u ELSE [u EXCEPT !.mbox = Append(@, f.n)]

pppInProcOverEthernet(u, f) ==
    IF Len(u.mbox) = u.messages THEN u
    ELSE [u EXCEPT !.mbox = Append(@, f.n), !.free = @ - 1]

(* u.free is what is left while the driver holds the frame; all of it but  *)
(* the copy that is handed on is free again afterwards. *)
pppoe_data_input(u, f) ==
    IF pppSingleBuf(u, f) /\ pppoe_find_softc_by_session(u, f.session)
    THEN pppInProcOverEthernet(u, f) ELSE u

=============================================================================
