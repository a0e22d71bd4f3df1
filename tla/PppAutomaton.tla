---------------------------- MODULE PppAutomaton ----------------------------
(***************************************************************************)
(* The other half of netif/ppp/fsm.c: what a PPP automaton does when its   *)
(* timer runs out and when a packet comes.  The fsm_callbacks of the       *)
(* machine are the module's constants; PppLink instantiates it for LCP     *)
(* and for IPCP.                                                           *)
(***************************************************************************)
EXTENDS PppFsm

CONSTANTS
    Cb(_, _),        \* the unit after "up", "down" or "finished"
    Nakci(_, _, _),  \* what a Configure-Nak of some options does
    Ext(_, _)        \* the codes that only this protocol knows

fsm_timeout(u, k) ==
    LET v == UNTIMEOUT(u, k)
        id == UChar(u[k].id + 1)
        patient == k = "lcp" /\ u.conf.passive
        stopped == To(v, k, IF u[k].state = "CLOSING" THEN "CLOSED" ELSE "STOPPED")
    IN CASE u[k].state \in {"CLOSING", "STOPPING"} ->
                IF u[k].retransmits <= 0 THEN Cb(stopped, "finished")
                ELSE TIMEOUT(fsm_sdata([v EXCEPT ![k].reqid = id, ![k].id = id,
                                                 ![k].retransmits = @ - 1],
                                       k, "TERMREQ", id, {}), k)
         [] u[k].state \in Negotiating ->
                IF u[k].retransmits <= 0
                THEN IF patient THEN stopped ELSE Cb(stopped, "finished")
                ELSE LET w == fsm_sconfreq(v, k, TRUE) IN
                     IF u[k].state = "ACKRCVD" THEN To(w, k, "REQSENT") ELSE w
         [] OTHER -> v

(* A peer that asks again when all is agreed starts the negotiation anew;  *)
(* the state stays OPENED until its request has been looked at. *)
fsm_rconfreq(u, k, f) ==
    LET start == CASE u[k].state = "OPENED" -> sconfreq(Cb(u, "down"), k)
                   [] u[k].state = "STOPPED" -> To(sconfreq(u, k), k, "REQSENT")
                   [] OTHER -> u
        r == reqci(start, k, f.data, start[k].nakloops >= MaxNakLoops)
        answered == fsm_sdata(r.u, k, r.ans.v, f.id, r.ans.cis)
        settled == [answered EXCEPT ![k].nakloops = 0]
    IN CASE u[k].state = "CLOSED" -> fsm_sdata(u, k, "TERMACK", f.id, {})
         [] u[k].state \in {"CLOSING", "STOPPING"} -> u
         [] OTHER ->
                IF r.ans.v = "CONFACK"
                THEN IF start[k].state = "ACKRCVD"
                     THEN Cb(To(UNTIMEOUT(settled, k), k, "OPENED"), "up")
                     ELSE To(settled, k, "ACKSENT")
                ELSE LET w == IF r.ans.v = "CONFNAK"
                              THEN [answered EXCEPT ![k].nakloops = @ + 1] ELSE answered
                     IN IF start[k].state = "ACKRCVD" THEN w ELSE To(w, k, "REQSENT")

(* An answer counts once, and only the answer to the last request. *)
Awaited(u, k, f) == f.id = u[k].reqid /\ ~u[k].seen_ack

fsm_rconfack(u, k, f) ==
    LET v == [u EXCEPT ![k].seen_ack = TRUE]
        w == [v EXCEPT ![k].retransmits = MaxConfReqs]
    IN CASE ~Awaited(u, k, f) \/ ~ackci(u, k, f.data) -> u
         [] u[k].state \in {"CLOSED", "STOPPED"} -> fsm_sdata(v, k, "TERMACK", f.id, {})
         [] u[k].state = "REQSENT" -> To(w, k, "ACKRCVD")
         [] u[k].state = "ACKRCVD" -> To(sconfreq(v, k), k, "REQSENT")
         [] u[k].state = "ACKSENT" -> Cb(To(UNTIMEOUT(w, k), k, "OPENED"), "up")
         [] u[k].state = "OPENED" -> To(sconfreq(Cb(v, "down"), k), k, "REQSENT")
         [] OTHER -> v

fsm_rconfnakrej(u, k, f) ==
    LET proc == IF f.code = "CONFNAK" THEN Nakci(u, k, f.data) ELSE rejci(u, k, f.data)
        v == [proc.u EXCEPT ![k].seen_ack = TRUE]
    IN CASE ~Awaited(u, k, f) \/ ~proc.ok -> u
         [] v[k].state \in {"CLOSED", "STOPPED"} -> fsm_sdata(v, k, "TERMACK", f.id, {})
         [] v[k].state \in {"REQSENT", "ACKSENT"} -> sconfreq(v, k)
         [] v[k].state = "ACKRCVD" -> To(sconfreq(v, k), k, "REQSENT")
         [] v[k].state = "OPENED" -> To(sconfreq(Cb(v, "down"), k), k, "REQSENT")
         [] OTHER -> v

fsm_rtermreq(u, k, f) ==
    LET v == CASE u[k].state \in {"ACKRCVD", "ACKSENT"} -> To(u, k, "REQSENT")
               [] u[k].state = "OPENED" ->
                      TIMEOUT([Cb(u, "down") EXCEPT ![k].retransmits = 0,
                                                    ![k].state = "STOPPING"], k)
               [] OTHER -> u
    IN fsm_sdata(v, k, "TERMACK", f.id, {})

(* In OPENED the code goes down and asks again, and stays OPENED. *)
fsm_rtermack(u, k) ==
    CASE u[k].state = "CLOSING" -> Cb(To(UNTIMEOUT(u, k), k, "CLOSED"), "finished")
      [] u[k].state = "STOPPING" -> Cb(To(UNTIMEOUT(u, k), k, "STOPPED"), "finished")
      [] u[k].state = "ACKRCVD" -> To(u, k, "REQSENT")
      [] u[k].state = "OPENED" -> sconfreq(Cb(u, "down"), k)
      [] OTHER -> u

fsm_rcoderej(u, k) == IF u[k].state = "ACKRCVD" THEN To(u, k, "REQSENT") ELSE u

fsm_input(u, k, f) ==
    CASE u[k].state \in {"INITIAL", "STARTING"} -> u
      [] f.code = "CONFREQ" -> fsm_rconfreq(u, k, f)
      [] f.code = "CONFACK" -> fsm_rconfack(u, k, f)
      [] f.code \in {"CONFNAK", "CONFREJ"} -> fsm_rconfnakrej(u, k, f)
      [] f.code = "TERMREQ" -> fsm_rtermreq(u, k, f)
      [] f.code = "TERMACK" -> fsm_rtermack(u, k)
      [] f.code = "CODEREJ" -> fsm_rcoderej(u, k)
      [] OTHER -> Ext(u, f)

=============================================================================
