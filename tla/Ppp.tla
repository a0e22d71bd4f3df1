-------------------------------- MODULE Ppp ---------------------------------
(***************************************************************************)
(* PPP units at the ends of serial lines (netif/ppp/pppif2.c over PppLink):*)
(* the thread that called pppOpen without a status callback and waits, the *)
(* thread pppMain that reads the line, the tcpip thread with its timers.   *)
(*                                                                         *)
(* wire[i] holds the frames i has sent, first to last; the line loses some *)
(* and reorders none.  tcpip_callback is a queue as well: what pppMain     *)
(* hands over is part of the wire here, and handed over and executed in    *)
(* one step.  The seconds pppClose sleeps are time enough for pppMain to   *)
(* end and for the tcpip thread to empty its queue.                        *)
(*                                                                         *)
(* A timer runs out when the lines are silent, or, faults.early times, while *)
(* frames are still on their way.                                          *)
(***************************************************************************)
EXTENDS PppLink

CONSTANTS
    Units,
    Scenarios            \* what the units are set to, and what befalls them:
                         \* conf: unit -> u.conf; opens: unit -> how often its
                         \* program calls pppOpen; faults: how many frames are
                         \* lost, timers early, carriers lost, units restarted

VARIABLES
    unit,                \* the record of each unit
    wire,
    user,                \* the program: "down", "opening", "up", "closing"
    main,                \* the thread that runs pppMain: "off" while it has nothing to
                         \* run, "start", "loop", "ended"
    kill_link, sig_hup,
    opens,               \* calls of pppOpen to come
    faults,              \* faults to come: lost, early, hups, crashes
    undisturbed          \* no fault, no close and no timer so far

threads == <<user, main, kill_link, sig_hup>>
vars == <<unit, wire, threads, opens, faults, undisturbed>>

Peer(i) == unit[i].conf.peer
Sender(i) == CHOOSE j \in Units : Peer(j) = i
Timers == {"lcp", "ipcp", "pap", "papreq", "challenge", "response", "echo"}

Init ==
    /\ \E s \in Scenarios : /\ unit = [i \in Units |-> pppInit(s.conf[i])]
                            /\ opens = s.opens
                            /\ faults = s.faults
    /\ wire = [i \in Units |-> <<>>]
    /\ user = [i \in Units |-> "down"]
    /\ main = [i \in Units |-> "off"]
    /\ kill_link = [i \in Units |-> FALSE]
    /\ sig_hup = [i \in Units |-> FALSE]
    /\ undisturbed = TRUE

(* The unit's next record goes to its place, what it sends to its line. *)
pppWrite(i, u, w) ==
    /\ wire' = [w EXCEPT ![i] = @ \o u.out]
    /\ unit' = [unit EXCEPT ![i] =
                   [u EXCEPT !.out = <<>>,
                             !.magic = IF u.out = <<>> THEN @ ELSE u.conf.magics[2]]]

Disturb == undisturbed' = FALSE
Spend(fault) ==
    /\ faults[fault] > 0
    /\ faults' = [faults EXCEPT ![fault] = @ - 1]

----------------------------------------------------------------------------
(* There is one thread for pppMain, created once and kept: it looks for     *)
(* something to run, runs it, and forgets it.  What it is given in between  *)
(* is forgotten too. *)
sys_thread_new(i) ==
    main' = [main EXCEPT ![i] = IF @ = "ended" THEN @ ELSE "start"]

MonitorPppMain(i) ==
    /\ main[i] = "ended"
    /\ main' = [main EXCEPT ![i] = "off"]
    /\ UNCHANGED <<unit, wire, user, kill_link, sig_hup, opens, faults, undisturbed>>

(* The program. *)
pppOpen(i) ==
    /\ user[i] = "down"
    /\ opens[i] > 0
    /\ ~unit[i].openFlag
    /\ opens' = [opens EXCEPT ![i] = @ - 1]
    /\ unit' = [unit EXCEPT ![i].openFlag = TRUE, ![i].lcp = fsm_init(@),
                            ![i].phase = "INITIALIZE", ![i].if_up = FALSE]
    /\ kill_link' = [kill_link EXCEPT ![i] = FALSE]
    /\ sig_hup' = [sig_hup EXCEPT ![i] = FALSE]
    /\ sys_thread_new(i)
    /\ user' = [user EXCEPT ![i] = "opening"]
    /\ UNCHANGED <<wire, faults, undisturbed>>

OpenSucceeds(i) ==
    /\ user[i] = "opening"
    /\ unit[i].if_up
    /\ user' = [user EXCEPT ![i] = "up"]
    /\ UNCHANGED <<unit, wire, main, kill_link, sig_hup, opens, faults, undisturbed>>

(* The program closes, or pppOpen does because the link is dead. *)
pppClose(i) ==
    /\ \/ user[i] = "up" /\ Disturb
       \/ user[i] = "opening" /\ unit[i].phase = "DEAD" /\ UNCHANGED undisturbed
    /\ kill_link' = [kill_link EXCEPT ![i] = TRUE]
    /\ user' = [user EXCEPT ![i] = "closing"]
    /\ UNCHANGED <<unit, wire, main, sig_hup, opens, faults>>

(* clr_timeout empties the tcpip thread's list of timeouts. *)
clr_timeout(u) ==
    [u EXCEPT !.lcp.timer = FALSE, !.ipcp.timer = FALSE, !.pap.timeout = FALSE,
              !.pap.reqtimeout = FALSE, !.chap.challenge = FALSE,
              !.chap.response = FALSE, !.echo = FALSE]

pppCloseReturns(i) ==
    /\ user[i] = "closing"
    /\ unit[i].phase = "DEAD"
    /\ main[i] = "off"
    /\ unit' = [unit EXCEPT ![i] = clr_timeout(@)]
    /\ user' = [user EXCEPT ![i] = "down"]
    /\ UNCHANGED <<wire, main, kill_link, sig_hup, opens, faults, undisturbed>>

(* The carrier is lost: the caller runs the callback itself and leaves a   *)
(* note for pppMain, which has it run again. *)
pppSigHUP(i) ==
    /\ main[i] \in {"start", "loop"}
    /\ Spend("hups")
    /\ pppWrite(i, pppHupCB(unit[i]), wire)
    /\ sig_hup' = [sig_hup EXCEPT ![i] = TRUE]
    /\ Disturb
    /\ UNCHANGED <<user, main, kill_link, opens>>

----------------------------------------------------------------------------
(* pppMain, and the tcpip thread for it. *)
MainStarts(i) ==
    /\ main[i] = "start"
    /\ main' = [main EXCEPT ![i] = "loop"]
    /\ pppWrite(i, pppStartCB(unit[i]), wire)
    /\ UNCHANGED <<user, kill_link, sig_hup, opens, faults, undisturbed>>

MainKills(i) ==
    /\ main[i] = "loop"
    /\ unit[i].phase # "DEAD"
    /\ kill_link[i]
    /\ kill_link' = [kill_link EXCEPT ![i] = FALSE]
    /\ pppWrite(i, pppStopCB(unit[i]), wire)
    /\ UNCHANGED <<user, main, sig_hup, opens, faults, undisturbed>>

MainHangsUp(i) ==
    /\ main[i] = "loop"
    /\ unit[i].phase # "DEAD"
    /\ ~kill_link[i]
    /\ sig_hup[i]
    /\ sig_hup' = [sig_hup EXCEPT ![i] = FALSE]
    /\ pppWrite(i, pppHupCB(unit[i]), wire)
    /\ UNCHANGED <<user, main, kill_link, opens, faults, undisturbed>>

(* A frame that was handed over before the phase became DEAD still comes. *)
MainReads(i) ==
    LET j == Sender(i) IN
    /\ main[i] = "loop"
    /\ wire[j] # <<>>
    /\ pppWrite(i, pppInput(unit[i], Head(wire[j])), [wire EXCEPT ![j] = Tail(@)])
    /\ UNCHANGED <<threads, opens, faults, undisturbed>>

MainEnds(i) ==
    /\ main[i] = "loop"
    /\ unit[i].phase = "DEAD"
    /\ main' = [main EXCEPT ![i] = "ended"]
    /\ unit' = [unit EXCEPT ![i].openFlag = FALSE]
    /\ UNCHANGED <<wire, user, kill_link, sig_hup, opens, faults, undisturbed>>

(* Nobody reads the line. *)
Unread(i) ==
    LET j == Sender(i) IN
    /\ main[i] \in {"ended", "off"}
    /\ wire[j] # <<>>
    /\ wire' = [wire EXCEPT ![j] = Tail(@)]
    /\ Disturb
    /\ UNCHANGED <<unit, threads, opens, faults>>

----------------------------------------------------------------------------
(* Timers, run by the tcpip thread. *)
Running(u, t) ==
    CASE t = "lcp" -> u.lcp.timer
      [] t = "ipcp" -> u.ipcp.timer
      [] t = "pap" -> u.pap.timeout
      [] t = "papreq" -> u.pap.reqtimeout
      [] t = "challenge" -> u.chap.challenge
      [] t = "response" -> u.chap.response
      [] t = "echo" -> u.echo

RunsOut(u, t) ==
    CASE t = "lcp" -> Lcp!fsm_timeout(u, "lcp")
      [] t = "ipcp" -> Ipcp!fsm_timeout(u, "ipcp")
      [] t = "pap" -> upap_timeout(u)
      [] t = "papreq" -> upap_reqtimeout(u)
      [] t = "challenge" -> ChapChallengeTimeout(u)
      [] t = "response" -> ChapResponseTimeout(u)
      [] t = "echo" -> LcpEchoTimeout(u)

Silent ==
    /\ \A i \in Units : wire[i] = <<>>
    /\ \A i \in Units : main[i] \notin {"start", "ended"} /\ (main[i] = "loop" => ~kill_link[i] /\ ~sig_hup[i])

Timeout(i, t) ==
    /\ Running(unit[i], t)
    /\ \/ Silent /\ UNCHANGED faults
       \/ ~Silent /\ Spend("early")
    /\ pppWrite(i, RunsOut(unit[i], t), wire)
    /\ Disturb
    /\ UNCHANGED <<threads, opens>>

----------------------------------------------------------------------------
(* Faults. *)
Lose(i) ==
    /\ wire[i] # <<>>
    /\ Spend("lost")
    /\ wire' = [wire EXCEPT ![i] = Tail(@)]
    /\ Disturb
    /\ UNCHANGED <<unit, threads, opens>>

Crash(i) ==
    /\ main[i] # "off"
    /\ Spend("crashes")
    /\ unit' = [unit EXCEPT ![i] = pppInit(@.conf)]
    /\ user' = [user EXCEPT ![i] = "down"]
    /\ main' = [main EXCEPT ![i] = "off"]
    /\ kill_link' = [kill_link EXCEPT ![i] = FALSE]
    /\ sig_hup' = [sig_hup EXCEPT ![i] = FALSE]
    /\ Disturb
    /\ UNCHANGED <<wire, opens>>

Next == \E i \in Units :
    \/ pppOpen(i) \/ OpenSucceeds(i) \/ pppClose(i) \/ pppCloseReturns(i) \/ pppSigHUP(i)
    \/ MainStarts(i) \/ MainKills(i) \/ MainHangsUp(i) \/ MainReads(i) \/ MainEnds(i)
    \/ MonitorPppMain(i)
    \/ Unread(i)
    \/ \E t \in Timers : Timeout(i, t)
    \/ Lose(i) \/ Crash(i)

Spec == Init /\ [][Next]_vars

----------------------------------------------------------------------------
(* Both ends of one line. *)
Ends == {e \in Units \X Units : e[1] # e[2] /\ Peer(e[1]) = e[2] /\ Peer(e[2]) = e[1]}

(* The interface is up only on top of layers that are: IPCP and LCP agreed, *)
(* the network phase, a device still open (sifup and sifdown against every  *)
(* way down there is, through callbacks within callbacks).  A looped line  *)
(* is found out before anything is opened on it, though the unit agrees    *)
(* with itself on all but the magic number. *)
UpIsLayered ==
    \A i \in Units : LET u == unit[i] IN
        /\ u.if_up => /\ u.ipcp.state = "OPENED" /\ u.lcp.state = "OPENED"
                      /\ u.phase = "NETWORK" /\ u.openFlag
        /\ u.phase \in {"AUTHENTICATE", "NETWORK"} => Peer(i) # i

(* When both ends are up they mean the same connection: what one got is    *)
(* what the other granted, in LCP and in IPCP, whatever was lost, came late *)
(* or is left over from before one of them was restarted.  (When one       *)
(* insists on an address other than the one the other has for it, both     *)
(* come up, each with its own idea of it.) *)
UpAgrees ==
    \A e \in Ends : LET u == unit[e[1]]
                        v == unit[e[2]] IN
        u.if_up /\ v.if_up =>
            /\ u.conf.our = 0 \/ v.conf.his \in {0, u.conf.our} => u.igo.our = HisAddr(v)
            /\ v.ho.magic = {u.go.magic}
            /\ v.ho.comp = u.go.comp
            /\ v.ho.auth \subseteq u.go.auth /\ (v.ho.auth = {} => u.go.auth = {})

(* Who asks for a proof carries no traffic before it has one, and with     *)
(* CHAP only from who knows the secret (auth_pending, the gate in pppInput,*)
(* and the states the protocols go back to when the link goes down). *)
ProvenFirst ==
    \A e \in Ends : LET u == unit[e[1]]
                        v == unit[e[2]] IN
        u.if_up /\ u.go.auth # {} =>
            /\ "OPEN" \in {u.pap.s, u.chap.s}
            /\ "chap" \in u.go.auth => u.conf.secret = v.conf.secret

(* What an interface that is up stands for, at both ends of the line: its  *)
(* layers, what was agreed, what was proven. *)
ConnectionsAreSound == UpIsLayered /\ UpAgrees /\ ProvenFirst

(* Programs that fit together come up without the help of a timer, unless  *)
(* a frame is lost, comes when nobody listens, or someone closes. *)
Compatible ==
    /\ \A i \in Units : Peer(i) # i /\ "ipcp" \in unit[i].conf.protos
    /\ \E i \in Units : ~unit[i].conf.silent
    /\ \E i \in Units : unit[i].conf.his # 0
    /\ \A i, j \in Units : unit[i].conf.secret = unit[j].conf.secret
AllRead == \A i \in Units : main[i] = "loop"
UndisturbedComesUp ==
    undisturbed /\ Compatible =>
        \A i \in Units : /\ user[i] # "closing"
                         /\ Silent /\ AllRead => unit[i].if_up

(* Once LCP is up at both ends, some timer runs until the interface is up: *)
(* authentication and IPCP never wait for each other, whatever was lost. *)
NoStandstill ==
    Silent /\ AllRead /\ (\A i \in Units : unit[i].lcp.state = "OPENED") =>
        \A i \in Units : unit[i].if_up \/ \E j \in Units, t \in Timers : Running(unit[j], t)

(* A close that has been handed to LCP ends in time: all it can still wait *)
(* for are the MaxTermReqs restarts of LCP's timer, for which the 15 s that*)
(* pppClose waits are enough. *)
CloseEndsInTime ==
    \A i \in Units : LET lcp == unit[i].lcp IN
        user[i] = "closing" /\ main[i] = "loop" /\ ~kill_link[i] /\ unit[i].phase # "DEAD" =>
            lcp.state = "CLOSING" /\ lcp.timer /\ lcp.retransmits < MaxTermReqs

=============================================================================
