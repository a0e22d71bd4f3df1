------------------------------- MODULE PppFsm -------------------------------
(***************************************************************************)
(* The option negotiation state machine of PPP (netif/ppp/fsm.c) and the   *)
(* options that LCP and IPCP negotiate with it (the resetci .. reqci       *)
(* callbacks of lcp.c and ipcp.c), as operators from one unit record to    *)
(* the next.  PppLink defines the record's other fields.                   *)
(*                                                                         *)
(* A unit u has two machines, u.lcp and u.ipcp; k says which.  Callbacks   *)
(* that act on the rest of the unit (down, up, finished, nakci, extcode)   *)
(* are parameters.  An option list is the set of its <<option, value>>     *)
(* pairs.  LCP's options are cut down to three: "auth", "magic", and       *)
(* "comp", which stands for the options that one side offers and the other *)
(* allows or rejects (async map, both compressions).  The MRU this code    *)
(* wants is the default, which is not sent.                                *)
(*                                                                         *)
(* u.out gathers the frames one call sends; u.magic is what the next call  *)
(* of magic() returns.                                                     *)
(***************************************************************************)
EXTENDS Integers, Sequences, FiniteSets

CONSTANTS
    MaxConfReqs,         \* FSM_DEFMAXCONFREQS
    MaxTermReqs,         \* FSM_DEFMAXTERMREQS
    MaxNakLoops          \* FSM_DEFMAXNAKLOOPS

ASSUME FsmAssumption ==
    {MaxConfReqs, MaxTermReqs, MaxNakLoops} \subseteq Nat \ {0}

UChar(n) == n % 256

Negotiating == {"REQSENT", "ACKRCVD", "ACKSENT"}
FsmStates == Negotiating \cup
    {"INITIAL", "STARTING", "CLOSED", "STOPPED", "CLOSING", "STOPPING", "OPENED"}

(* What memory holds at power-up; timer says whether fsm_timeout is in the *)
(* timeout list. *)
fsm == [state |-> "INITIAL", id |-> 0, reqid |-> 0, seen_ack |-> FALSE,
        retransmits |-> 0, nakloops |-> 0, timer |-> FALSE]

(* What is known of the last request stays. *)
fsm_init(f) == [f EXCEPT !.state = "INITIAL", !.id = 0]

Frame(proto, code, id, data) == [proto |-> proto, code |-> code, id |-> id, data |-> data]
Send(u, frame) == [u EXCEPT !.out = Append(@, frame)]

Values(cis, opt) == {ci[2] : ci \in {c \in cis : c[1] = opt}}
HasCi(cis, opt) == Values(cis, opt) # {}
Value(cis, opt) == CHOOSE v \in Values(cis, opt) : TRUE
CiIf(cond, opt, value) == IF cond THEN {<<opt, value>>} ELSE {}

----------------------------------------------------------------------------
(* LCP options.  go: what we ask for; ho: what the peer asked for.  Who    *)
(* may ask the peer to prove itself has a secret for it; the ways in which *)
(* a unit lets itself be asked are those its program does not refuse, and  *)
(* there is always something to say in PAP. *)
auth_reset(u) ==
    ({"pap"} \cup (IF u.conf.secret # "" THEN {"chap"} ELSE {})) \ u.conf.refuse

lcp_resetci(u) ==
    [u EXCEPT !.go = [auth |-> u.conf.demands, magic |-> u.magic,
                      comp |-> u.conf.comp, numloops |-> 0]]

lcp_addci(u) ==
    LET go == u.go IN
    CiIf("chap" \in go.auth, "auth", "chap")
    \cup CiIf("chap" \notin go.auth /\ "pap" \in go.auth, "auth", "pap")
    \cup {<<"magic", go.magic>>}
    \cup CiIf(go.comp, "comp", TRUE)

(* Acknowledged is what was asked for, word for word. *)
lcp_ackci(u, cis) == cis = lcp_addci(u)

lcp_rejci(u, cis) ==
    LET refused == Values(cis, "auth") IN
    [ok |-> cis \subseteq lcp_addci(u),
     u  |-> IF u.lcp.state = "OPENED" THEN u
            ELSE [u EXCEPT !.go.comp = @ /\ ~HasCi(cis, "comp"),
                           !.go.auth = IF refused = {} THEN @ ELSE {}]]

(* Mutant: the peer's magic number is not compared with ours. *)
VerdictTrusting(u, ci) ==
    [v |-> IF ci[1] = "auth" /\ ci[2] \notin auth_reset(u) THEN "CONFREJ" ELSE "CONFACK"]

(* One option of the peer's request: acknowledged, naked with another      *)
(* value, or rejected. *)
AuthVerdict(u, proto) ==
    LET other == IF proto = "pap" THEN "chap" ELSE "pap" IN
    IF auth_reset(u) = {} THEN [v |-> "CONFREJ"]
    ELSE IF proto \in auth_reset(u) THEN [v |-> "CONFACK"]
    ELSE [v |-> "CONFNAK", ci |-> <<"auth", other>>]

MagicVerdict(u, magic) ==
    IF magic = u.go.magic THEN [v |-> "CONFNAK", ci |-> <<"magic", u.magic>>]
    ELSE [v |-> "CONFACK"]

(* Compression is granted where it is allowed. *)
CompVerdict(u) == [v |-> IF u.conf.comp THEN "CONFACK" ELSE "CONFREJ"]

LcpVerdict(u, ci) ==
    CASE ci[1] = "auth" -> AuthVerdict(u, ci[2])
      [] ci[1] = "magic" -> MagicVerdict(u, ci[2])
      [] OTHER -> CompVerdict(u)

(* The verdict on a whole request: a rejected option outweighs a naked     *)
(* one, and a naked one all acknowledged ones.  Disagreement is refused    *)
(* outright when there has been too much of it, but never a magic number.  *)
Combined(verdict, refuse) ==
    LET Of(ci) == IF verdict[ci].v = "CONFNAK" /\ refuse /\ ci[1] # "magic" THEN "CONFREJ"
                  ELSE verdict[ci].v
        rejected == {ci \in DOMAIN verdict : Of(ci) = "CONFREJ"}
        naked == {ci \in DOMAIN verdict : Of(ci) = "CONFNAK"}
    IN IF rejected # {} THEN [v |-> "CONFREJ", cis |-> rejected]
       ELSE IF naked # {} THEN [v |-> "CONFNAK", cis |-> {verdict[ci].ci : ci \in naked}]
       ELSE [v |-> "CONFACK", cis |-> DOMAIN verdict]

(* Mutant: the magic numbers of earlier requests are not forgotten. *)
ReqciRemembers(u, cis, refuse) ==
    LET verdict == [ci \in cis |-> LcpVerdict(u, ci)]
        agreed == {ci \in cis : verdict[ci].v = "CONFACK"}
    IN [ans |-> Combined(verdict, refuse),
        u   |-> [u EXCEPT !.ho = [auth |-> Values(agreed, "auth"),
                                  magic |-> @.magic \cup Values(agreed, "magic"),
                                  comp |-> HasCi(agreed, "comp")]]]

lcp_reqci(u, cis, refuse) ==
    LET verdict == [ci \in cis |-> LcpVerdict(u, ci)]
        agreed == {ci \in cis : verdict[ci].v = "CONFACK"}
    IN [ans |-> Combined(verdict, refuse),
        u   |-> [u EXCEPT !.ho = [auth |-> Values(agreed, "auth"),
                                  magic |-> Values(agreed, "magic"),
                                  comp |-> HasCi(agreed, "comp")]]]

----------------------------------------------------------------------------
(* IPCP options: one address, or, once that is rejected, the old form with *)
(* both.  0 is no address.  A unit that has none of its own takes the one  *)
(* the peer proposes. *)
ipcp_resetci(u) ==
    [u EXCEPT !.req_addr = TRUE,
              !.igo = [neg |-> TRUE, old |-> FALSE,
                       our |-> u.conf.our, his |-> u.conf.his]]

ipcp_cilen(u) ==
    IF ~u.igo.neg /\ ~u.igo.old THEN [u EXCEPT !.igo.neg = TRUE, !.igo.old = TRUE] ELSE u

ipcp_addci(u) ==
    LET go == u.igo IN
    CiIf(go.neg /\ ~go.old, "addr", go.our)
    \cup CiIf(go.neg /\ go.old, "addrs", <<go.our, go.his>>)

ipcp_ackci(u, cis) == cis = ipcp_addci(u)

ipcp_nakci(u, cis) ==
    LET given == Values(cis, "addr") \ {0}
        our == IF given # {} /\ u.conf.our = 0 THEN Value(cis, "addr") ELSE u.igo.our
    IN [ok |-> TRUE,
        u  |-> IF u.ipcp.state = "OPENED" \/ ~HasCi(cis, "addr") THEN u
               ELSE IF u.igo.neg /\ ~u.igo.old THEN [u EXCEPT !.igo.our = our]
               ELSE [u EXCEPT !.igo.our = our, !.igo.old = FALSE,
                              !.igo.neg = @ \/ our # 0]]

ipcp_rejci(u, cis) ==
    [ok |-> cis \subseteq ipcp_addci(u),
     u  |-> IF u.ipcp.state = "OPENED" \/ cis = {} THEN u ELSE [u EXCEPT !.igo.neg = FALSE]]

(* The peer's address is accepted when it is the one this unit has for it, *)
(* or when it has none for it and the peer brings one. *)
AddrVerdict(u, addr) ==
    LET his == u.conf.his IN
    IF addr # his /\ (addr = 0 \/ his # 0) THEN [v |-> "CONFNAK", ci |-> <<"addr", his>>]
    ELSE IF addr = 0 THEN [v |-> "CONFREJ"]
    ELSE [v |-> "CONFACK"]

(* This build allows nothing else: it has no name server to tell of, and   *)
(* no header compression. *)
IpcpVerdict(u, ci) ==
    IF ci[1] = "addr" THEN AddrVerdict(u, ci[2]) ELSE [v |-> "CONFREJ"]

(* A request that says nothing of the peer's address is asked, once, to. *)
AskAddress(u, ans, asked, heard, refuse) ==
    IF ans.v = "CONFREJ" \/ heard \/ ~asked \/ refuse THEN [ans |-> ans, req_addr |-> asked]
    ELSE [ans |-> [v |-> "CONFNAK", cis |-> (IF ans.v = "CONFNAK" THEN ans.cis ELSE {})
                                            \cup {<<"addr", u.conf.his>>}],
          req_addr |-> ans.v = "CONFNAK"]

ipcp_reqci(u, cis, refuse) ==
    LET verdict == [ci \in cis |-> IpcpVerdict(u, ci)]
        nothing == HasCi(cis, "addr") /\ verdict[<<"addr", Value(cis, "addr")>>].v = "CONFREJ"
        heard == HasCi(cis, "addr") /\ ~nothing
        r == AskAddress(u, Combined(verdict, refuse), u.req_addr /\ ~nothing, heard, refuse)
    IN [ans |-> r.ans,
        u   |-> [u EXCEPT !.req_addr = r.req_addr,
                          !.iho = [neg |-> heard,
                                   his |-> IF heard THEN Value(cis, "addr") ELSE 0]]]

resetci(u, k) == IF k = "lcp" THEN lcp_resetci(u) ELSE ipcp_resetci(u)
cilen(u, k) == IF k = "lcp" THEN u ELSE ipcp_cilen(u)
addci(u, k) == IF k = "lcp" THEN lcp_addci(u) ELSE ipcp_addci(u)
ackci(u, k, cis) == IF k = "lcp" THEN lcp_ackci(u, cis) ELSE ipcp_ackci(u, cis)
rejci(u, k, cis) == IF k = "lcp" THEN lcp_rejci(u, cis) ELSE ipcp_rejci(u, cis)
reqci(u, k, cis, refuse) ==
    IF k = "lcp" THEN lcp_reqci(u, cis, refuse) ELSE ipcp_reqci(u, cis, refuse)

----------------------------------------------------------------------------
(* The automaton: how it starts, and how it is closed from above and       *)
(* below; down is the unit after the callback of that name. *)
To(u, k, state) == [u EXCEPT ![k].state = state]
TIMEOUT(u, k) == [u EXCEPT ![k].timer = TRUE]
UNTIMEOUT(u, k) == [u EXCEPT ![k].timer = FALSE]

fsm_sdata(u, k, code, id, data) == Send(u, Frame(k, code, id, data))

fsm_sconfreq(u, k, retransmit) ==
    LET fresh == IF u[k].state \in Negotiating THEN u
                 ELSE [resetci(u, k) EXCEPT ![k].nakloops = 0]
        numbered == IF retransmit THEN fresh
                    ELSE LET id == UChar(u[k].id + 1) IN
                         [fresh EXCEPT ![k].retransmits = MaxConfReqs,
                                       ![k].reqid = id, ![k].id = id]
        asking == cilen([numbered EXCEPT ![k].seen_ack = FALSE, ![k].retransmits = @ - 1], k)
    IN TIMEOUT(fsm_sdata(asking, k, "CONFREQ", asking[k].reqid, addci(asking, k)), k)

sconfreq(u, k) == fsm_sconfreq(u, k, FALSE)

(* Mutant: the request to terminate is not sent again. *)
StermUntimed(u, k, state) ==
    LET id == UChar(u[k].id + 1) IN
    To(fsm_sdata(UNTIMEOUT([u EXCEPT ![k].reqid = id, ![k].id = id], k),
                 k, "TERMREQ", id, {}), k, state)

(* Up to MaxTermReqs requests to terminate, the first one here. *)
sterm(u, k, state) ==
    LET id == UChar(u[k].id + 1) IN
    To(TIMEOUT(fsm_sdata([u EXCEPT ![k].retransmits = MaxTermReqs - 1,
                                   ![k].reqid = id, ![k].id = id],
                         k, "TERMREQ", id, {}), k), k, state)

(* The lower layer is there: negotiate if the program has opened, unless it *)
(* shall wait for the peer. *)
begin(u, k) == IF k = "lcp" /\ u.conf.silent THEN To(u, k, "STOPPED")
               ELSE To(sconfreq(u, k), k, "REQSENT")

fsm_lowerup(u, k) ==
    CASE u[k].state = "INITIAL" -> To(u, k, "CLOSED")
      [] u[k].state = "STARTING" -> begin(u, k)
      [] OTHER -> u

fsm_lowerdown(u, k, down) ==
    CASE u[k].state = "CLOSED" -> To(u, k, "INITIAL")
      [] u[k].state = "STOPPED" -> To(u, k, "STARTING")
      [] u[k].state = "CLOSING" -> To(UNTIMEOUT(u, k), k, "INITIAL")
      [] u[k].state \in Negotiating \cup {"STOPPING"} -> To(UNTIMEOUT(u, k), k, "STARTING")
      [] u[k].state = "OPENED" -> To(down, k, "STARTING")
      [] OTHER -> u

fsm_open(u, k) ==
    CASE u[k].state = "INITIAL" -> To(u, k, "STARTING")
      [] u[k].state = "CLOSED" -> begin(u, k)
      [] u[k].state = "CLOSING" -> To(u, k, "STOPPING")
      [] OTHER -> u

fsm_close(u, k, down) ==
    CASE u[k].state = "STARTING" -> To(u, k, "INITIAL")
      [] u[k].state = "STOPPED" -> To(u, k, "CLOSED")
      [] u[k].state = "STOPPING" -> To(u, k, "CLOSING")
      [] u[k].state \in Negotiating -> sterm(u, k, "CLOSING")
      [] u[k].state = "OPENED" -> sterm(down, k, "CLOSING")
      [] OTHER -> u

=============================================================================
