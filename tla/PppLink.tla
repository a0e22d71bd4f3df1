------------------------------ MODULE PppLink -------------------------------
(***************************************************************************)
(* What lies around the two automata of a PPP unit: phases and who opens   *)
(* what next (netif/ppp/auth.c), PAP (pap.c), CHAP (chap.c), the callbacks *)
(* and echo requests of LCP (lcp.c), IPCP and the interface (ipcp.c,       *)
(* pppif2.c), and the dispatch of a received frame (pppInput).  Operators  *)
(* from one unit record to the next; Ppp turns them into steps.            *)
(*                                                                         *)
(* They are stacked by who calls whom: IPCP goes down, the link goes down, *)
(* LCP closes, authentication fails or succeeds, the network phase begins, *)
(* LCP comes up.  C's recursion through callbacks stays within this order. *)
(*                                                                         *)
(* u.conf is what the program has set: demands (how the peer must prove    *)
(* itself), refuse (how this unit does not), secret, comp, our and his  *)
(* (addresses, 0 if none), silent, passive, protos (those compiled in),    *)
(* echo (LCP_ECHOINTERVAL is not 0), peer (who is at the other end of its  *)
(* line), magics (its first random number and the later ones).             *)
(* The code never demands (its have_..._secret return 0); a unit that does *)
(* stands for an access server that runs the server half of pap.c, chap.c. *)
(***************************************************************************)
EXTENDS PppFsm

CONSTANTS
    MaxAuthTries,        \* us_maxtransmits and CHAP_DEFTRANSMITS
    EchoFails,           \* LCP_MAXECHOFAILS
    LoopbackFail         \* DEFLOOPBACKFAIL

ASSUME LinkAssumption == {MaxAuthTries, EchoFails, LoopbackFail} \subseteq Nat \ {0}

upap_init == [c |-> "INITIAL", s |-> "INITIAL", id |-> 0, transmits |-> 0,
              timeout |-> FALSE, reqtimeout |-> FALSE]
ChapInit == [c |-> "INITIAL", s |-> "INITIAL", id |-> 0, transmits |-> 0, known |-> FALSE,
             resp_id |-> 0, challenge |-> FALSE, response |-> FALSE]

(* What a unit wants and has before its program says anything. *)
lcp_init == [demands |-> {}, comp |-> TRUE, silent |-> FALSE, passive |-> FALSE]
ipcp_init == [our |-> 0, his |-> 0]

(* The ways to prove oneself that are refused: with "NONE" PAP is not. *)
pppSetAuth(authType) == CASE authType = "ANY"  -> {}
                          [] authType = "CHAP" -> {"pap"}
                          [] OTHER             -> {"chap"}

pppInit(conf) ==
    [conf |-> conf, lcp |-> fsm, ipcp |-> fsm, phase |-> "DEAD",
     go |-> [auth |-> {}, magic |-> 0, comp |-> FALSE, numloops |-> 0],
     ho |-> [auth |-> {}, magic |-> {}, comp |-> FALSE],
     igo |-> [neg |-> FALSE, old |-> FALSE, our |-> 0, his |-> 0],
     iho |-> [neg |-> FALSE, his |-> 0], req_addr |-> FALSE,
     pap |-> upap_init, chap |-> ChapInit, pending |-> {}, num_np_open |-> 0,
     if_up |-> FALSE, openFlag |-> FALSE, echos |-> 0, echo |-> FALSE,
     magic |-> conf.magics[1], out |-> <<>>]

Phase(u, phase) == [u EXCEPT !.phase = phase]

----------------------------------------------------------------------------
(* IPCP and the interface go down. *)
sifdown(u) == IF u.openFlag THEN [u EXCEPT !.if_up = FALSE] ELSE u
ipcp_down(u) == sifdown(u)

ipcp_lowerdown(u) == fsm_lowerdown(u, "ipcp", ipcp_down(u))
ipcp_close(u) == fsm_close(u, "ipcp", ipcp_down(u))

(* The link is gone: the protocols above it are, too. *)
upap_lowerdown(u) ==
    [u EXCEPT !.pap.c = "INITIAL", !.pap.s = "INITIAL",
              !.pap.timeout = @ /\ u.pap.c # "AUTHREQ",
              !.pap.reqtimeout = @ /\ u.pap.s # "LISTEN"]
ChapLowerDown(u) ==
    [u EXCEPT !.chap.c = "INITIAL", !.chap.s = "INITIAL",
              !.chap.challenge = @ /\ u.chap.s \notin {"INITIAL_CHAL", "RECHALLENGE"},
              !.chap.response = @ /\ u.chap.c # "RESPONSE"]

(* Mutant: IPCP does not hear of it. *)
LinkDownSilently(u) == Phase(ChapLowerDown(upap_lowerdown(u)), "TERMINATE")

link_down(u) ==
    LET v == ipcp_close(ipcp_lowerdown(ChapLowerDown(upap_lowerdown(u)))) IN
    [v EXCEPT !.num_np_open = 0, !.phase = IF @ = "DEAD" THEN @ ELSE "TERMINATE"]

link_terminated(u) ==
    IF u.phase = "DEAD" THEN u ELSE [u EXCEPT !.phase = "DEAD", !.openFlag = FALSE]

lcp_echo_lowerdown(u) == [u EXCEPT !.echo = FALSE]
lcp_down(u) == link_down(lcp_echo_lowerdown(u))

lcp_lowerdown(u) == fsm_lowerdown(u, "lcp", lcp_down(u))

lcp_close(u) ==
    LET v == [u EXCEPT !.phase = IF @ = "DEAD" THEN @ ELSE "TERMINATE"] IN
    IF u.lcp.state = "STOPPED" /\ (u.conf.passive \/ u.conf.silent)
    THEN link_terminated(To(v, "lcp", "CLOSED"))
    ELSE fsm_close(v, "lcp", lcp_down(v))

(* The peer would rather prove itself in another way. *)
NakedAuth(wanted, asked) ==
    CASE asked = {} -> wanted
      [] asked = {"pap"} -> wanted \ {"chap"}
      [] OTHER -> IF "chap" \in wanted THEN wanted ELSE wanted \ {"pap"}

(* The "bad:" of lcp_nakci: we asked for PAP, and the peer wants PAP instead. *)
NakIsBad(wanted, asked) == wanted # {} /\ asked = {"pap"} /\ "chap" \notin wanted

(* What is asked for next; a naked magic number of ours is drawn again. *)
Tried(u, cis) ==
    LET looped == HasCi(cis, "magic") IN
    [u.go EXCEPT !.auth     = NakedAuth(@, Values(cis, "auth")),
                 !.magic    = IF looped THEN u.magic ELSE @,
                 !.numloops = IF looped THEN @ + 1 ELSE 0]

(* It may mean that we talk to ourselves. *)
TalksToItself(u, cis) == HasCi(cis, "magic") /\ Tried(u, cis).numloops >= LoopbackFail

lcp_nakci(u, k, cis) ==
    [ok |-> ~NakIsBad(u.go.auth, Values(cis, "auth")),
     u  |-> IF u.lcp.state = "OPENED" THEN u
            ELSE [(IF TalksToItself(u, cis) THEN lcp_close(u) ELSE u) EXCEPT !.go = Tried(u, cis)]]

----------------------------------------------------------------------------
(* The end of IPCP, and its start. *)
np_finished(u) ==
    LET v == [u EXCEPT !.num_np_open = @ - 1] IN
    IF v.num_np_open <= 0 THEN lcp_close(v) ELSE v

sifup(u) == [u EXCEPT !.if_up = TRUE]

(* Both addresses must be known.  The unit takes the peer's from its       *)
(* request, or from its own settings. *)
HisAddr(u) == IF u.iho.neg THEN u.iho.his ELSE u.conf.his
ipcp_up(u) ==
    IF HisAddr(u) = 0 \/ u.igo.our = 0 \/ ~u.openFlag THEN ipcp_close(u) ELSE sifup(u)

IpcpCb(u, what) ==
    CASE what = "up" -> ipcp_up(u)
      [] what = "down" -> ipcp_down(u)
      [] OTHER -> np_finished(u)

IpcpNakci(u, k, cis) == ipcp_nakci(u, cis)
CodeReject(u, k) ==
    LET id == UChar(u[k].id + 1) IN
    fsm_sdata([u EXCEPT ![k].id = id], k, "CODEREJ", id, {})
NoExtcode(u, f) == CodeReject(u, "ipcp")
Ipcp == INSTANCE PppAutomaton WITH Cb <- IpcpCb, Nakci <- IpcpNakci, Ext <- NoExtcode
ipcp_input(u, f) == Ipcp!fsm_input(u, "ipcp", f)
ipcp_protrej(u) == fsm_lowerdown(u, "ipcp", ipcp_down(u))

network_phase(u) ==
    LET v == fsm_open(Phase(u, "NETWORK"), "ipcp") IN
    IF "ipcp" \in u.conf.protos THEN [v EXCEPT !.num_np_open = @ + 1]
    ELSE IF u.num_np_open = 0 THEN lcp_close(Phase(u, "NETWORK")) ELSE Phase(u, "NETWORK")

----------------------------------------------------------------------------
(* Authentication: "with" the peer as its client, "peer" as its server. *)
Proven(u, which) ==
    LET v == [u EXCEPT !.pending = @ \ {which}] IN
    IF v.pending = {} THEN network_phase(v) ELSE v
auth_peer_success(u) == Proven(u, "peer")
auth_withpeer_success(u) == Proven(u, "with")
auth_peer_fail(u) == lcp_close(u)
auth_withpeer_fail(u) == lcp_close(u)

(* PAP as client. *)
upap_sauthreq(u) ==
    LET id == UChar(u.pap.id + 1) IN
    Send([u EXCEPT !.pap.id = id, !.pap.timeout = TRUE, !.pap.transmits = @ + 1,
                   !.pap.c = "AUTHREQ"],
         Frame("pap", "AUTHREQ", id, u.conf.secret))

(* Mutant: it waits for the lower layer, which is up already. *)
AuthWithPeerLater(u) == [u EXCEPT !.pap.transmits = 0, !.pap.c = "PENDING"]

upap_authwithpeer(u) ==
    LET v == [u EXCEPT !.pap.transmits = 0] IN
    IF u.pap.c \in {"INITIAL", "PENDING"} THEN [v EXCEPT !.pap.c = "PENDING"]
    ELSE upap_sauthreq(v)

upap_timeout(u) ==
    LET v == [u EXCEPT !.pap.timeout = FALSE] IN
    CASE u.pap.c # "AUTHREQ" -> v
      [] u.pap.transmits >= MaxAuthTries -> auth_withpeer_fail([v EXCEPT !.pap.c = "BADAUTH"])
      [] OTHER -> upap_sauthreq(v)

upap_rauthack(u) ==
    IF u.pap.c # "AUTHREQ" THEN u ELSE auth_withpeer_success([u EXCEPT !.pap.c = "OPEN"])
upap_rauthnak(u) ==
    IF u.pap.c # "AUTHREQ" THEN u ELSE auth_withpeer_fail([u EXCEPT !.pap.c = "BADAUTH"])

(* PAP as server.  check_passwd is compiled to accept whatever it is told. *)
check_passwd(u, passwd) == "AUTHACK"

upap_authpeer(u) ==
    IF u.pap.s \in {"INITIAL", "PENDING"} THEN [u EXCEPT !.pap.s = "PENDING"]
    ELSE [u EXCEPT !.pap.s = "LISTEN", !.pap.reqtimeout = TRUE]

upap_reqtimeout(u) ==
    LET v == [u EXCEPT !.pap.reqtimeout = FALSE] IN
    IF u.pap.s # "LISTEN" THEN v ELSE [auth_peer_fail(v) EXCEPT !.pap.s = "BADAUTH"]

upap_rauthreq(u, f) ==
    LET resp(v, code) == Send(v, Frame("pap", code, f.id, "")) IN
    CASE u.pap.s \in {"INITIAL", "CLOSED", "PENDING"} -> u
      [] u.pap.s = "OPEN" -> resp(u, "AUTHACK")
      [] u.pap.s = "BADAUTH" -> resp(u, "AUTHNAK")
      [] OTHER ->
            LET code == check_passwd(u, f.data)
                told == resp(u, code)
            IN  [(IF code = "AUTHACK" THEN auth_peer_success([told EXCEPT !.pap.s = "OPEN"])
                  ELSE auth_peer_fail([told EXCEPT !.pap.s = "BADAUTH"]))
                    EXCEPT !.pap.reqtimeout = FALSE]

upap_lowerup(u) ==
    LET v == CASE u.pap.c = "INITIAL" -> [u EXCEPT !.pap.c = "CLOSED"]
               [] u.pap.c = "PENDING" -> upap_sauthreq(u)
               [] OTHER -> u
    IN CASE u.pap.s = "INITIAL" -> [v EXCEPT !.pap.s = "CLOSED"]
         [] u.pap.s = "PENDING" -> [v EXCEPT !.pap.s = "LISTEN", !.pap.reqtimeout = TRUE]
         [] OTHER -> v

upap_protrej(u) ==
    LET v == IF u.pap.c = "AUTHREQ" THEN auth_withpeer_fail(u) ELSE u
        w == IF v.pap.s = "LISTEN" THEN auth_peer_fail(v) ELSE v
    IN upap_lowerdown(w)

upap_input(u, f) ==
    CASE f.code = "AUTHREQ" -> upap_rauthreq(u, f)
      [] f.code = "AUTHACK" -> upap_rauthack(u)
      [] f.code = "AUTHNAK" -> upap_rauthnak(u)

(* CHAP as client.  A challenge is answered in every state but CLOSED and  *)
(* PENDING, so also when the link is down or the peer has accepted us.     *)
(* The digest is right when both have the same secret: the one there is,   *)
(* which every name that a unit goes by has. *)
get_secret(u) == u.conf.secret

ChapAuthWithPeer(u) ==
    [u EXCEPT !.chap.known = TRUE,
              !.chap.c = IF @ \in {"INITIAL", "PENDING"} THEN "PENDING" ELSE "LISTEN"]

ChapSendResponse(u) ==
    Send([u EXCEPT !.chap.c = "RESPONSE", !.chap.response = TRUE],
         Frame("chap", "RESPONSE", u.chap.resp_id, get_secret(u)))

ChapReceiveChallenge(u, f) ==
    LET v == [u EXCEPT !.chap.resp_id = f.id,
                       !.chap.response = @ /\ u.chap.c # "RESPONSE"]
    IN CASE u.chap.c \in {"CLOSED", "PENDING"} -> u
         [] ~u.chap.known -> v
         [] OTHER -> ChapSendResponse(v)

ChapResponseTimeout(u) ==
    LET v == [u EXCEPT !.chap.response = FALSE] IN
    IF u.chap.c = "RESPONSE" THEN ChapSendResponse(v) ELSE v

ChapReceiveSuccess(u) ==
    IF u.chap.c # "RESPONSE" THEN u
    ELSE auth_withpeer_success([u EXCEPT !.chap.response = FALSE, !.chap.c = "OPEN"])

ChapReceiveFailure(u) ==
    IF u.chap.c # "RESPONSE" THEN u ELSE auth_withpeer_fail([u EXCEPT !.chap.response = FALSE])

(* CHAP as server. *)
(* Mutant: the challenge is sent once. *)
SendChallengeOnce(u) ==
    Send([u EXCEPT !.chap.transmits = @ + 1], Frame("chap", "CHALLENGE", u.chap.id, ""))

ChapSendChallenge(u) ==
    Send([u EXCEPT !.chap.challenge = TRUE, !.chap.transmits = @ + 1],
         Frame("chap", "CHALLENGE", u.chap.id, ""))
ChapGenChallenge(u) ==
    [u EXCEPT !.chap.id = UChar(@ + 1), !.chap.transmits = 0, !.chap.s = "INITIAL_CHAL"]

ChapAuthPeer(u) ==
    IF u.chap.s \in {"INITIAL", "PENDING"} THEN [u EXCEPT !.chap.s = "PENDING"]
    ELSE ChapSendChallenge(ChapGenChallenge(u))

ChapChallengeTimeout(u) ==
    LET v == [u EXCEPT !.chap.challenge = FALSE] IN
    CASE u.chap.s # "INITIAL_CHAL" -> v
      [] u.chap.transmits >= MaxAuthTries -> auth_peer_fail([v EXCEPT !.chap.s = "BADAUTH"])
      [] OTHER -> ChapSendChallenge(v)

(* Mutant: the digest is not looked at. *)
ReceiveAnyResponse(u, f) ==
    IF u.chap.s # "INITIAL_CHAL" \/ f.id # u.chap.id THEN u
    ELSE auth_peer_success(Send([u EXCEPT !.chap.challenge = FALSE, !.chap.s = "OPEN"],
                                Frame("chap", "SUCCESS", f.id, "")))

ChapReceiveResponse(u, f) ==
    LET status(v, code) == Send(v, Frame("chap", code, v.chap.id, ""))
        v == [u EXCEPT !.chap.challenge = FALSE]
        open == [status(v, "SUCCESS") EXCEPT !.chap.s = "OPEN"]
    IN CASE u.chap.s \in {"CLOSED", "PENDING"} \/ f.id # u.chap.id -> u
         [] u.chap.s = "OPEN" -> status(u, "SUCCESS")
         [] u.chap.s = "BADAUTH" -> status(u, "FAILURE")
         [] f.data # get_secret(u) ->
                auth_peer_fail([status(v, "FAILURE") EXCEPT !.chap.s = "BADAUTH"])
         [] OTHER -> IF u.chap.s = "INITIAL_CHAL" THEN auth_peer_success(open) ELSE open

ChapLowerUp(u) ==
    LET v == [u EXCEPT !.chap.c = CASE @ = "INITIAL" -> "CLOSED"
                                    [] @ = "PENDING" -> "LISTEN"
                                    [] OTHER -> @]
    IN CASE u.chap.s = "INITIAL" -> [v EXCEPT !.chap.s = "CLOSED"]
         [] u.chap.s = "PENDING" -> ChapSendChallenge(ChapGenChallenge(v))
         [] OTHER -> v

ChapProtocolReject(u) ==
    LET v == IF u.chap.s \in {"INITIAL", "CLOSED"} THEN u ELSE auth_peer_fail(u)
        w == IF v.chap.c \in {"INITIAL", "CLOSED"} THEN v ELSE auth_withpeer_fail(v)
    IN ChapLowerDown(w)

ChapInput(u, f) ==
    CASE f.code = "CHALLENGE" -> ChapReceiveChallenge(u, f)
      [] f.code = "RESPONSE" -> ChapReceiveResponse(u, f)
      [] f.code = "SUCCESS" -> ChapReceiveSuccess(u)
      [] f.code = "FAILURE" -> ChapReceiveFailure(u)

----------------------------------------------------------------------------
(* LCP has come up: wake the protocols above it and prove who we are. *)
link_established(u) ==
    LET woken == Phase(fsm_lowerup(ChapLowerUp(upap_lowerup(u)), "ipcp"), "AUTHENTICATE")
        served == CASE "chap" \in u.go.auth -> ChapAuthPeer(woken)
                    [] "pap" \in u.go.auth -> upap_authpeer(woken)
                    [] OTHER -> woken
        claimed == CASE "chap" \in u.ho.auth -> ChapAuthWithPeer(served)
                     [] "pap" \in u.ho.auth -> upap_authwithpeer(served)
                     [] OTHER -> served
        auth == (IF u.go.auth = {} THEN {} ELSE {"peer"})
                \cup (IF u.ho.auth = {} THEN {} ELSE {"with"})
        v == [claimed EXCEPT !.pending = auth]
    IN IF auth = {} THEN network_phase(v) ELSE v

(* Echo requests find out whether the peer is still there. *)
LcpSendEchoRequest(u) ==
    LET lost == u.echos >= EchoFails
        v == IF ~lost THEN [u EXCEPT !.echos = @ + 1]
             ELSE [(IF u.lcp.state = "OPENED" THEN lcp_close(u) ELSE u) EXCEPT !.echos = 0]
    IN IF v.lcp.state = "OPENED" THEN fsm_sdata(v, "lcp", "ECHOREQ", 0, v.go.magic) ELSE v

LcpEchoCheck(u) == [LcpSendEchoRequest(u) EXCEPT !.echo = TRUE]
LcpEchoTimeout(u) == LcpEchoCheck(u)
lcp_echo_lowerup(u) ==
    LET v == [u EXCEPT !.echos = 0, !.echo = FALSE] IN
    IF u.conf.echo THEN LcpEchoCheck(v) ELSE v

lcp_received_echo_reply(u, f) == IF f.data = u.go.magic THEN u ELSE [u EXCEPT !.echos = 0]

lcp_up(u) == link_established(lcp_echo_lowerup(u))
LcpCb(u, what) ==
    CASE what = "up" -> lcp_up(u)
      [] what = "down" -> lcp_down(u)
      [] OTHER -> link_terminated(u)

lcp_rprotrej(u, proto) ==
    CASE u.lcp.state # "OPENED" -> u
      [] proto = "pap" -> upap_protrej(u)
      [] proto = "chap" -> ChapProtocolReject(u)
      [] proto = "ipcp" -> ipcp_protrej(u)
      [] OTHER -> u

lcp_extcode(u, f) ==
    CASE f.code = "PROTREJ" -> lcp_rprotrej(u, f.data)
      [] f.code = "ECHOREQ" ->
             IF u.lcp.state # "OPENED" THEN u
             ELSE fsm_sdata(u, "lcp", "ECHOREP", f.id, u.go.magic)
      [] f.code = "ECHOREP" -> lcp_received_echo_reply(u, f)
      [] OTHER -> CodeReject(u, "lcp")

Lcp == INSTANCE PppAutomaton WITH Cb <- LcpCb, Nakci <- lcp_nakci, Ext <- lcp_extcode
lcp_input(u, f) == Lcp!fsm_input(u, "lcp", f)

lcp_sprotrej(u, proto) ==
    LET id == UChar(u.lcp.id + 1) IN
    fsm_sdata([u EXCEPT !.lcp.id = id], "lcp", "PROTREJ", id, proto)

----------------------------------------------------------------------------
(* A frame comes in.  Before the network phase only LCP is heard, and      *)
(* authentication while it goes on. *)
Heard(u, proto) ==
    \/ proto = "lcp"
    \/ u.phase \in {"NETWORK", "TERMINATE"}
    \/ u.phase = "AUTHENTICATE" /\ proto \in {"pap", "chap"}

pppInput(u, f) ==
    CASE ~Heard(u, f.proto) -> u
      [] f.proto \notin u.conf.protos -> lcp_sprotrej(u, f.proto)
      [] f.proto = "lcp" -> lcp_input(u, f)
      [] f.proto = "pap" -> upap_input(u, f)
      [] f.proto = "chap" -> ChapInput(u, f)
      [] f.proto = "ipcp" -> ipcp_input(u, f)

lcp_lowerup(u) == fsm_lowerup(u, "lcp")
lcp_open(u) == Phase(fsm_open(u, "lcp"), "ESTABLISH")

pppStartCB(u) == lcp_open(lcp_lowerup(u))
pppStopCB(u) == lcp_close(u)
pppHupCB(u) == link_terminated(lcp_lowerdown(u))

=============================================================================
