------------------------------- MODULE MCPpp --------------------------------
(* A client and an access server at the two ends of a line, and a unit at a *)
(* looped line, for TLC: each scenario has the settings and the faults that *)
(* one question asks for. *)
EXTENDS Ppp, TLC

CONSTANTS a, b

all == {"lcp", "pap", "chap", "ipcp"}
Client(authType) ==
    lcp_init @@ ipcp_init
    @@ [refuse |-> pppSetAuth(authType), secret |-> "s", protos |-> all, echo |-> FALSE,
        peer |-> b, magics |-> <<1, 3>>]

(* It proves itself in no way at all, nor does the server. *)
Mute == [Client("NONE") EXCEPT !.refuse = {"pap", "chap"}]
Server(demands) ==
    [Mute EXCEPT !.demands = demands, !.comp = FALSE, !.our = 10, !.his = 20,
                 !.peer = a, !.magics = <<2, 4>>]

none == [lost |-> 0, early |-> 0, hups |-> 0, crashes |-> 0]
Scenario(client, server, clientOpens, serverOpens, toCome) ==
    [conf |-> [i \in Units |-> IF i = a THEN client ELSE server],
     opens |-> [i \in Units |-> IF i = a THEN clientOpens ELSE serverOpens],
     faults |-> toCome]

(* How they prove themselves, with lost frames and early timers. *)
Proofs == {
    Scenario(Client("ANY"), Server({"pap", "chap"}), 1, 1, [none EXCEPT !.lost = 1]),
    Scenario(Client("PAP"), Server({"pap"}), 1, 1, [none EXCEPT !.lost = 1, !.early = 1]),
    Scenario(Client("PAP"), Server({"pap", "chap"}), 1, 1, [none EXCEPT !.lost = 1]),
    Scenario(Client("CHAP"), Server({"chap"}), 1, 1, [none EXCEPT !.early = 1]),
    Scenario(Client("CHAP"), Server({"chap"}), 1, 1, [none EXCEPT !.lost = 2]),
    Scenario(Client("CHAP"), Server({"pap"}), 1, 1, none),
    Scenario([Client("CHAP") EXCEPT !.secret = "x"], Server({"chap"}), 1, 1,
             [none EXCEPT !.lost = 1]),
    Scenario(Mute, Server({"chap"}), 1, 1, [none EXCEPT !.lost = 1])}

(* Connections after each other: closed, hung up, or restarted. *)
Again == {
    Scenario(Client("CHAP"), Server({"pap"}), 2, 1, none),
    Scenario(Client("PAP"), Server({"pap"}), 2, 1, [none EXCEPT !.hups = 1]),
    Scenario(Mute, Server({"chap"}), 2, 2, [none EXCEPT !.crashes = 1])}

(* A magic number that happens to be the peer's, a looped line, units that *)
(* wait, that have no address for the other, no IPCP, or send echoes. *)
Oddities == {
    Scenario([Mute EXCEPT !.magics = <<0, 1>>], [Server({}) EXCEPT !.magics = <<0, 2>>],
             1, 1, [none EXCEPT !.early = 1]),
    Scenario([Client("PAP") EXCEPT !.peer = a], [Server({}) EXCEPT !.peer = b],
             2, 0, [none EXCEPT !.lost = 1, !.early = 1]),
    Scenario([Client("CHAP") EXCEPT !.silent = TRUE], Server({"chap"}),
             1, 2, [none EXCEPT !.lost = 1]),
    Scenario([Client("PAP") EXCEPT !.passive = TRUE], [Server({"pap"}) EXCEPT !.silent = TRUE],
             1, 1, [none EXCEPT !.lost = 1, !.early = 1]),
    Scenario(Client("CHAP"), [Server({"chap"}) EXCEPT !.protos = @ \ {"ipcp"}],
             1, 1, [none EXCEPT !.lost = 1]),
    Scenario(Mute, [Server({}) EXCEPT !.his = 0], 1, 1, [none EXCEPT !.lost = 1]),
    Scenario([Mute EXCEPT !.our = 30], Server({}), 1, 1, none),
    Scenario([Mute EXCEPT !.our = 20], [Server({}) EXCEPT !.his = 0], 1, 1, [none EXCEPT !.lost = 1]),
    Scenario([Mute EXCEPT !.echo = TRUE], Server({}), 1, 1, [none EXCEPT !.lost = 1])}

MCScenarios == Proofs \cup Again \cup Oddities

=============================================================================
