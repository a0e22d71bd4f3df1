------------------------------- MODULE MCLan --------------------------------
(* Small networks for TLC: each scenario has the hosts and the faults that *)
(* one question asks for. *)
EXTENDS Lan, TLC

CONSTANTS h1, h2, h3, srv, noServer

Far == 200

quiet == [lost |-> 0, early |-> 0, restarts |-> 0, unplugged |-> 0, asked |-> 0, minutes |-> 0]

(* Where the server puts its options: as they come, or in the other areas; *)
(* "cut" is where the chain of pbufs it arrives in is cut. *)
Needed == {"MESSAGE_TYPE", "SERVER_ID", "LEASE_TIME"}
Layout(own, sname, file, overload, cut) ==
    [options |-> own, sname |-> sname, file |-> file, overload |-> overload, cut |-> cut]
Plain == Layout(Needed \cup {"ROUTER"}, {}, {}, "NONE", 3)
Bare == Layout(Needed, {}, {}, "NONE", 3)
InFile == Layout({"OVERLOAD", "MESSAGE_TYPE"}, {}, {"SERVER_ID", "LEASE_TIME", "T1", "T2"}, "FILE", 2)
InSname == Layout({"OVERLOAD"}, Needed \cup {"ROUTER"}, {}, "SNAME", 1)
InBoth == Layout({"OVERLOAD", "MESSAGE_TYPE"}, {"SERVER_ID", "LEASE_TIME"}, {"ROUTER"}, "SNAME_FILE", 4)

Scene(ip, gw, hosts, sends, toCome) ==
    [ip |-> ip, gw |-> gw, hosts |-> hosts, sends |-> sends, faults |-> toCome,
     server |-> noServer, pool |-> {}, lease |-> 0, layout |-> Plain, aged |-> FALSE, trust |-> FALSE,
     preempt |-> FALSE, yields |-> FALSE]

(* A fixed address: 9. *)
Two == h1 :> 1 @@ h2 :> 2
Three == Two @@ h3 :> 3
Cache == {
    Scene(9, 1, Three, 2 :> 1 @@ 3 :> 1 @@ Far :> 1, quiet),
    Scene(9, 1, Two, 1 :> 1 @@ 2 :> 2, [quiet EXCEPT !.asked = 1]),
    [Scene(9, 1, Two, 2 :> 1 @@ Far :> 1, [quiet EXCEPT !.asked = 1, !.lost = 1]) EXCEPT !.yields = TRUE],
    [Scene(9, 0, Three, 2 :> 1 @@ 4 :> 1 @@ Far :> 1, [quiet EXCEPT !.asked = 2]) EXCEPT !.trust = TRUE],
    [Scene(9, 1, Two, 1 :> 1 @@ 2 :> 1, [quiet EXCEPT !.asked = 1]) EXCEPT !.aged = TRUE],
    [Scene(9, 1, Three, 1 :> 1 @@ 2 :> 1, [quiet EXCEPT !.asked = 1]) EXCEPT
         !.preempt = TRUE, !.yields = TRUE]}

(* An address from the server, 10 or 11; h1 has 10 already, if it is   *)
(* there. *)
Leased(hosts, lease, toCome) ==
    [Scene(ANY, ANY, hosts @@ srv :> 1, 2 :> 1, toCome) EXCEPT
         !.server = srv, !.pool = {10, 11}, !.lease = lease]
Leases == {
    Leased(h2 :> 2, 2, [quiet EXCEPT !.lost = 2, !.minutes = 2]),
    [Leased(h1 :> 10, 2, [quiet EXCEPT !.lost = 1, !.minutes = 1]) EXCEPT !.layout = InFile],
    [Leased(h1 :> 10, 2, [quiet EXCEPT !.early = 2, !.asked = 1]) EXCEPT !.layout = Bare],
    [Leased(h2 :> 2, 2, [quiet EXCEPT !.restarts = 1, !.minutes = 3, !.unplugged = 1]) EXCEPT
         !.layout = InSname],
    Leased(h2 :> 2, 2, [quiet EXCEPT !.early = 1, !.lost = 1, !.minutes = 3, !.unplugged = 1]),
    [Leased(h2 :> 2, 6, [quiet EXCEPT !.minutes = 7]) EXCEPT !.layout = InBoth],
    [Leased(h1 :> 10, 2, [quiet EXCEPT !.early = 2, !.minutes = 1]) EXCEPT !.preempt = TRUE]}

MCScenarios == Cache \cup Leases
=============================================================================
