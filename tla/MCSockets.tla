----------------------------- MODULE MCSockets -----------------------------
(* An instance of Sockets. *)
EXTENDS Sockets

CONSTANTS r1, r2

Quiet0 == [ports |-> {}, addrs |-> {}, options |-> {}, servers |-> {}, hosts |-> {}, segs |-> {},
           fins |-> {"sent"}, full |-> FALSE, listens |-> FALSE, most |-> 1]

(* Clients connect from any port, and close. *)
Clients == [Quiet0 EXCEPT !.servers = {r1}, !.hosts = {r1}, !.segs = {"SYNACK", "FINACK"},
                          !.most = 2]

(* One client looks after its connection. *)
Keeper == [Quiet0 EXCEPT !.servers = {r1}, !.hosts = {r1}, !.segs = {"SYNACK", "FIN"},
                         !.options = {"KEEPALIVE"}, !.fins = {"sent", "none"}]

(* One client whose peer's window may be full. *)
Slow == [Quiet0 EXCEPT !.servers = {r1}, !.hosts = {r1}, !.segs = {"SYNACK", "ACK", "FIN"},
                       !.fins = {"sent", "held"}, !.full = TRUE]

(* A server on a port of its own, and those that come to it. *)
Server == [Quiet0 EXCEPT !.ports = {1}, !.addrs = {ANY}, !.hosts = {r1, r2},
                         !.segs = {"SYN", "ACK"}, !.listens = TRUE]

(* Two clients bind to a port of theirs, or to any. *)
Bound == [Quiet0 EXCEPT !.ports = {0, 1}, !.addrs = {ANY, ME}, !.servers = {r1}, !.most = 2]

(* Two clients share a port by consent, and lose their connections. *)
Sharing == [Quiet0 EXCEPT !.ports = {1}, !.addrs = {ANY}, !.options = {"REUSEPORT"},
                          !.servers = {r1}, !.hosts = {r1}, !.segs = {"RST"}, !.most = 2]

(* Two listeners want the same port. *)
Listeners == [Quiet0 EXCEPT !.ports = {1}, !.addrs = {ANY, ME}, !.options = {"REUSEADDR"},
                            !.listens = TRUE, !.most = 2]

(* More sockets than there are control blocks. *)
Crowd == [Quiet0 EXCEPT !.listens = TRUE, !.most = 3]

(* A socket that is given many options. *)
Choosy == [Quiet0 EXCEPT !.options = {"NODELAY", "KEEPALIVE", "REUSEADDR", "REUSEPORT"},
                         !.listens = TRUE, !.servers = {r1}]

AllPlans == {Clients, Keeper, Slow, Server, Bound, Sharing, Listeners, Crowd, Choosy}
=============================================================================
