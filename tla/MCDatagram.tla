----------------------------- MODULE MCDatagram -----------------------------
(* Small networks for TLC: frames of 64 bytes of data, a buffer for        *)
(* reassembly of 192 bytes, pbufs of 64. *)
EXTENDS Datagram, TLC

Socket(type) == [op |-> "socket", type |-> type]
Bind(port) == [op |-> "bind", port |-> port]
Connect(to, port) == [op |-> "connect", to |-> to, port |-> port]
Disconnect == [op |-> "disconnect"]
Send(len) == [op |-> "send", len |-> len]
SendTo(to, port, len) == [op |-> "sendto", to |-> to, port |-> port, len |-> len]
Recv(len) == [op |-> "recvfrom", len |-> len]
Wait(who, place) == [op |-> "meet", who |-> who, place |-> place]
Close == [op |-> "close"]

Base == [on |-> 1 :> 1 @@ 2 :> 2 @@ 3 :> 1, resolved |-> 1 :> TRUE @@ 2 :> TRUE,
         netbufs |-> 4, tcpipmsgs |-> 6, kinds |-> {}, faults |-> 0, unplugged |-> {},
         script |-> [a \in Programs |-> <<>>]]
Scripts(q, s1, s2, s3) == [q EXCEPT !.script = 1 :> s1 @@ 2 :> s2 @@ 3 :> s3]

(* Three fragments and a small one, read in two parts. *)
Parts == Scripts(Base,
    <<Socket("UDP"), Wait(2, 3), SendTo(2, 7, 150), SendTo(2, 7, 20), Close>>,
    <<Socket("UDP"), Bind(7), Recv(100), Recv(400), Recv(400), Close>>, <<>>)

(* A question and its answer between hosts that do not know each other     *)
(* yet; then a third program asks for an echo. *)
Talk == Scripts([Base EXCEPT !.resolved = 1 :> FALSE @@ 2 :> FALSE],
    <<Socket("UDP"), Wait(2, 3), Connect(2, 7), Send(20), Recv(400), Disconnect, Close>>,
    <<Socket("UDP"), Bind(7), Recv(400), SendTo(1, 4096, 50), Close>>,
    <<Socket("RAW"), Bind(0), Wait(1, 8), SendTo(2, 0, 90), Recv(400), Close>>)

(* All that a network does to fragments. *)
Faulty == [Parts EXCEPT !.faults = 1, !.kinds = {"loss", "copy", "order", "damage", "delay"},
    !.script[1] = <<Socket("UDP"), Wait(2, 3), SendTo(2, 7, 150), SendTo(2, 7, 90)>>,
    !.script[2] = <<Socket("UDP"), Bind(7), Recv(100)>>]
Holes == [Faulty EXCEPT !.faults = 3, !.kinds = {"loss"}]

(* Two hosts send fragments to a third. *)
Crowd == [Base EXCEPT !.on = 1 :> 1 @@ 2 :> 2 @@ 3 :> 3,
    !.resolved = 1 :> TRUE @@ 2 :> TRUE @@ 3 :> TRUE,
    !.script = 1 :> <<Socket("UDP"), Wait(2, 3), SendTo(2, 7, 90)>>
            @@ 2 :> <<Socket("UDP"), Bind(7), Recv(400), Close>>
            @@ 3 :> <<Socket("UDP"), Wait(2, 3), SendTo(2, 7, 150)>>]

(* A neighbour that does not answer, too few netbufs. *)
Silent == Scripts([Base EXCEPT !.faults = 1, !.kinds = {"silence"}, !.resolved = 1 :> FALSE @@ 2 :> TRUE,
                   !.netbufs = 1],
    <<Socket("UDP"), SendTo(2, 7, 90), SendTo(2, 7, 20)>>, <<>>,
    <<Socket("RAW"), Bind(0), Wait(1, 3), SendTo(2, 0, 20)>>)

(* A link that goes, too large a datagram, a port nobody has, too few      *)
(* messages for the thread. *)
Scarce == Scripts([Base EXCEPT !.faults = 1, !.kinds = {"link"}, !.unplugged = {2}, !.tcpipmsgs = 2],
    <<Socket("UDP"), Wait(2, 3), SendTo(2, 7, 190), SendTo(2, 9, 30), Close>>,
    <<Socket("UDP"), Connect(1, 4096), Bind(7)>>, <<>>)

MCPlans == {Parts, Talk, Faulty, Holes, Crowd, Silent, Scarce}
MCPool == 1 .. 8
MCRam == 9 .. 14
MCRef == 15 .. 18
=============================================================================
