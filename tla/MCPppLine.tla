----------------------------- MODULE MCPppLine ------------------------------
(* A serial line with short packets and small pbufs, and a unit among up to *)
(* two concentrators, for TLC: each scenario has the settings and the       *)
(* faults that one question asks for. *)
EXTENDS PppLine

none == [cut |-> 0, hit |-> 0, inserted |-> 0, lost |-> 0, doubled |-> 0, delayed |-> 0,
         refused |-> 0, ends |-> 0, forgets |-> 0, taken |-> 0]
Base == [escaped |-> {}, compressed |-> FALSE, ignored |-> {}, packets |-> <<>>,
         closes |-> <<>>, acs |-> <<>>, pbufs |-> 1, replies |-> 0, steady |-> FALSE,
         pool |-> 8, messages |-> 2, faults |-> none]

Ip(data) == [proto |-> PPP_IP, data |-> data]
Lcp(data) == [proto |-> 49185, data |-> data]
Serial(packets, toCome) ==
    [Base EXCEPT !.packets = packets, !.faults = toCome]

(* Packets of 1 to 6 bytes end at every place of a pbuf of 12. *)
Lengths == {Serial(<<Ip([i \in 1..n |-> 126 - i]), Lcp(<<1, 3>>)>>, [none EXCEPT !.cut = 1]) : n \in 1..6}

Serials == Lengths \cup {
    [Serial(<<Ip(<<126, 17>>), Ip(<<69, 125, 3>>), Ip(<<255, 3>>)>>, [none EXCEPT !.cut = 1, !.inserted = 1])
        EXCEPT !.escaped = {3, 17}, !.ignored = {17}, !.compressed = TRUE],
    Serial(<<Ip(<<69>>), Lcp(<<126>>), Ip(<<1, 2>>)>>, [none EXCEPT !.hit = 1]),
    [Serial(<<Ip(<<69, 1, 2, 3>>), Ip(<<4, 5>>)>>, [none EXCEPT !.taken = 3]) EXCEPT !.pool = 5],
    [Serial(<<Ip(<<1>>), Ip(<<2>>), Ip(<<3>>)>>, [none EXCEPT !.taken = 1]) EXCEPT !.messages = 1]}

Ethernet(servers, closes, toCome) ==
    [Base EXCEPT !.acs = servers, !.closes = closes, !.faults = toCome, !.packets = <<1>>,
                 !.replies = 1]

byUser == "pppClose"
byCall == "pppOverEthernetClose"
Ethernets == {
    [Ethernet(<<"yes">>, <<byUser, byUser>>, [none EXCEPT !.lost = 3]) EXCEPT !.steady = TRUE],
    [Ethernet(<<"yes", "yes">>, <<byUser>>, [none EXCEPT !.lost = 3]) EXCEPT !.steady = TRUE],
    Ethernet(<<"yes", "yes">>, <<byCall, byUser>>, [none EXCEPT !.lost = 1, !.doubled = 1]),
    Ethernet(<<"no">>, <<byUser, byUser>>, none),
    Ethernet(<<"error", "yes">>, <<byUser>>, [none EXCEPT !.lost = 1]),
    Ethernet(<<"leaves", "yes">>, <<byUser, byUser>>, [none EXCEPT !.lost = 1]),
    Ethernet(<<"error">>, <<byUser>>, none),
    Ethernet(<<"yes">>, <<byUser, byCall>>, [none EXCEPT !.refused = 1, !.ends = 1]),
    [Ethernet(<<"yes">>, <<byCall, byUser>>, [none EXCEPT !.forgets = 1]) EXCEPT !.replies = 2],
    Ethernet(<<"yes", "yes">>, <<byUser, byCall>>, [none EXCEPT !.delayed = 2]),
    [Ethernet(<<"yes">>, <<byUser, byUser>>, [none EXCEPT !.taken = 2]) EXCEPT !.pool = 1],
    [Ethernet(<<"yes">>, <<byUser, byCall>>, [none EXCEPT !.taken = 2]) EXCEPT !.pool = 3, !.pbufs = 2]}

MCScenarios == Serials \cup Ethernets

=============================================================================
