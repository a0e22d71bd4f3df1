----------------------------- MODULE MCNetconn -----------------------------
(* Instances of Netconn: who is there, and what he finds. *)
EXTENDS Netconn

CONSTANTS c1, c2

(* Two applications and the driver share two tcpip messages. *)
Crowded == [conns |-> {c1, c2}, tcpips |-> 2, sndBuf |-> 2, writeSize |-> 1,
            shortage |-> {"NEWCONN", "CONNECT"}, maxCalls |-> 3, maxShort |-> 1, maxErrors |-> 0]

(* One application writes more than the send buffer holds; TCP may be out  *)
(* of memory, and the connection may be reset. *)
Parts == [conns |-> {c1}, tcpips |-> 3, sndBuf |-> 1, writeSize |-> 2,
          shortage |-> {"NEWCONN", "WRITE"}, maxCalls |-> 4, maxShort |-> 1, maxErrors |-> 1]

(* Two applications write in two parts. *)
Both == [conns |-> {c1, c2}, tcpips |-> 4, sndBuf |-> 1, writeSize |-> 2,
         shortage |-> {}, maxCalls |-> 3, maxShort |-> 0, maxErrors |-> 0]

Passing == {Crowded, Parts}
Twice == {Both}
=============================================================================
