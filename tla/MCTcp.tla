------------------------------- MODULE MCTcp -------------------------------
(* Two connected hosts, and the receiving half of one that keeps segments  *)
(* out of sequence, each in the behaviours that begin with it: what is     *)
(* going to happen. *)
EXTENDS Tcp, TcpOoseq

Nothing == [f \in Faults |-> 0]
Both(client, server) == [h \in Hosts |-> IF h = Client THEN client ELSE server]

(* The client writes three segments; one segment is lost, one overtaken. *)
OneWay == [toWrite |-> Both(3, 0), halfCloses |-> {}, patient |-> {Server},
           budget |-> [Nothing EXCEPT !["losses"] = 1, !["overtakes"] = 1]]

(* A segment each way, and a client that closes and goes on reading. *)
HalfClosed == [toWrite |-> Both(1, 1), halfCloses |-> {Client}, patient |-> {},
               budget |-> [Nothing EXCEPT !["losses"] = 1]]

(* Memory is short once, and a timer runs out although an answer comes. *)
Short == [toWrite |-> Both(1, 0), halfCloses |-> {}, patient |-> {},
          budget |-> [Nothing EXCEPT !["early"] = 1, !["shortages"] = 1]]

(* Duplicates are enough for a fast retransmission. *)
Copied == [toWrite |-> Both(2, 0), halfCloses |-> {}, patient |-> {Server},
           budget |-> [Nothing EXCEPT !["copies"] = 3]]

(* Nothing goes wrong; the server waits for the client's end. *)
Smooth == [toWrite |-> Both(3, 0), halfCloses |-> {}, patient |-> {Server},
           budget |-> Nothing]

(* Nothing goes wrong; the client closes at once and reads what the server *)
(* sends, which closes last. *)
ClosedFirst == [toWrite |-> Both(0, 2), halfCloses |-> {Client}, patient |-> {Server},
                budget |-> Nothing]

Courses == {OneWay, HalfClosed, Short, Copied, Smooth}
LastAck == {ClosedFirst}

Seg(first, last) == [seqno |-> first, len |-> last - first + 1, fin |-> FALSE]

(* One or two bytes from every byte on: each overlaps its neighbours, and  *)
(* the same bytes may come alone and in pairs.  The FIN comes alone, or    *)
(* with the last bytes. *)
Mixed == {Seg(i, i) : i \in 1 .. StreamLen} \cup {Seg(i, i + 1) : i \in 1 .. StreamLen - 1}
            \cup {[seqno |-> StreamLen + 1 - k, len |-> k, fin |-> TRUE] : k \in {0, 2}}

----------------------------------------------------------------------------
VARIABLE part

streamVars == <<part, vars, ooseqVars>>

(* The part that is not looked at rests: two hosts that would not go on by *)
(* themselves, and a receiver that has everything. *)
TcpRests == Init /\ plan = Short
OoseqRests == /\ rcv_nxt = StreamLen + 2 /\ delivered = Stream(1, StreamLen) /\ eof = TRUE
              /\ ooseq = <<>> /\ held = 0 /\ lost = 0 /\ overlapped = FALSE

StreamInit == \/ part = "tcp" /\ Init /\ OoseqRests
              \/ part = "ooseq" /\ TcpRests /\ OoseqInit

StreamNext == /\ UNCHANGED part
              /\ \/ part = "tcp" /\ Next /\ UNCHANGED ooseqVars
                 \/ part = "ooseq" /\ OoseqNext /\ UNCHANGED vars

StreamSpec == StreamInit /\ [][StreamNext]_streamVars /\ Fairness /\ FairOoseq

(* In the end what is written has arrived, and what was taken has been     *)
(* given back, and so it stays. *)
StreamsArrive == <>[](Completed /\ AllArrived)
=============================================================================
