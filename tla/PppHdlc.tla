------------------------------ MODULE PppHdlc -------------------------------
(***************************************************************************)
(* PPP frames on a serial line (netif/ppp/pppif2.c): what pppifOutput and  *)
(* pppWrite make of a packet, byte by byte into pool pbufs, and what       *)
(* pppInProc makes of the bytes that come.                                 *)
(*                                                                         *)
(* Bytes are numbers, an accm the set of the bytes it names.  The sender   *)
(* is [accm, pcomp, accomp, lastXMit], the last one 0 or not; the        *)
(* receiver is the part of PPPControl that pppInProc works on, r.bufs the  *)
(* pbufs from inHead to inTail, r.tail whether inTail is one.              *)
(***************************************************************************)
EXTENDS Naturals, Sequences, SequencesExt, Folds

CONSTANTS PBUF_POOL_BUFSIZE

PPP_FLAG == 126
PPP_ESCAPE == 125
PPP_ALLSTATIONS == 255
PPP_UI == 3
PPP_INITFCS == 65535
PPP_GOODFCS == 61624
PPP_IP == 33

sizeof_pih == 8          \* struct pppInputHeader
ASSUME HdlcAssumption == PBUF_POOL_BUFSIZE \in Nat /\ PBUF_POOL_BUFSIZE > sizeof_pih

----------------------------------------------------------------------------
(* Exclusive or, four bits at a time. *)
Bit(a, k) == (a \div (2 ^ k)) % 2
Xor4 == [a \in 0..15, b \in 0..15 |->
            LET bit(k) == (Bit(a, k) + Bit(b, k)) % 2
            IN bit(0) + 2 * bit(1) + 4 * bit(2) + 8 * bit(3)]
Xor(a, b) ==
    LET nib(x, k) == (x \div (16 ^ k)) % 16
        at(k) == Xor4[nib(a, k), nib(b, k)]
    IN at(0) + 16 * at(1) + 256 * at(2) + 4096 * at(3)

(* The table in the source is the one this computes. *)
fcstab ==
    LET Shift(c) == IF c % 2 = 1 THEN Xor(c \div 2, 33800) ELSE c \div 2
    IN [n \in 0..255 |-> Shift(Shift(Shift(Shift(Shift(Shift(Shift(Shift(n))))))))]

PPP_FCS(fcs, c) == Xor(fcs \div 256, fcstab[Xor(fcs, c) % 256])
RECURSIVE pppfcs16(_, _)
pppfcs16(fcs, bytes) ==
    IF bytes = <<>> THEN fcs ELSE pppfcs16(PPP_FCS(fcs, Head(bytes)), Tail(bytes))

PPP_TRANS(c) == IF Bit(c, 5) = 0 THEN c + 32 ELSE c - 32

Appended(bufs, bytes) == [bufs EXCEPT ![Len(bufs)] = @ \o bytes]

(* What LCP has agreed on, once it is up. *)
ppp_send_config(tx, asyncmap, pcomp, accomp) ==
    [tx EXCEPT !.accm = {PPP_FLAG, PPP_ESCAPE} \cup asyncmap, !.pcomp = pcomp,
               !.accomp = accomp]
ppp_recv_config(r, asyncmap) == [r EXCEPT !.accm = {PPP_FLAG, PPP_ESCAPE} \cup asyncmap]

----------------------------------------------------------------------------
(* b is [bufs, ok, free]: the chain from headMB on, whether there is a     *)
(* tailMB, and what is left in the pool. *)
pppAppend(b, bytes) ==
    IF ~b.ok THEN b
    ELSE IF PBUF_POOL_BUFSIZE - Len(Last(b.bufs)) >= 2
         THEN [b EXCEPT !.bufs = Appended(@, bytes)]
         ELSE IF b.free = 0 THEN [b EXCEPT !.ok = FALSE]
              ELSE [b EXCEPT !.bufs = Append(@, bytes), !.free = @ - 1]

(* Mutant: what is in the accm goes as it is. *)
EscapesFlagsOnly(accm, c) ==
    IF c \in {PPP_FLAG, PPP_ESCAPE} THEN <<PPP_ESCAPE, PPP_TRANS(c)>> ELSE <<c>>

Escaped(accm, c) == IF c \in accm THEN <<PPP_ESCAPE, PPP_TRANS(c)>> ELSE <<c>>

(* The sender before that. *)
Unconfigured ==
    [accm |-> {PPP_FLAG, PPP_ESCAPE}, pcomp |-> FALSE, accomp |-> FALSE, lastXMit |-> 0]

(* A frame of content, behind a flag if it opens with one. *)
Frame(tx, opens, content, free) ==
    LET fcs == PPP_INITFCS - pppfcs16(PPP_INITFCS, content)
        escaped == [i \in 1..(Len(content) + 2) |->
                       Escaped(tx.accm, (content \o <<fcs % 256, fcs \div 256>>)[i])]
    IN IF free = 0 THEN [bufs |-> <<>>, ok |-> FALSE, free |-> 0]
       ELSE FoldLeft(pppAppend, [bufs |-> <<<<>>>>, ok |-> TRUE, free |-> free - 1],
                     (IF opens THEN <<<<PPP_FLAG>>>> ELSE <<>>) \o escaped \o <<<<PPP_FLAG>>>>)

(* lastXMit = 0 is longer ago than PPP_MAXIDLEFLAG. *)
pppifOutput(tx, data, idle, free) ==
    Frame(tx, idle \/ tx.lastXMit = 0,
          (IF tx.accomp THEN <<>> ELSE <<PPP_ALLSTATIONS, PPP_UI>>)
              \o (IF tx.pcomp THEN <<>> ELSE <<0>>) \o <<PPP_IP>> \o data,
          free)

(* proto is of two bytes; LCP puts address and control there itself. *)
pppWrite(tx, proto, data, free) ==
    Frame(tx, TRUE, <<PPP_ALLSTATIONS, PPP_UI, proto \div 256, proto % 256>> \o data, free)

(* Mutant: it does not matter that a frame was cut short. *)
PutHeedless(tx, bufs, cut) ==
    [tx |-> [tx EXCEPT !.lastXMit = 1], wrote |-> SubSeq(FlattenSeq(bufs), 1, cut)]

(* The device takes the first cut bytes, and is full then if that is not   *)
(* all: what follows in that pbuf, and the next ones, are given up. *)
nPut(tx, bufs, cut) ==
    [tx |-> [tx EXCEPT !.lastXMit = IF cut < Len(FlattenSeq(bufs)) THEN 0 ELSE 1],
     wrote |-> SubSeq(FlattenSeq(bufs), 1, cut)]

----------------------------------------------------------------------------
(* PPPDevStates. *)
PDIDLE == 0
PDSTART == 1
PDADDRESS == 2
PDCONTROL == 3
PDPROTOCOL1 == 4
PDPROTOCOL2 == 5
PDDATA == 6

(* pppOpen; r.posted is what tcpip_callback takes, while it has messages,  *)
(* r.missed counts what was lost for want of those or of pbufs. *)
NoFrame(free, messages) ==
    [inState |-> PDIDLE, inEscaped |-> FALSE, inFCS |-> PPP_INITFCS, inProtocol |-> 0,
     bufs |-> <<>>, tail |-> FALSE, accm |-> {PPP_FLAG, PPP_ESCAPE},
     free |-> free, messages |-> messages, posted |-> <<>>, missed |-> 0]

(* Mutant: the last pbuf, not yet chained to the first, is forgotten. *)
DropHead(r) ==
    LET chained == IF r.tail /\ Len(r.bufs) > 1 THEN Len(r.bufs) - 1 ELSE Len(r.bufs)
    IN [r EXCEPT !.bufs = <<>>, !.tail = FALSE, !.free = @ + chained]

pppDrop(r) ==
    [r EXCEPT !.bufs = <<>>, !.tail = FALSE, !.free = @ + Len(r.bufs)]

(* Mutant: the second byte of the FCS may be alone in the last pbuf. *)
CutInPlace(bufs) ==
    [bufs EXCEPT ![Len(bufs)] = SubSeq(@, 1, IF Len(@) < 2 THEN 0 ELSE Len(@) - 2)]

(* The FCS is cut off; pbuf_realloc frees what that empties. *)
WithoutFcs(bufs) ==
    LET n == Len(bufs)
        last == bufs[n] IN
    IF Len(last) >= 2 THEN [bufs EXCEPT ![n] = SubSeq(@, 1, Len(@) - 2)]
    ELSE [Front(bufs) EXCEPT ![n - 1] = SubSeq(@, 1, Len(@) - 1)]

Delivered(r) ==
    LET cut == WithoutFcs(r.bufs)
        freed == Len(r.bufs) - Len(cut)
        gone == [r EXCEPT !.bufs = <<>>, !.tail = FALSE] IN
    IF Len(r.posted) < r.messages
    THEN [gone EXCEPT !.posted = Append(@, cut), !.free = @ + freed]
    ELSE [gone EXCEPT !.free = @ + Len(r.bufs), !.missed = @ + 1]

Flagged(r) ==
    LET ended == IF r.inState <= PDADDRESS THEN r
                 ELSE IF r.inState < PDDATA \/ r.inFCS # PPP_GOODFCS THEN pppDrop(r)
                 ELSE Delivered(r)
    IN [ended EXCEPT !.inFCS = PPP_INITFCS, !.inState = PDADDRESS, !.inEscaped = FALSE]

(* A byte of data: a full pbuf is chained to the first, unless it is that. *)
Stored(r, c) ==
    IF r.tail /\ Len(Last(r.bufs)) < PBUF_POOL_BUFSIZE
    THEN [r EXCEPT !.bufs = Appended(@, <<c>>)]
    ELSE IF r.free = 0
    THEN [pppDrop([r EXCEPT !.tail = Len(r.bufs) = 1])
             EXCEPT !.inState = PDSTART, !.missed = @ + 1]
    ELSE [r EXCEPT !.bufs = Append(@, IF @ = <<>>
                                      THEN <<r.inProtocol, 0, 0, 0, 0, 0, 0, 0, c>> ELSE <<c>>),
                   !.tail = TRUE, !.free = @ - 1]

(* A byte of the frame, by the fields it runs through; a field that is not *)
(* there has been left out by the sender. *)
Field(r, c) ==
    LET s == r.inState IN
    CASE s <= PDADDRESS /\ c = PPP_ALLSTATIONS -> [r EXCEPT !.inState = PDCONTROL]
      [] s <= PDCONTROL /\ c = PPP_UI -> [r EXCEPT !.inState = PDPROTOCOL1]
      [] s = PDPROTOCOL2 -> [r EXCEPT !.inProtocol = @ + c, !.inState = PDDATA]
      [] s = PDDATA -> Stored(r, c)
      [] OTHER -> IF c % 2 = 1 THEN [r EXCEPT !.inProtocol = c, !.inState = PDDATA]
                  ELSE [r EXCEPT !.inProtocol = 256 * c, !.inState = PDPROTOCOL2]

Heard(r, c) ==
    LET fresh == [r EXCEPT !.inFCS = PPP_INITFCS]
        next == IF r.inState = PDIDLE /\ c # PPP_ALLSTATIONS THEN r
                ELSE Field(IF r.inState <= PDSTART THEN fresh ELSE r, c)
    IN [next EXCEPT !.inFCS = PPP_FCS(@, c)]

pppInByte(r, c) ==
    IF c \in r.accm
    THEN CASE c = PPP_ESCAPE -> [r EXCEPT !.inEscaped = TRUE]
           [] c = PPP_FLAG -> Flagged(r)
           [] OTHER -> r
    ELSE Heard([r EXCEPT !.inEscaped = FALSE], IF r.inEscaped THEN PPP_TRANS(c) ELSE c)

RECURSIVE pppInProc(_, _)
pppInProc(r, bytes) ==
    IF bytes = <<>> THEN r ELSE pppInProc(pppInByte(r, Head(bytes)), Tail(bytes))

=============================================================================
