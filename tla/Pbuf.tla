-------------------------------- MODULE Pbuf --------------------------------
(***************************************************************************)
(* The packet buffers of core/pbuf.c, as operators on a heap of them: a    *)
(* function from their numbers to what is known of each.  A pbuf is in the *)
(* pool, or its room comes from the heap, or it refers to memory of        *)
(* somebody else; its number says which.  What the bytes mean is left to   *)
(* the modules that use it.                                                *)
(***************************************************************************)
EXTENDS Integers, Sequences, FiniteSets, FiniteSetsExt, SequencesExt

CONSTANTS PoolIds, RamIds, RefIds, PBUF_POOL_BUFSIZE

ASSUME PbufAssumption ==
    /\ PoolIds \cup RamIds \cup RefIds \subseteq Nat \ {0}
    /\ PBUF_POOL_BUFSIZE \in Nat \ {0}

NIL == 0
Ids == PoolIds \cup RamIds \cup RefIds
PBUF_IP_HLEN == 20
PBUF_LINK_HLEN == 16

(* "room" is what lies between the beginning of the buffer and payload. *)
Unused == [ref |-> 0, next |-> NIL, room |-> 0, len |-> 0, tot_len |-> 0]
pbuf_init == [i \in Ids |-> Unused]

RECURSIVE Chain(_, _)
Chain(b, p) == IF p = NIL THEN <<>> ELSE <<p>> \o Chain(b, b[p].next)

Lens(b, c) == [i \in DOMAIN c |-> b[c[i]].len]
Upto(lens, i) == FoldLeft(LAMBDA x, y : x + y, 0, SubSeq(lens, 1, i))

(* The room that is left for the headers of the layers below. *)
offset(layer) == CASE layer = "TRANSPORT" -> 20 + PBUF_IP_HLEN + PBUF_LINK_HLEN
                   [] layer = "IP"        -> PBUF_IP_HLEN + PBUF_LINK_HLEN
                   [] layer = "LINK"      -> PBUF_LINK_HLEN
                   [] layer = "RAW"       -> 0

FreeIn(b, ids) == {i \in ids : b[i].ref = 0}
None(b) == [b |-> b, p |-> NIL]

(* One pbuf, whose room is before the data. *)
Single(b, ids, room, length) ==
    IF FreeIn(b, ids) = {} THEN None(b)
    ELSE LET p == Min(FreeIn(b, ids))
         IN  [p |-> p, b |-> [b EXCEPT ![p] =
                 [ref |-> 1, next |-> NIL, room |-> room, len |-> length, tot_len |-> length]]]

(* A chain of as many as it takes; what has been taken of it goes back if  *)
(* the pool runs out on the way. *)
FromPool(b, room, length) ==
    LET first == PBUF_POOL_BUFSIZE - room
        n == 1 + (IF length <= first THEN 0
                  ELSE (length - first + PBUF_POOL_BUFSIZE - 1) \div PBUF_POOL_BUFSIZE)
        before(i) == IF i = 1 THEN 0 ELSE first + (i - 2) * PBUF_POOL_BUFSIZE
        unused == FreeIn(b, PoolIds)
        c == [i \in 1 .. Cardinality(unused) |->
                 CHOOSE x \in unused : Cardinality({y \in unused : y < x}) = i - 1]
        Nth(i) == [ref |-> 1, next |-> IF i = n THEN NIL ELSE c[i + 1],
                   room |-> IF i = 1 THEN room ELSE 0,
                   len |-> Min({length - before(i), IF i = 1 THEN first ELSE PBUF_POOL_BUFSIZE}),
                   tot_len |-> length - before(i)]
    IN  IF Len(c) < n THEN None(b)
        ELSE [p |-> c[1], b |-> [x \in Ids |->
                IF \E i \in 1 .. n : c[i] = x THEN Nth(CHOOSE i \in 1 .. n : c[i] = x) ELSE b[x]]]

pbuf_alloc(b, layer, length, flag) ==
    IF flag = "POOL" THEN FromPool(b, offset(layer), length)
    ELSE Single(b, IF flag = "RAM" THEN RamIds ELSE RefIds,
                IF flag = "RAM" THEN offset(layer) ELSE 0, length)

(* The reference count has sixteen bits, and it is not looked at before. *)
Dec(ref) == (ref + 65535) % 65536

(* From the front, those that nobody has any more. *)
pbuf_free(b, p) ==
    LET c == Chain(b, p)
        kept == {i \in DOMAIN c : Dec(b[c[i]].ref) # 0}
        n == IF kept = {} THEN Len(c) ELSE Min(kept) - 1
        Freed(x) == \E i \in 1 .. n : c[i] = x
    IN  [x \in Ids |-> IF Freed(x) THEN Unused
                       ELSE IF n < Len(c) /\ c[n + 1] = x THEN [b[x] EXCEPT !.ref = Dec(@)]
                       ELSE b[x]]

pbuf_ref(b, p) == [b EXCEPT ![p].ref = (@ + 1) % 65536]

(* Cut to new_len. *)
pbuf_realloc(b, p, new_len) ==
    LET c == Chain(b, p)
        lens == Lens(b, c)
        k == Min({i \in DOMAIN c : Upto(lens, i) >= new_len})
        rest == new_len - Upto(lens, k - 1)
        shrunk == [x \in Ids |->
            IF \E i \in 1 .. k - 1 : c[i] = x THEN [b[x] EXCEPT !.tot_len = @ + new_len - b[p].tot_len]
            ELSE IF c[k] = x THEN [b[x] EXCEPT !.len = rest, !.tot_len = rest, !.next = NIL]
            ELSE b[x]]
    IN  IF new_len >= b[p].tot_len THEN b
        ELSE IF k = Len(c) THEN shrunk ELSE pbuf_free(shrunk, c[k + 1])

(* Whether payload can be moved, and the heap when it is: to the front as  *)
(* far as there is room, to the back always. *)
CanMove(b, p, inc) == IF p \in RefIds THEN inc < 0 ELSE inc <= b[p].room
pbuf_header(b, p, inc) ==
    IF ~CanMove(b, p, inc) THEN b
    ELSE [b EXCEPT ![p].room = IF p \in RefIds THEN @ ELSE @ - inc,
                   ![p].len = @ + inc, ![p].tot_len = @ + inc]

pbuf_cat(b, h, t) ==
    LET c == Chain(b, h)
    IN  [x \in Ids |->
            IF \E i \in DOMAIN c : c[i] = x
            THEN [b[x] EXCEPT !.tot_len = @ + b[t].tot_len, !.next = IF x = c[Len(c)] THEN t ELSE @]
            ELSE b[x]]

pbuf_chain(b, h, t) == pbuf_ref(pbuf_cat(b, h, t), t)

OrElse(q, r) == IF q.p # NIL THEN q ELSE r

(* A copy of one pbuf that only refers to its data takes its place in the  *)
(* chain. *)
Copy(b, p) ==
    LET small == IF b[p].len <= PBUF_POOL_BUFSIZE THEN pbuf_alloc(b, "RAW", b[p].len, "POOL")
                 ELSE None(b)
    IN  OrElse(small, pbuf_alloc(b, "RAW", b[p].len, "RAM"))

Replace(b, prev, p, q) ==
    LET linked == [b EXCEPT ![q].next = b[p].next, ![q].tot_len = b[p].tot_len, ![p].next = NIL]
        b2 == IF prev = NIL THEN linked ELSE [linked EXCEPT ![prev].next = q]
    IN  pbuf_free(b2, p)

(* All of them; when there is no memory for a copy the whole chain is      *)
(* freed, whoever called. *)
RECURSIVE Take(_, _, _, _)
Take(b, head, prev, p) ==
    IF p = NIL THEN [b |-> b, p |-> head]
    ELSE IF p \notin RefIds THEN Take(b, head, p, b[p].next)
    ELSE LET q == Copy(b, p)
         IN  IF q.p = NIL THEN None(pbuf_free(b, head))
             ELSE Take(Replace(q.b, prev, p, q.p), IF prev = NIL THEN q.p ELSE head, q.p, b[p].next)

pbuf_take(b, p) == Take(b, p, NIL, p)
=============================================================================
