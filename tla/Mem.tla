-------------------------------- MODULE Mem --------------------------------
(***************************************************************************)
(* The heap of lwIP, core/mem.c: one array "ram" cut into blocks, each     *)
(* starting with a struct mem header that links it to its neighbours.      *)
(*                                                                         *)
(* Every routine of mem.c runs between sys_sem_wait(mem_sem) and           *)
(* sys_sem_signal(mem_sem), so each is one action.  mem_reallocm is two    *)
(* critical sections with other threads free to run in between.            *)
(*                                                                         *)
(* hdr maps the offset of every live header to its fields.  A header that  *)
(* plug_holes absorbs leaves the domain: its bytes stay in ram, but the    *)
(* model makes reading them an error.                                      *)
(***************************************************************************)
EXTENDS Integers, FiniteSets, FiniteSetsExt

CONSTANTS MEM_SIZE,           \* bytes managed, the offset of ram_end
          MEM_ALIGNMENT,
          SIZEOF_STRUCT_MEM,  \* bytes of a header, alignment included
          MIN_SIZE,           \* smallest payload worth splitting off in a shrink
          Requests,           \* sizes callers ask for
          MaxDrift            \* bound of the model: bytes mem_used may miss

ASSUME MemAssumption ==
    /\ MEM_SIZE \in Nat /\ SIZEOF_STRUCT_MEM \in Nat \ {0}
    /\ MEM_SIZE >= SIZEOF_STRUCT_MEM
    /\ MEM_ALIGNMENT \in Nat \ {0} /\ MIN_SIZE \in Nat /\ MaxDrift \in Nat
    /\ Requests \subseteq Nat

VARIABLES hdr,      \* offset of a live header -> its next, prev and used
          lfree,    \* where mem_malloc starts its search
          mem_used, \* the byte count behind GetMemAvaible
          room,     \* offset of a block some caller holds -> bytes promised to it
          moving    \* the calls of mem_reallocm between their two critical sections

vars == <<hdr, lfree, mem_used, room, moving>>

Offsets == 0 .. MEM_SIZE
ram_end == MEM_SIZE
Header  == [next : Offsets, prev : Offsets, used : BOOLEAN]
Blocks(h) == DOMAIN h \ {ram_end}
Held == DOMAIN room

(* The bytes really taken by the blocks in use, and the part of them that  *)
(* mem_used misses.                                                        *)
Occupied == MapThenSumSet(LAMBDA p : hdr[p].next - p, Held)
Drift == Occupied - mem_used

(* Bytes of payload behind the header at p. *)
Payload(h, p) == h[p].next - p - SIZEOF_STRUCT_MEM

(* The rounding at the top of mem_malloc and mem_realloc. *)
Align(size) ==
    IF size % MEM_ALIGNMENT = 0 THEN size
    ELSE size + MEM_ALIGNMENT - ((size + SIZEOF_STRUCT_MEM) % MEM_ALIGNMENT)

(* Mutants of Fits: no room kept for the second header; a block in use.    *)
FitsNoSecondHeader(h, p, size) ==
    ~h[p].used /\ h[p].next - (p + SIZEOF_STRUCT_MEM) >= size
FitsUsedToo(h, p, size) ==
    h[p].next - (p + SIZEOF_STRUCT_MEM) >= size + SIZEOF_STRUCT_MEM
FitsAnySize(h, p, size) == ~h[p].used

(* The test of the search loop.  The subtraction is unsigned in C: a block *)
(* shorter than its own header would wrap around and pass.                 *)
Fits(h, p, size) ==
    /\ ~h[p].used
    /\ \/ h[p].next < p + SIZEOF_STRUCT_MEM
       \/ h[p].next - (p + SIZEOF_STRUCT_MEM) >= size + SIZEOF_STRUCT_MEM

(* The block at which the loop from lfree along next stops. *)
FirstFit(h, from, size, p) ==
    /\ p \in Blocks(h) /\ p >= from /\ Fits(h, p, size)
    /\ \A q \in Blocks(h) : q >= from /\ q < p => ~Fits(h, q, size)

(* Keep len bytes of payload at p and make a free block of the rest. *)
Carve(h, p, len) ==
    LET p2 == p + SIZEOF_STRUCT_MEM + len
    IN  [q \in DOMAIN h \cup {p2} |->
           IF q = p THEN [next |-> p2, prev |-> h[p].prev, used |-> TRUE]
           ELSE IF q = p2 THEN [next |-> h[p].next, prev |-> p, used |-> FALSE]
           ELSE IF q = h[p].next /\ q # ram_end THEN [h[q] EXCEPT !.prev = p2]
           ELSE h[q]]

(* Is the tail of a shrink to len bytes worth a block of its own? *)
TailSplits(len, have) == len + SIZEOF_STRUCT_MEM + MIN_SIZE < have

(* The block at m swallows n, the one after it. *)
Absorb(h, m, n) ==
    [q \in DOMAIN h \ {n} |->
        IF q = m THEN [h[m] EXCEPT !.next = h[n].next]
        ELSE IF q = h[n].next THEN [h[q] EXCEPT !.prev = m]
        ELSE h[q]]

(* Mutant of Join: lfree is left on the absorbed header. *)
JoinKeepLfree(s, m, n) == [hdr |-> Absorb(s.hdr, m, n), lfree |-> s.lfree]

(* One half of plug_holes: join m with its successor n, moving lfree off n. *)
Join(s, m, n) ==
    [hdr |-> Absorb(s.hdr, m, n), lfree |-> IF s.lfree = n THEN m ELSE s.lfree]

PlugForward(s, m) ==
    LET n == s.hdr[m].next
    IN  IF m # n /\ ~s.hdr[n].used /\ n # ram_end THEN Join(s, m, n) ELSE s

(* Mutant of PlugBackward: only the hole in front is plugged. *)
NoPlugBackward(s, m) == s

PlugBackward(s, m) ==
    LET b == s.hdr[m].prev
    IN  IF b # m /\ ~s.hdr[b].used THEN Join(s, b, m) ELSE s

plug_holes(s, m) == PlugBackward(PlugForward(s, m), m)

(* The first free header at or after p, or ram_end. *)
NextFree(h, p, q) ==
    /\ q \in DOMAIN h /\ q >= p /\ (~h[q].used \/ q = ram_end)
    /\ \A r \in DOMAIN h : r >= p /\ r < q => h[r].used

----------------------------------------------------------------------------
mem_init ==
    /\ hdr = [p \in {0, ram_end} |->
                 [next |-> ram_end, prev |-> p, used |-> p = ram_end]]
    /\ lfree = 0
    /\ mem_used = 0

Init ==
    /\ mem_init
    /\ room = [p \in {} |-> 0]
    /\ moving = {}

(* The critical section of mem_malloc when it finds block p.  When it      *)
(* finds none, or size is 0 or above MEM_SIZE, nothing changes.            *)
TakeBlock(size, p) ==
    LET len == Align(size)
    IN  /\ size # 0 /\ len <= MEM_SIZE
        /\ FirstFit(hdr, lfree, len, p)
        /\ hdr' = Carve(hdr, p, len)
        /\ mem_used' = mem_used + len + SIZEOF_STRUCT_MEM
        /\ IF p = lfree THEN NextFree(hdr', p, lfree') ELSE lfree' = lfree
        /\ room' = [q \in Held \cup {p} |-> IF q = p THEN len ELSE room[q]]

(* The critical section of mem_free for a block a caller holds. *)
GiveBlock(p) ==
    LET s == plug_holes([hdr   |-> [hdr EXCEPT ![p].used = FALSE],
                         lfree |-> IF p < lfree THEN p ELSE lfree], p)
    IN  /\ hdr' = s.hdr
        /\ lfree' = s.lfree
        /\ mem_used' = mem_used - (hdr[p].next - p)
        /\ room' = [q \in Held \ {p} |-> room[q]]

(* The critical section of mem_realloc.  It splits only when the tail is   *)
(* worth a block, but counts the bytes as returned in either case.         *)
ShrinkBlock(p, size) ==
    LET len  == Align(size)
        have == Payload(hdr, p)
        s    == plug_holes([hdr |-> Carve(hdr, p, len), lfree |-> lfree],
                           p + SIZEOF_STRUCT_MEM + len)
    IN  /\ len <= MEM_SIZE
        /\ IF TailSplits(len, have)
           THEN hdr' = s.hdr /\ lfree' = s.lfree
           ELSE UNCHANGED <<hdr, lfree>>
        /\ mem_used' = mem_used - (have - len)
        /\ room' = [room EXCEPT ![p] = len]

----------------------------------------------------------------------------
Idle(p) == \A m \in moving : p # m.old /\ p # m.new

mem_malloc(size) ==
    /\ \E p \in Blocks(hdr) : TakeBlock(size, p)
    /\ UNCHANGED moving

mem_free(p) ==
    /\ Idle(p)
    /\ GiveBlock(p)
    /\ UNCHANGED moving

(* Its caller, pbuf_realloc, only ever shrinks, and never to nothing. *)
mem_realloc(p, size) ==
    /\ Idle(p)
    /\ size # 0 /\ Align(size) <= room[p]
    /\ \/ TailSplits(Align(size), Payload(hdr, p))
       \/ Drift + Payload(hdr, p) - Align(size) <= MaxDrift
    /\ ShrinkBlock(p, size)
    /\ UNCHANGED moving

(* mem_reallocm allocates the new block first and frees the old one in a   *)
(* critical section of its own; when the heap is full it shrinks in place. *)
mem_reallocm_copy(p, size) ==
    /\ Idle(p)
    /\ Align(size) <= room[p]
    /\ \E n \in Blocks(hdr) :
          /\ TakeBlock(size, n)
          /\ moving' = moving \cup {[old |-> p, new |-> n]}

mem_reallocm_free(m) ==
    /\ GiveBlock(m.old)
    /\ moving' = moving \ {m}

mem_reallocm_inplace(p, size) ==
    /\ \A n \in Blocks(hdr) : ~FirstFit(hdr, lfree, Align(size), n)
    /\ mem_realloc(p, size)

Next ==
    \/ \E size \in Requests : mem_malloc(size)
    \/ \E p \in Held : mem_free(p)
    \/ \E p \in Held, size \in Requests : mem_realloc(p, size)
    \/ \E p \in Held, size \in Requests : mem_reallocm_copy(p, size)
    \/ \E m \in moving : mem_reallocm_free(m)
    \/ \E p \in Held, size \in Requests : mem_reallocm_inplace(p, size)

Spec == Init /\ [][Next]_vars

----------------------------------------------------------------------------
(* Types of the heap's state. *)
TypeOK ==
    /\ DOMAIN hdr \subseteq Offsets
    /\ hdr \in [DOMAIN hdr -> Header]
    /\ lfree \in Offsets
    /\ mem_used \in Int
    /\ Held \subseteq Offsets
    /\ room \in [Held -> Nat]
    /\ moving \subseteq [old : Offsets, new : Offsets]

(* The headers tile ram: next leads to the next header up, leaving at      *)
(* least a header's worth of bytes, and prev undoes it.                    *)
Tiled(h) ==
    /\ DOMAIN h \subseteq Offsets /\ h \in [DOMAIN h -> Header]
    /\ 0 \in DOMAIN h /\ ram_end \in DOMAIN h /\ h[ram_end].used
    /\ h[0].prev = 0
    /\ \A p \in Blocks(h) :
          /\ h[p].next \in DOMAIN h
          /\ h[p].next >= p + SIZEOF_STRUCT_MEM
          /\ \A q \in DOMAIN h : q <= p \/ q >= h[p].next
          /\ h[p].next # ram_end => h[h[p].next].prev = p
          /\ p # 0 => /\ h[p].prev \in Blocks(h)
                      /\ h[h[p].prev].next = p

(* No sequence of allocations, frees, shrinks and moves breaks the list of *)
(* headers: no overlap, no gap, no block shorter than a header (which the  *)
(* unsigned test of mem_malloc would take for a huge one).                 *)
HeapTiled == Tiled(hdr)

(* plug_holes leaves no two free blocks side by side, whatever the order   *)
(* in which neighbours are freed.                                          *)
FreeBlocksJoined ==
    \A p \in Blocks(hdr) : hdr[p].used \/ hdr[hdr[p].next].used

(* lfree always names a live free header: joining blocks never leaves it   *)
(* dangling, and the assertion "mem_malloc: !lfree->used" (mem.c:308)      *)
(* holds because the block below ram_end can never be handed out.          *)
LfreeIsFree ==
    /\ lfree \in Blocks(hdr) /\ ~hdr[lfree].used
    /\ \A p \in Blocks(hdr) : hdr[p].next = ram_end => ~hdr[p].used

(* The blocks marked used are exactly the ones callers hold, and each      *)
(* keeps the bytes its caller was promised through every shrink and move.  *)
CallersKeepTheirBytes ==
    /\ Held = {p \in Blocks(hdr) : hdr[p].used}
    /\ \A p \in Held : room[p] <= Payload(hdr, p)
    /\ \A m \in moving : m.old \in Held /\ m.new \in Held /\ m.old # m.new

(* All that the heap's headers and the callers' blocks rest on.            *)
HeapIsSound ==
    TypeOK /\ HeapTiled /\ FreeBlocksJoined /\ LfreeIsFree /\ CallersKeepTheirBytes
=============================================================================
