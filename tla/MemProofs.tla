----------------------------- MODULE MemProofs -----------------------------
(***************************************************************************)
(* Proofs about the heap.  The inductive invariant is the conjunction of   *)
(* the invariants Mem states: tiling makes the neighbours that plug_holes  *)
(* looks at well defined, the absence of adjacent free blocks makes one    *)
(* join on either side enough, and the free block below ram_end keeps      *)
(* lfree inside the heap.                                                  *)
(***************************************************************************)
EXTENDS Mem, TLAPS

LastIsFree(h) == \A p \in Blocks(h) : h[p].next = ram_end => ~h[p].used
Joined(h)     == \A p \in Blocks(h) : h[p].used \/ h[h[p].next].used
UsedBlocks(h) == {p \in Blocks(h) : h[p].used}

(* The state plug_holes works on. *)
Sound(s) ==
    /\ Tiled(s.hdr) /\ LastIsFree(s.hdr)
    /\ s.lfree \in Blocks(s.hdr) /\ ~s.hdr[s.lfree].used

(* Going from s to t removes no block in use and moves no end of one. *)
Keeps(s, t) ==
    /\ \A q \in DOMAIN t.hdr : q \in DOMAIN s.hdr /\ t.hdr[q].used = s.hdr[q].used
    /\ \A q \in UsedBlocks(s.hdr) : q \in DOMAIN t.hdr /\ t.hdr[q].next = s.hdr[q].next

(* The heap with what its callers hold. *)
HeapInv(h, lf, rm) ==
    /\ Sound([hdr |-> h, lfree |-> lf]) /\ Joined(h)
    /\ DOMAIN rm = UsedBlocks(h) /\ rm \in [DOMAIN rm -> Nat]
    /\ \A p \in DOMAIN rm : rm[p] <= Payload(h, p)

(* No block takes part in two moves at once. *)
MovesApart ==
    /\ moving \subseteq [old : Held, new : Held]
    /\ \A m \in moving : m.old # m.new
    /\ \A a, b \in moving : a # b => {a.old, a.new} \cap {b.old, b.new} = {}

Inv == HeapInv(hdr, lfree, room) /\ mem_used \in Int /\ MovesApart

(* Rounding a size gives a size. *)
LEMMA AlignNat ==
    ASSUME NEW size \in Nat
    PROVE  Align(size) \in Nat
BY MemAssumption DEF Align

(* Splitting a block that has room for a second header keeps the tiling.   *)
LEMMA CarveTiled ==
    ASSUME NEW h, Tiled(h), NEW p \in Blocks(h), NEW len \in Nat,
           h[p].next >= p + SIZEOF_STRUCT_MEM + len + SIZEOF_STRUCT_MEM
    PROVE  /\ Tiled(Carve(h, p, len))
           /\ LET p2 == p + SIZEOF_STRUCT_MEM + len
                  k  == Carve(h, p, len)
              IN  /\ p2 \notin DOMAIN h /\ DOMAIN k = DOMAIN h \cup {p2}
                  /\ p2 \in Blocks(k) /\ p < p2
                  /\ k[p].next = p2 /\ k[p].used
                  /\ k[p2].next = h[p].next /\ ~k[p2].used
                  /\ \A q \in DOMAIN h : q # p =>
                        k[q].next = h[q].next /\ k[q].used = h[q].used
<1> DEFINE p2 == p + SIZEOF_STRUCT_MEM + len
           k == Carve(h, p, len)
<1>1. /\ DOMAIN h \subseteq Offsets /\ p \in Nat /\ p # ram_end /\ h[p] \in Header
      /\ h[p].next \in DOMAIN h /\ h[p].next \in Nat /\ h[p].prev \in Offsets
      /\ \A q \in DOMAIN h : q <= p \/ q >= h[p].next
  BY MemAssumption DEF Tiled, Blocks, Offsets, Header
<1>2. p2 \in Offsets /\ p2 # ram_end /\ p < p2 /\ p2 < h[p].next /\ p2 \notin DOMAIN h
  BY <1>1, MemAssumption DEF Offsets, ram_end
<1>3. DOMAIN k = DOMAIN h \cup {p2}
  BY DEF Carve
<1>4. k[p] = [next |-> p2, prev |-> h[p].prev, used |-> TRUE]
  BY <1>1, <1>2 DEF Carve, Blocks
<1>5. k[p2] = [next |-> h[p].next, prev |-> p, used |-> FALSE]
  BY <1>1, <1>2 DEF Carve, Blocks
<1>6. \A q \in DOMAIN h : q # p =>
         /\ k[q].next = h[q].next /\ k[q].used = h[q].used
         /\ k[q].prev = IF q = h[p].next /\ q # ram_end THEN p2 ELSE h[q].prev
         /\ k[q] \in Header
  <2>1. SUFFICES ASSUME NEW q \in DOMAIN h, q # p
                 PROVE  /\ k[q].next = h[q].next /\ k[q].used = h[q].used
                        /\ k[q].prev = IF q = h[p].next /\ q # ram_end
                                       THEN p2 ELSE h[q].prev
                        /\ k[q] \in Header
    BY Zenon
  <2>2. h[q] \in Header /\ q # p2
    BY <1>2 DEF Tiled
  <2>3. k[q] = IF q = h[p].next /\ q # ram_end THEN [h[q] EXCEPT !.prev = p2] ELSE h[q]
    BY <2>1, <2>2, <1>3 DEF Carve
  <2>4. QED BY <2>2, <2>3, <1>2 DEF Header
<1>7. k \in [DOMAIN k -> Header]
  <2>1. ASSUME NEW q \in DOMAIN k
        PROVE  k[q] \in Header
    <3>1. CASE q = p
      BY <3>1, <1>1, <1>2, <1>4 DEF Header
    <3>2. CASE q = p2
      BY <3>2, <1>1, <1>2, <1>5 DEF Header, Blocks
    <3>3. CASE q # p /\ q # p2
      BY <3>3, <1>3, <1>6
    <3>4. QED BY <3>1, <3>2, <3>3
  <2>2. k = [q \in DOMAIN k |-> k[q]]
    BY DEF Carve
  <2>3. QED BY <2>1, <2>2
<1>8. \A q \in Blocks(h) : q # p => h[q].next # h[p].next /\ (q < p => h[q].next <= p) /\ (q > p => q >= h[p].next)
  <2>1. SUFFICES ASSUME NEW q \in Blocks(h), q # p
                 PROVE  /\ h[q].next # h[p].next
                        /\ q < p => h[q].next <= p
                        /\ q > p => q >= h[p].next
    OBVIOUS
  <2>2. /\ q \in Nat /\ h[q].next \in Nat /\ h[q].next > q /\ h[p].next > p
        /\ p <= q \/ p >= h[q].next
        /\ q <= p \/ q >= h[p].next
    BY <2>1, <1>1, <1>2, MemAssumption DEF Tiled, Blocks, Offsets, Header
  <2>3. QED BY <2>1, <2>2, <1>1
<1>9. ASSUME NEW q \in Blocks(k)
      PROVE  /\ k[q].next \in DOMAIN k
             /\ k[q].next >= q + SIZEOF_STRUCT_MEM
             /\ \A r \in DOMAIN k : r <= q \/ r >= k[q].next
             /\ k[q].next # ram_end => k[k[q].next].prev = q
             /\ q # 0 => /\ k[q].prev \in Blocks(k)
                         /\ k[k[q].prev].next = q
  <2>1. CASE q = p
    BY <2>1, <1>1, <1>2, <1>3, <1>4, <1>5, <1>6, MemAssumption DEF Tiled, Blocks, Offsets
  <2>2. CASE q = p2
    BY <2>2, <1>1, <1>2, <1>3, <1>4, <1>5, <1>6, MemAssumption DEF Tiled, Blocks, Offsets, ram_end
  <2>3. CASE q # p /\ q # p2
    <3>1. q \in Blocks(h) /\ q \in Nat /\ k[q].next = h[q].next
      BY <2>3, <1>1, <1>3, <1>6 DEF Blocks, Offsets
    <3>2. /\ h[q].next \in DOMAIN h /\ h[q].next >= q + SIZEOF_STRUCT_MEM
          /\ \A r \in DOMAIN h : r <= q \/ r >= h[q].next
      BY <3>1 DEF Tiled
    <3>3. p2 <= q \/ p2 >= h[q].next
      BY <3>1, <3>2, <2>3, <1>1, <1>2, <1>8 DEF Offsets
    <3>4. h[q].next # ram_end => k[h[q].next].prev = q
      <4>1. h[q].next # h[p].next
        BY <3>1, <2>3, <1>8
      <4>2. h[q].next # ram_end => h[h[q].next].prev = q
        BY <3>1 DEF Tiled
      <4>3. CASE h[q].next = p
        BY <4>2, <4>3, <1>1, <1>4, MemAssumption
      <4>4. CASE h[q].next # p
        BY <4>1, <4>2, <4>4, <3>2, <1>6
      <4>5. QED BY <4>3, <4>4
    <3>5. q # 0 => k[q].prev \in Blocks(k) /\ k[k[q].prev].next = q
      <4>1. CASE q = h[p].next
        <5>1. k[q].prev = p2
          BY <4>1, <3>1, <2>3, <1>6 DEF Blocks
        <5>2. QED BY <5>1, <4>1, <1>2, <1>3, <1>5 DEF Blocks
      <4>2. CASE q # h[p].next
        <5>1. k[q].prev = h[q].prev
          BY <4>2, <3>1, <2>3, <1>6 DEF Blocks
        <5>2. q # 0 => h[q].prev \in Blocks(h) /\ h[h[q].prev].next = q
          BY <3>1 DEF Tiled
        <5>3. q # 0 => h[q].prev # p
          BY <5>2, <4>2
        <5>4. QED BY <5>1, <5>2, <5>3, <1>3, <1>6 DEF Blocks
      <4>3. QED BY <4>1, <4>2
    <3>6. QED BY <3>1, <3>2, <3>3, <3>4, <3>5, <1>3
  <2>4. QED BY <2>1, <2>2, <2>3
<1>10. /\ 0 \in DOMAIN k /\ ram_end \in DOMAIN k /\ k[ram_end].used /\ k[0].prev = 0
  <2>1. 0 \in DOMAIN k /\ ram_end \in DOMAIN k /\ k[ram_end].used
    BY <1>1, <1>3, <1>6 DEF Tiled
  <2>2. k[0].prev = 0
    <3>1. h[p].next # 0
      BY <1>1, <1>2, MemAssumption DEF Offsets
    <3>2. CASE p = 0
      BY <3>2, <1>4 DEF Tiled
    <3>3. CASE p # 0
      BY <3>1, <3>3, <1>6 DEF Tiled
    <3>4. QED BY <3>2, <3>3
  <2>3. QED BY <2>1, <2>2
<1>11. Tiled(k)
  BY <1>1, <1>2, <1>3, <1>7, <1>9, <1>10 DEF Tiled
<1>12. QED
  BY <1>2, <1>3, <1>4, <1>5, <1>6, <1>11 DEF Blocks

(* Joining a block with the one after it keeps the tiling. *)
LEMMA AbsorbTiled ==
    ASSUME NEW h, Tiled(h), NEW m \in Blocks(h), NEW n,
           n = h[m].next, n # ram_end
    PROVE  /\ Tiled(Absorb(h, m, n))
           /\ n \in Blocks(h) /\ m # n /\ n # 0
           /\ Absorb(h, m, n)[m].next = h[n].next
           /\ \A q \in DOMAIN h \ {n} :
                 /\ Absorb(h, m, n)[q].used = h[q].used
                 /\ q # m => Absorb(h, m, n)[q].next = h[q].next
<1> DEFINE k == Absorb(h, m, n)
<1>1. /\ DOMAIN h \subseteq Offsets /\ m \in Nat /\ m # ram_end /\ h[m] \in Header
      /\ n \in DOMAIN h /\ n \in Nat /\ m < n /\ n \in Blocks(h) /\ n # 0 /\ n # m
      /\ h[n] \in Header /\ h[n].next \in DOMAIN h /\ h[n].next \in Nat /\ n < h[n].next
      /\ h[n].next >= n + SIZEOF_STRUCT_MEM /\ n >= m + SIZEOF_STRUCT_MEM
      /\ \A q \in DOMAIN h : (q <= m \/ q >= n) /\ (q <= n \/ q >= h[n].next)
  BY MemAssumption DEF Tiled, Blocks, Offsets, Header
<1>2. DOMAIN k = DOMAIN h \ {n}
  BY DEF Absorb
<1>3. /\ k[m].next = h[n].next /\ k[m].used = h[m].used /\ k[m].prev = h[m].prev
      /\ k[m] \in Header
  BY <1>1 DEF Absorb, Blocks, Header
<1>4. \A q \in DOMAIN h \ {n} : q # m =>
         /\ k[q].next = h[q].next /\ k[q].used = h[q].used
         /\ k[q].prev = IF q = h[n].next THEN m ELSE h[q].prev
         /\ k[q] \in Header
  BY <1>1 DEF Absorb, Tiled, Header, Blocks
<1>5. k \in [DOMAIN k -> Header]
  BY <1>2, <1>3, <1>4 DEF Absorb
<1>6. \A q \in Blocks(h) : q # m => h[q].next # n
  BY <1>1 DEF Tiled
<1>7. \A q \in Blocks(h) : q # n => h[q].next # h[n].next
  <2>1. SUFFICES ASSUME NEW q \in Blocks(h), q # n
                 PROVE  h[q].next # h[n].next
    OBVIOUS
  <2>2. /\ q \in Nat /\ h[q].next \in Nat /\ h[q].next > q
        /\ n <= q \/ n >= h[q].next
        /\ q <= n \/ q >= h[n].next
    BY <2>1, <1>1, MemAssumption DEF Tiled, Blocks, Offsets, Header
  <2>3. QED BY <2>1, <2>2, <1>1
<1>8. ASSUME NEW q \in Blocks(k)
      PROVE  /\ k[q].next \in DOMAIN k
             /\ k[q].next >= q + SIZEOF_STRUCT_MEM
             /\ \A r \in DOMAIN k : r <= q \/ r >= k[q].next
             /\ k[q].next # ram_end => k[k[q].next].prev = q
             /\ q # 0 => /\ k[q].prev \in Blocks(k)
                         /\ k[k[q].prev].next = q
  <2>1. q \in Blocks(h) /\ q # n /\ q \in Nat
    BY <1>1, <1>2 DEF Blocks, Offsets
  <2>2. q # 0 => h[q].prev \in Blocks(h) /\ h[h[q].prev].next = q
    BY <2>1 DEF Tiled
  <2>3. CASE q = m
    <3>1. /\ k[q].next \in DOMAIN k /\ k[q].next >= q + SIZEOF_STRUCT_MEM
          /\ \A r \in DOMAIN k : r <= q \/ r >= k[q].next
      BY <2>3, <1>1, <1>2, <1>3, MemAssumption DEF Offsets
    <3>2. k[q].next # ram_end => k[k[q].next].prev = q
      BY <2>3, <1>1, <1>3, <1>4
    <3>3. q # 0 => h[q].prev # n /\ h[q].prev # m
      BY <2>1, <2>2, <2>3, <1>1
    <3>4. q # 0 => k[q].prev \in Blocks(k) /\ k[k[q].prev].next = q
      BY <3>3, <2>2, <2>3, <1>2, <1>3, <1>4 DEF Blocks
    <3>5. QED BY <3>1, <3>2, <3>4
  <2>4. CASE q # m
    <3>0. k[q].next = h[q].next /\ h[q].next # n /\ h[q].next # h[n].next
      BY <2>1, <2>4, <1>4, <1>6, <1>7 DEF Blocks
    <3>1. /\ k[q].next \in DOMAIN k /\ k[q].next >= q + SIZEOF_STRUCT_MEM
          /\ \A r \in DOMAIN k : r <= q \/ r >= k[q].next
      BY <3>0, <2>1, <1>2 DEF Tiled
    <3>2. k[q].next # ram_end => k[k[q].next].prev = q
      <4>1. h[q].next # ram_end => h[h[q].next].prev = q
        BY <2>1 DEF Tiled
      <4>2. CASE h[q].next = m
        BY <4>1, <4>2, <3>0, <1>1, <1>3
      <4>3. CASE h[q].next # m
        BY <4>1, <4>3, <3>0, <3>1, <1>2, <1>4
      <4>4. QED BY <4>2, <4>3
    <3>3. q # 0 => k[q].prev \in Blocks(k) /\ k[k[q].prev].next = q
      <4>1. CASE q = h[n].next
        <5>1. k[q].prev = m
          BY <4>1, <2>1, <2>4, <1>4 DEF Blocks
        <5>2. QED BY <5>1, <4>1, <1>1, <1>2, <1>3 DEF Blocks
      <4>2. CASE q # h[n].next
        <5>1. k[q].prev = h[q].prev
          BY <4>2, <2>1, <2>4, <1>4 DEF Blocks
        <5>2. q # 0 => h[q].prev # n /\ h[q].prev # m
          BY <2>1, <2>2, <4>2
        <5>3. QED BY <5>1, <5>2, <2>2, <1>2, <1>4 DEF Blocks
      <4>3. QED BY <4>1, <4>2
    <3>4. QED BY <3>1, <3>2, <3>3
  <2>5. QED BY <2>3, <2>4
<1>9. 0 \in DOMAIN k /\ ram_end \in DOMAIN k /\ k[ram_end].used /\ k[0].prev = 0
  <2>1. 0 \in DOMAIN k /\ ram_end \in DOMAIN k
    BY <1>1, <1>2 DEF Tiled
  <2>2. k[ram_end].used
    BY <2>1, <1>1, <1>2, <1>4 DEF Tiled
  <2>3. k[0].prev = 0
    BY <2>1, <1>1, <1>2, <1>3, <1>4 DEF Tiled
  <2>4. QED BY <2>1, <2>2, <2>3
<1>10. Tiled(k)
  BY <1>1, <1>2, <1>5, <1>8, <1>9 DEF Tiled
<1>11. QED
  BY <1>1, <1>3, <1>4, <1>10

(* Joining two free neighbours keeps every block in use where it is.       *)
LEMMA JoinSound ==
    ASSUME NEW s, Sound(s), NEW m \in Blocks(s.hdr), ~s.hdr[m].used,
           NEW n, n = s.hdr[m].next, n # ram_end, ~s.hdr[n].used
    PROVE  LET t == Join(s, m, n)
           IN  /\ Sound(t) /\ Keeps(s, t)
               /\ DOMAIN t.hdr = DOMAIN s.hdr \ {n}
               /\ m \in Blocks(t.hdr) /\ n # m
               /\ t.hdr[m].next = s.hdr[n].next
               /\ \A q \in Blocks(t.hdr) : q # m => t.hdr[q].next = s.hdr[q].next
<1> DEFINE h == s.hdr
           k == Absorb(h, m, n)
           t == Join(s, m, n)
<1>1. Tiled(h) /\ LastIsFree(h) /\ s.lfree \in Blocks(h) /\ ~h[s.lfree].used
  BY DEF Sound
<1>2. /\ Tiled(k) /\ n \in Blocks(h) /\ m # n /\ k[m].next = h[n].next
      /\ \A q \in DOMAIN h \ {n} : /\ k[q].used = h[q].used
                                   /\ q # m => k[q].next = h[q].next
  BY <1>1, AbsorbTiled
<1>3. t.hdr = k /\ t.lfree = (IF s.lfree = n THEN m ELSE s.lfree)
  BY DEF Join
<1>4. DOMAIN k = DOMAIN h \ {n}
  BY DEF Absorb
<1>5. LastIsFree(k)
  <2>1. SUFFICES ASSUME NEW q \in Blocks(k), k[q].next = ram_end
                 PROVE  ~k[q].used
    BY DEF LastIsFree
  <2>2. q \in Blocks(h) /\ q # n /\ k[q].used = h[q].used
    BY <1>2, <1>4 DEF Blocks
  <2>3. CASE q = m
    BY <2>2, <2>3
  <2>4. CASE q # m
    BY <2>1, <2>2, <2>4, <1>1, <1>2 DEF LastIsFree, Blocks
  <2>5. QED BY <2>3, <2>4
<1>6. t.lfree \in Blocks(k) /\ ~k[t.lfree].used
  BY <1>1, <1>2, <1>3, <1>4 DEF Blocks
<1>7. Keeps(s, t)
  BY <1>2, <1>3, <1>4 DEF Keeps, UsedBlocks, Blocks
<1>8. QED
  BY <1>2, <1>3, <1>4, <1>5, <1>6, <1>7 DEF Sound, Blocks

(* All blocks but m and its predecessor are joined / but the predecessor. *)
JoinedBut(h, m) == \A p \in Blocks(h) :
                      p # m /\ h[p].next # m => h[p].used \/ h[h[p].next].used
JoinedAfter(h, m) == \A p \in Blocks(h) :
                        h[p].next # m => h[p].used \/ h[h[p].next].used

(* Two steps that keep the blocks in use keep them together. *)
LEMMA KeepsTrans ==
    ASSUME NEW s, NEW t, NEW u, Keeps(s, t), Keeps(t, u), Sound(s), Sound(t)
    PROVE  Keeps(s, u)
<1>1. ASSUME NEW q \in UsedBlocks(s.hdr)
      PROVE  q \in UsedBlocks(t.hdr)
  BY <1>1 DEF Keeps, UsedBlocks, Blocks
<1>2. QED BY <1>1 DEF Keeps

(* The forward half of plug_holes joins m with what follows it.            *)
LEMMA PlugForwardSound ==
    ASSUME NEW s, Sound(s), NEW m \in Blocks(s.hdr), ~s.hdr[m].used, JoinedBut(s.hdr, m)
    PROVE  LET t == PlugForward(s, m)
           IN  /\ Sound(t) /\ Keeps(s, t)
               /\ m \in Blocks(t.hdr) /\ ~t.hdr[m].used /\ JoinedAfter(t.hdr, m)
<1> DEFINE h == s.hdr
           n == h[m].next
           t == PlugForward(s, m)
<1>1. /\ n \in DOMAIN h /\ n # m /\ h[ram_end].used
      /\ n # ram_end => h[n].next # m /\ h[n].next \in DOMAIN h
                        /\ h[n].next # n
  <2>1. /\ DOMAIN h \subseteq Nat /\ n \in DOMAIN h /\ m \in DOMAIN h
        /\ n >= m + SIZEOF_STRUCT_MEM /\ h[ram_end].used
    BY MemAssumption DEF Sound, Tiled, Blocks, Offsets
  <2>2. n # ram_end => h[n].next \in DOMAIN h /\ h[n].next >= n + SIZEOF_STRUCT_MEM
    BY <2>1 DEF Sound, Tiled, Blocks
  <2>3. QED BY <2>1, <2>2, MemAssumption
<1>2. CASE ~h[n].used /\ n # ram_end
  <2>1. t = Join(s, m, n)
    BY <1>1, <1>2 DEF PlugForward
  <2>2. /\ Sound(t) /\ Keeps(s, t) /\ m \in Blocks(t.hdr)
        /\ DOMAIN t.hdr = DOMAIN h \ {n} /\ t.hdr[m].next = h[n].next
        /\ \A q \in Blocks(t.hdr) : q # m => t.hdr[q].next = h[q].next
    BY <1>2, <2>1, JoinSound
  <2>3. ~t.hdr[m].used
    BY <2>2 DEF Keeps, Blocks
  <2>4. ASSUME NEW p \in Blocks(t.hdr), t.hdr[p].next # m
        PROVE  t.hdr[p].used \/ t.hdr[t.hdr[p].next].used
    <3>1. t.hdr[p].next \in DOMAIN t.hdr /\ p \in Blocks(h) /\ p \in DOMAIN t.hdr
      BY <2>2 DEF Sound, Tiled, Blocks
    <3>2. CASE p = m
      <4>1. h[n].used \/ h[h[n].next].used
        BY <1>1, <1>2 DEF JoinedBut, Blocks
      <4>2. QED BY <4>1, <3>1, <3>2, <1>2, <2>2 DEF Keeps
    <3>3. CASE p # m
      <4>1. h[p].used \/ h[h[p].next].used
        BY <2>2, <2>4, <3>1, <3>3 DEF JoinedBut
      <4>2. QED BY <4>1, <3>1, <3>3, <2>2 DEF Keeps
    <3>4. QED BY <3>2, <3>3
  <2>5. QED BY <2>2, <2>3, <2>4 DEF JoinedAfter
<1>3. CASE h[n].used \/ n = ram_end
  <2>1. t = s
    BY <1>3 DEF PlugForward
  <2>2. Keeps(s, s)
    BY DEF Keeps, UsedBlocks, Blocks
  <2>3. h[n].used
    BY <1>1, <1>3
  <2>4. JoinedAfter(h, m)
    BY <2>3 DEF JoinedBut, JoinedAfter
  <2>5. QED BY <2>1, <2>2, <2>4
<1>4. QED BY <1>2, <1>3

(* The backward half leaves no two free neighbours at all. *)
LEMMA PlugBackwardSound ==
    ASSUME NEW s, Sound(s), NEW m \in Blocks(s.hdr), ~s.hdr[m].used, JoinedAfter(s.hdr, m)
    PROVE  LET t == PlugBackward(s, m)
           IN  Sound(t) /\ Keeps(s, t) /\ Joined(t.hdr)
<1> DEFINE h == s.hdr
           b == h[m].prev
           t == PlugBackward(s, m)
<1>0. /\ Tiled(h) /\ DOMAIN h \subseteq Nat /\ m \in DOMAIN h /\ m # ram_end
      /\ h[m].next \in DOMAIN h /\ h[m].next # m
      /\ \A p \in Blocks(h) : h[p].next = m => p = b
      /\ \A p \in Blocks(h) : p # h[p].next /\ h[p].next # 0
  <2>1. /\ Tiled(h) /\ DOMAIN h \subseteq Nat /\ m \in DOMAIN h /\ m # ram_end
        /\ \A p \in Blocks(h) : /\ h[p].next \in DOMAIN h
                                /\ h[p].next >= p + SIZEOF_STRUCT_MEM
                                /\ h[p].next = m => p = b
    BY DEF Sound, Tiled, Blocks, Offsets
  <2>2. \A p \in Blocks(h) : p \in Nat /\ p # h[p].next /\ h[p].next # 0
    BY <2>1, MemAssumption DEF Blocks
  <2>3. QED BY <2>1, <2>2
<1>1. CASE b # m /\ ~h[b].used
  <2>1. t = Join(s, b, m)
    BY <1>1 DEF PlugBackward
  <2>2. b \in Blocks(h) /\ h[b].next = m
    BY <1>0, <1>1 DEF Tiled
  <2>3. /\ Sound(t) /\ Keeps(s, t) /\ b \in Blocks(t.hdr)
        /\ DOMAIN t.hdr = DOMAIN h \ {m} /\ t.hdr[b].next = h[m].next
        /\ \A q \in Blocks(t.hdr) : q # b => t.hdr[q].next = h[q].next
    BY <1>0, <1>1, <2>1, <2>2, JoinSound
  <2>4. ASSUME NEW p \in Blocks(t.hdr)
        PROVE  t.hdr[p].used \/ t.hdr[t.hdr[p].next].used
    <3>1. t.hdr[p].next \in DOMAIN t.hdr /\ p \in Blocks(h) /\ p \in DOMAIN t.hdr
      BY <2>3 DEF Sound, Tiled, Blocks
    <3>2. CASE p = b
      <4>1. h[h[m].next].used
        BY <1>0 DEF JoinedAfter
      <4>2. QED BY <4>1, <3>1, <3>2, <2>3 DEF Keeps
    <3>3. CASE p # b
      <4>1. h[p].used \/ h[h[p].next].used
        BY <1>0, <3>1, <3>3 DEF JoinedAfter
      <4>2. QED BY <4>1, <3>1, <3>3, <2>3 DEF Keeps
    <3>4. QED BY <3>2, <3>3
  <2>5. QED BY <2>3, <2>4 DEF Joined
<1>2. CASE b = m \/ h[b].used
  <2>1. t = s
    BY <1>2 DEF PlugBackward
  <2>2. Keeps(s, s)
    BY DEF Keeps, UsedBlocks, Blocks
  <2>3. ASSUME NEW p \in Blocks(h)
        PROVE  h[p].used \/ h[h[p].next].used
    <3>1. CASE h[p].next = m
      BY <3>1, <1>0, <1>2
    <3>2. CASE h[p].next # m
      BY <3>2 DEF JoinedAfter
    <3>3. QED BY <3>1, <3>2
  <2>4. QED BY <2>1, <2>2, <2>3 DEF Joined
<1>3. QED BY <1>1, <1>2

(* plug_holes restores the heap around one newly freed block. *)
LEMMA PlugHoles ==
    ASSUME NEW s, Sound(s), NEW m \in Blocks(s.hdr), ~s.hdr[m].used, JoinedBut(s.hdr, m)
    PROVE  LET t == plug_holes(s, m)
           IN  Sound(t) /\ Keeps(s, t) /\ Joined(t.hdr)
<1> DEFINE f == PlugForward(s, m)
           t == plug_holes(s, m)
<1>1. /\ Sound(f) /\ Keeps(s, f) /\ m \in Blocks(f.hdr) /\ ~f.hdr[m].used
      /\ JoinedAfter(f.hdr, m)
  BY PlugForwardSound
<1>2. t = PlugBackward(f, m)
  BY DEF plug_holes
<1> HIDE DEF f
<1>3. Sound(t) /\ Keeps(f, t) /\ Joined(t.hdr)
  BY <1>1, <1>2, PlugBackwardSound
<1>4. QED BY <1>1, <1>3, KeepsTrans

----------------------------------------------------------------------------
(* A block found by the search is free and has room for a second header.   *)
LEMMA FitsRoom ==
    ASSUME NEW h, Tiled(h), NEW p \in Blocks(h), NEW len \in Nat, Fits(h, p, len)
    PROVE  /\ ~h[p].used
           /\ h[p].next >= p + SIZEOF_STRUCT_MEM + len + SIZEOF_STRUCT_MEM
<1>1. p \in Nat /\ h[p].next \in Nat /\ h[p].next >= p + SIZEOF_STRUCT_MEM
  BY DEF Tiled, Blocks, Offsets
<1>2. QED BY <1>1, MemAssumption DEF Fits

(* The critical section of mem_malloc hands out a block nobody held.       *)
LEMMA TakeBlockInv ==
    ASSUME HeapInv(hdr, lfree, room), mem_used \in Int,
           NEW size \in Nat, NEW p \in Blocks(hdr), TakeBlock(size, p)
    PROVE  /\ HeapInv(hdr', lfree', room') /\ mem_used' \in Int
           /\ p \notin Held /\ Held' = Held \cup {p}
<1> DEFINE len == Align(size)
           p2  == p + SIZEOF_STRUCT_MEM + len
           k   == Carve(hdr, p, len)
<1>0. /\ Tiled(hdr) /\ LastIsFree(hdr) /\ lfree \in Blocks(hdr) /\ ~hdr[lfree].used
      /\ Joined(hdr) /\ Held = UsedBlocks(hdr) /\ room \in [Held -> Nat]
      /\ \A q \in Held : room[q] <= Payload(hdr, q)
  BY DEF HeapInv, Sound, Held
<1>1. len \in Nat /\ hdr' = k
  BY AlignNat DEF TakeBlock
<1>2. ~hdr[p].used /\ hdr[p].next >= p + SIZEOF_STRUCT_MEM + len + SIZEOF_STRUCT_MEM
  BY <1>0, <1>1, FitsRoom DEF TakeBlock, FirstFit
<1>3. /\ Tiled(k) /\ p2 \notin DOMAIN hdr /\ DOMAIN k = DOMAIN hdr \cup {p2}
      /\ p2 \in Blocks(k) /\ p < p2
      /\ k[p].next = p2 /\ k[p].used /\ k[p2].next = hdr[p].next /\ ~k[p2].used
      /\ \A q \in DOMAIN hdr : q # p => k[q].next = hdr[q].next /\ k[q].used = hdr[q].used
  <2>1. Tiled(hdr) /\ hdr[p].next >= p + SIZEOF_STRUCT_MEM + len + SIZEOF_STRUCT_MEM
    BY <1>0, <1>2
  <2> HIDE DEF len
  <2>2. QED BY <2>1, <1>1, CarveTiled
<1>4. hdr[p].next \in DOMAIN hdr /\ hdr[p].next # p
  BY <1>0, MemAssumption DEF Tiled, Blocks, Offsets
<1> HIDE DEF k
<1>5. LastIsFree(k)
  BY <1>0, <1>3 DEF LastIsFree, Blocks
<1>6. Joined(k)
  <2>1. SUFFICES ASSUME NEW q \in Blocks(k)
                 PROVE  k[q].used \/ k[k[q].next].used
    BY DEF Joined
  <2>2. CASE q = p
    BY <2>2, <1>3
  <2>3. CASE q = p2
    BY <2>3, <1>0, <1>2, <1>3, <1>4 DEF Joined
  <2>4. CASE q # p /\ q # p2
    <3>1. q \in Blocks(hdr) /\ k[q].next = hdr[q].next /\ hdr[q].next \in DOMAIN hdr
      BY <2>4, <1>0, <1>3 DEF Blocks, Tiled
    <3>2. CASE hdr[q].next = p
      BY <3>1, <3>2, <1>3
    <3>3. CASE hdr[q].next # p
      BY <3>1, <3>3, <2>4, <1>0, <1>3 DEF Joined, Blocks
    <3>4. QED BY <3>2, <3>3
  <2>5. QED BY <2>2, <2>3, <2>4
<1>7. lfree' \in Blocks(k) /\ ~k[lfree'].used
  <2>1. CASE p = lfree
    <3>1. NextFree(k, p, lfree')
      BY <2>1, <1>1 DEF TakeBlock, k
    <3>2. lfree' # ram_end
      <4>1. p2 \in DOMAIN k /\ p2 \in Nat /\ ram_end \in Nat /\ p \in Nat
            /\ p2 < ram_end /\ p2 >= p
        BY <1>3, MemAssumption DEF Tiled, Blocks, Offsets, ram_end
      <4>2. QED BY <4>1, <3>1, <1>3 DEF NextFree
    <3>3. QED BY <3>1, <3>2 DEF NextFree, Blocks
  <2>2. CASE p # lfree
    <3>1. lfree' = lfree
      BY <2>2 DEF TakeBlock
    <3>2. QED BY <3>1, <2>2, <1>0, <1>3 DEF Blocks
  <2>3. QED BY <2>1, <2>2
<1>8. /\ room' = [q \in Held \cup {p} |-> IF q = p THEN len ELSE room[q]]
      /\ mem_used' = mem_used + len + SIZEOF_STRUCT_MEM
  BY DEF TakeBlock
<1>9. p \notin Held /\ Held' = Held \cup {p}
  BY <1>0, <1>2, <1>8 DEF Held, UsedBlocks
<1>10. DOMAIN room' = UsedBlocks(k)
  BY <1>0, <1>3, <1>8 DEF UsedBlocks, Blocks, Held
<1>11. \A q \in DOMAIN room' : room'[q] <= Payload(k, q)
  <2>1. SUFFICES ASSUME NEW q \in Held \cup {p}
                 PROVE  room'[q] <= Payload(k, q)
    BY <1>8
  <2>2. CASE q = p
    <3>1. p \in Nat
      BY <1>0 DEF Tiled, Blocks, Offsets
    <3>2. QED BY <3>1, <2>2, <1>1, <1>3, <1>8, MemAssumption DEF Payload
  <2>3. CASE q # p
    BY <2>3, <1>0, <1>3, <1>8 DEF Payload, UsedBlocks, Blocks
  <2>4. QED BY <2>2, <2>3
<1>12. mem_used' \in Int /\ room' \in [DOMAIN room' -> Nat]
  BY <1>0, <1>1, <1>8, MemAssumption
<1>13. QED
  BY <1>1, <1>3, <1>5, <1>6, <1>7, <1>9, <1>10, <1>11, <1>12 DEF HeapInv, Sound

(* The critical section of mem_free takes exactly that block back.         *)
LEMMA GiveBlockInv ==
    ASSUME HeapInv(hdr, lfree, room), mem_used \in Int,
           NEW p \in Held, GiveBlock(p)
    PROVE  /\ HeapInv(hdr', lfree', room') /\ mem_used' \in Int
           /\ Held' = Held \ {p}
<1> DEFINE g == [hdr EXCEPT ![p].used = FALSE]
           s == [hdr |-> g, lfree |-> IF p < lfree THEN p ELSE lfree]
           t == plug_holes(s, p)
<1>0. /\ Tiled(hdr) /\ LastIsFree(hdr) /\ lfree \in Blocks(hdr) /\ ~hdr[lfree].used
      /\ Joined(hdr) /\ Held = UsedBlocks(hdr) /\ room \in [Held -> Nat]
      /\ \A q \in Held : room[q] <= Payload(hdr, q)
  BY DEF HeapInv, Sound, Held
<1>1. p \in Blocks(hdr) /\ hdr[p].used /\ hdr[p] \in Header /\ hdr \in [DOMAIN hdr -> Header]
  BY <1>0 DEF UsedBlocks, Tiled, Blocks
<1>2. /\ DOMAIN g = DOMAIN hdr /\ ~g[p].used /\ g[p].next = hdr[p].next
      /\ \A q \in DOMAIN hdr : /\ g[q].next = hdr[q].next /\ g[q].prev = hdr[q].prev
                               /\ q # p => g[q].used = hdr[q].used
      /\ g \in [DOMAIN g -> Header]
  BY <1>1 DEF Header, Blocks
<1>3. Tiled(g)
  BY <1>0, <1>1, <1>2 DEF Tiled, Blocks
<1>4. LastIsFree(g)
  BY <1>0, <1>1, <1>2 DEF LastIsFree, Blocks
<1>5. Sound(s)
  BY <1>0, <1>1, <1>2, <1>3, <1>4 DEF Sound, Blocks
<1>6. JoinedBut(s.hdr, p)
  BY <1>0, <1>2 DEF JoinedBut, Joined, Tiled, Blocks
<1>7. p \in Blocks(s.hdr) /\ ~s.hdr[p].used
  BY <1>1, <1>2 DEF Blocks
<1>8. s.hdr = g
  OBVIOUS
<1>9. hdr' = t.hdr /\ lfree' = t.lfree /\ mem_used' = mem_used - (hdr[p].next - p)
      /\ room' = [q \in Held \ {p} |-> room[q]]
  BY DEF GiveBlock
<1>10. Held' = Held \ {p}
  BY <1>9 DEF Held
<1> HIDE DEF s, g
<1>11. Sound(t) /\ Keeps(s, t) /\ Joined(t.hdr)
  BY <1>5, <1>6, <1>7, PlugHoles
<1> HIDE DEF t
<1>12. UsedBlocks(g) = Held \ {p}
  BY <1>0, <1>2 DEF UsedBlocks, Blocks
<1>13. UsedBlocks(t.hdr) = Held \ {p}
  BY <1>8, <1>11, <1>12 DEF Keeps, UsedBlocks, Blocks
<1>14. \A q \in Held \ {p} : t.hdr[q].next = hdr[q].next
  BY <1>0, <1>2, <1>8, <1>11, <1>12 DEF Keeps, UsedBlocks, Blocks
<1>15. mem_used' \in Int
  BY <1>0, <1>1, <1>9 DEF Tiled, Blocks, Offsets
<1>16. \A q \in DOMAIN room' : room'[q] <= Payload(hdr', q)
  BY <1>0, <1>9, <1>14 DEF Payload
<1>17. QED
  BY <1>0, <1>9, <1>10, <1>11, <1>13, <1>15, <1>16 DEF HeapInv, Sound

(* The critical section of mem_realloc leaves every caller its bytes.      *)
LEMMA ShrinkBlockInv ==
    ASSUME HeapInv(hdr, lfree, room), mem_used \in Int, NEW p \in Held,
           NEW size \in Nat, Align(size) <= room[p], ShrinkBlock(p, size)
    PROVE  HeapInv(hdr', lfree', room') /\ mem_used' \in Int /\ Held' = Held
<1> DEFINE len  == Align(size)
           p2   == p + SIZEOF_STRUCT_MEM + len
           have == Payload(hdr, p)
           k    == Carve(hdr, p, len)
           s    == [hdr |-> k, lfree |-> lfree]
           t    == plug_holes(s, p2)
<1>0. /\ Tiled(hdr) /\ LastIsFree(hdr) /\ lfree \in Blocks(hdr) /\ ~hdr[lfree].used
      /\ Joined(hdr) /\ Held = UsedBlocks(hdr) /\ room \in [Held -> Nat]
      /\ \A q \in Held : room[q] <= Payload(hdr, q)
  BY DEF HeapInv, Sound, Held
<1>1. /\ p \in Blocks(hdr) /\ hdr[p].used /\ p \in Nat /\ hdr[p].next \in Nat
      /\ hdr[p].next \in DOMAIN hdr /\ len \in Nat /\ have \in Int /\ len <= have
      /\ hdr[p].next # p
  BY <1>0, AlignNat, MemAssumption DEF UsedBlocks, Tiled, Blocks, Offsets, Payload
<1>2. /\ mem_used' = mem_used - (have - len) /\ room' = [room EXCEPT ![p] = len]
      /\ IF TailSplits(len, have) THEN hdr' = t.hdr /\ lfree' = t.lfree
                                  ELSE hdr' = hdr /\ lfree' = lfree
  BY DEF ShrinkBlock
<1>3. /\ mem_used' \in Int /\ Held' = Held /\ DOMAIN room' = Held
      /\ room' \in [Held -> Nat] /\ room'[p] = len
      /\ \A q \in Held : q # p => room'[q] = room[q]
  BY <1>0, <1>1, <1>2 DEF Held
<1>4. CASE ~TailSplits(len, have)
  <2>1. \A q \in Held : room'[q] <= Payload(hdr, q)
    BY <1>0, <1>1, <1>3
  <2>2. QED BY <2>1, <1>0, <1>2, <1>3, <1>4 DEF HeapInv, Sound
<1>5. CASE TailSplits(len, have)
  <2>1. hdr[p].next >= p + SIZEOF_STRUCT_MEM + len + SIZEOF_STRUCT_MEM
    BY <1>1, <1>5, MemAssumption DEF TailSplits, Payload
  <2>2. /\ Tiled(k) /\ p2 \notin DOMAIN hdr /\ DOMAIN k = DOMAIN hdr \cup {p2}
        /\ p2 \in Blocks(k)
        /\ k[p].next = p2 /\ k[p].used /\ k[p2].next = hdr[p].next /\ ~k[p2].used
        /\ \A q \in DOMAIN hdr : q # p => k[q].next = hdr[q].next /\ k[q].used = hdr[q].used
    BY <2>1, <1>0, <1>1, CarveTiled
  <2> HIDE DEF k
  <2>3. s.hdr = k /\ s.lfree = lfree
    OBVIOUS
  <2>4. Sound(s)
    <3>1. LastIsFree(k)
      BY <2>2, <1>0, <1>1 DEF LastIsFree, Blocks
    <3>2. lfree \in Blocks(k) /\ ~k[lfree].used
      BY <2>2, <1>0, <1>1 DEF Blocks
    <3>3. QED BY <3>1, <3>2, <2>2, <2>3 DEF Sound
  <2>5. JoinedBut(k, p2)
    <3>1. SUFFICES ASSUME NEW q \in Blocks(k), q # p2, k[q].next # p2
                   PROVE  k[q].used \/ k[k[q].next].used
      BY DEF JoinedBut
    <3>2. q # p /\ q \in Blocks(hdr) /\ k[q].next = hdr[q].next /\ hdr[q].next \in DOMAIN hdr
      BY <3>1, <2>2, <1>0 DEF Blocks, Tiled
    <3>3. QED BY <3>2, <2>2, <1>0 DEF Joined, Blocks
  <2> HIDE DEF s, p2
  <2>6. Sound(t) /\ Keeps(s, t) /\ Joined(t.hdr)
    BY <2>2, <2>3, <2>4, <2>5, PlugHoles
  <2> HIDE DEF t
  <2>7. UsedBlocks(k) = Held
    BY <2>2, <1>0, <1>1 DEF UsedBlocks, Blocks
  <2>8. UsedBlocks(t.hdr) = Held
    BY <2>3, <2>6, <2>7 DEF Keeps, UsedBlocks, Blocks
  <2>9. \A q \in Held : t.hdr[q].next = k[q].next
    BY <2>3, <2>6, <2>7 DEF Keeps
  <2>10. \A q \in Held : room'[q] <= Payload(t.hdr, q)
    <3>1. SUFFICES ASSUME NEW q \in Held
                   PROVE  room'[q] <= Payload(t.hdr, q)
      OBVIOUS
    <3>2. CASE q = p
      BY <3>2, <2>2, <2>9, <1>1, <1>3, MemAssumption DEF Payload, p2
    <3>3. CASE q # p
      BY <3>3, <2>2, <2>9, <1>0, <1>3 DEF Payload, UsedBlocks, Blocks
    <3>4. QED BY <3>2, <3>3
  <2>11. hdr' = t.hdr /\ lfree' = t.lfree
    BY <1>2, <1>5
  <2>12. QED BY <2>6, <2>8, <2>10, <2>11, <1>3 DEF HeapInv, Sound
<1>6. QED BY <1>4, <1>5

----------------------------------------------------------------------------
(* mem_init establishes the invariant. *)
LEMMA InitInv == Init => Inv
<1> SUFFICES ASSUME Init PROVE Inv
  OBVIOUS
<1>1. /\ DOMAIN hdr = {0, ram_end} /\ lfree = 0 /\ mem_used = 0
      /\ DOMAIN room = {} /\ moving = {} /\ ram_end \in Nat /\ ram_end # 0
      /\ hdr[0] = [next |-> ram_end, prev |-> 0, used |-> FALSE]
      /\ hdr[ram_end] = [next |-> ram_end, prev |-> ram_end, used |-> TRUE]
      /\ room \in [{} -> Nat]
  <2>1. ram_end \in Nat /\ ram_end # 0
    BY MemAssumption DEF ram_end
  <2>2. lfree = 0 /\ mem_used = 0 /\ moving = {} /\ room = [p \in {} |-> 0]
        /\ hdr = [p \in {0, ram_end} |->
                     [next |-> ram_end, prev |-> p, used |-> p = ram_end]]
    BY DEF Init, mem_init
  <2>3. DOMAIN room = {} /\ room \in [{} -> Nat]
    BY <2>2
  <2>4. DOMAIN hdr = {0, ram_end}
    BY <2>2
  <2>5. /\ hdr[0] = [next |-> ram_end, prev |-> 0, used |-> 0 = ram_end]
        /\ hdr[ram_end] = [next |-> ram_end, prev |-> ram_end, used |-> ram_end = ram_end]
    BY <2>2
  <2>6. (0 = ram_end) = FALSE /\ (ram_end = ram_end) = TRUE
    BY <2>1
  <2>7. QED BY <2>1, <2>2, <2>3, <2>4, <2>5, <2>6
<1>2. Blocks(hdr) = {0}
  BY <1>1 DEF Blocks
<1>3. hdr \in [DOMAIN hdr -> Header] /\ DOMAIN hdr \subseteq Offsets
  BY <1>1, MemAssumption DEF Header, Offsets, ram_end, Init, mem_init
<1>4. Tiled(hdr)
  BY <1>1, <1>2, <1>3, MemAssumption DEF Tiled, ram_end
<1>5. HeapInv(hdr, lfree, room)
  BY <1>1, <1>2, <1>4 DEF HeapInv, Sound, LastIsFree, Joined, UsedBlocks
<1>6. QED BY <1>1, <1>5 DEF Inv, MovesApart, Held

(* Every call preserves it. *)
LEMMA NextInv == Inv /\ [Next]_vars => Inv'
<1> SUFFICES ASSUME Inv, [Next]_vars PROVE Inv'
  OBVIOUS
<1>0. HeapInv(hdr, lfree, room) /\ mem_used \in Int /\ MovesApart /\ Requests \subseteq Nat
  BY MemAssumption DEF Inv
<1>1. ASSUME NEW size \in Requests, mem_malloc(size)
      PROVE  Inv'
  <2>1. PICK p \in Blocks(hdr) : TakeBlock(size, p)
    BY <1>1 DEF mem_malloc
  <2>2. HeapInv(hdr', lfree', room') /\ mem_used' \in Int /\ Held' = Held \cup {p}
    BY <2>1, <1>0, TakeBlockInv
  <2>3. MovesApart'
    BY <2>2, <1>0, <1>1 DEF MovesApart, mem_malloc
  <2>4. QED BY <2>2, <2>3 DEF Inv
<1>2. ASSUME NEW p \in Held, mem_free(p)
      PROVE  Inv'
  <2>1. HeapInv(hdr', lfree', room') /\ mem_used' \in Int /\ Held' = Held \ {p}
    BY <1>0, <1>2, GiveBlockInv DEF mem_free
  <2>2. MovesApart'
    <3>1. moving' = moving /\ \A m \in moving : p # m.old /\ p # m.new
      BY <1>2 DEF mem_free, Idle
    <3>2. QED BY <3>1, <2>1, <1>0 DEF MovesApart
  <2>3. QED BY <2>1, <2>2 DEF Inv
<1>3. ASSUME NEW p \in Held, NEW size \in Requests, mem_realloc(p, size)
      PROVE  Inv'
  <2>1. HeapInv(hdr', lfree', room') /\ mem_used' \in Int /\ Held' = Held
    BY <1>0, <1>3, ShrinkBlockInv DEF mem_realloc
  <2>2. MovesApart'
    BY <2>1, <1>0, <1>3 DEF MovesApart, mem_realloc
  <2>3. QED BY <2>1, <2>2 DEF Inv
<1>4. ASSUME NEW p \in Held, NEW size \in Requests, mem_reallocm_copy(p, size)
      PROVE  Inv'
  <2>1. PICK n \in Blocks(hdr) : TakeBlock(size, n)
                                 /\ moving' = moving \cup {[old |-> p, new |-> n]}
    BY <1>4 DEF mem_reallocm_copy
  <2>2. /\ HeapInv(hdr', lfree', room') /\ mem_used' \in Int
        /\ n \notin Held /\ Held' = Held \cup {n}
    BY <2>1, <1>0, TakeBlockInv
  <2>3. MovesApart'
    <3>1. \A m \in moving : /\ m \in [old : Held, new : Held]
                            /\ p # m.old /\ p # m.new /\ n # m.old /\ n # m.new
      BY <1>0, <1>4, <2>2 DEF mem_reallocm_copy, Idle, MovesApart
    <3>2. QED BY <3>1, <2>1, <2>2, <1>0 DEF MovesApart
  <2>4. QED BY <2>2, <2>3 DEF Inv
<1>5. ASSUME NEW m \in moving, mem_reallocm_free(m)
      PROVE  Inv'
  <2>1. m.old \in Held
    BY <1>0 DEF MovesApart
  <2>2. HeapInv(hdr', lfree', room') /\ mem_used' \in Int /\ Held' = Held \ {m.old}
    BY <2>1, <1>0, <1>5, GiveBlockInv DEF mem_reallocm_free
  <2>3. MovesApart'
    <3>1. moving' = moving \ {m}
      BY <1>5 DEF mem_reallocm_free
    <3>2. \A a \in moving \ {m} : a.old # m.old /\ a.new # m.old
      BY <1>0 DEF MovesApart
    <3>3. QED BY <3>1, <3>2, <2>2, <1>0 DEF MovesApart
  <2>4. QED BY <2>2, <2>3 DEF Inv
<1>6. ASSUME NEW p \in Held, NEW size \in Requests, mem_reallocm_inplace(p, size)
      PROVE  Inv'
  BY <1>3, <1>6 DEF mem_reallocm_inplace
<1>7. CASE UNCHANGED vars
  BY <1>0, <1>7 DEF vars, Inv, MovesApart, Held, HeapInv, Sound
<1>8. QED
  BY <1>1, <1>2, <1>3, <1>4, <1>5, <1>6, <1>7 DEF Next

(* So it always holds. *)
LEMMA InvHolds == Spec => []Inv
BY InitInv, NextInv, PTL DEF Spec

(* The heap's state stays of its types, whatever the callers do. *)
THEOREM HeapTypes == Spec => []TypeOK
<1>1. Inv => TypeOK
  BY DEF Inv, HeapInv, Sound, Tiled, TypeOK, UsedBlocks, Blocks, Held, MovesApart, Offsets
<1>2. QED BY <1>1, InvHolds, PTL

(* mem_malloc, mem_free, mem_realloc and mem_reallocm keep the headers a   *)
(* tiling of ram: no overlap, no gap, links that agree.                    *)
THEOREM HeapStaysTiled == Spec => []HeapTiled
<1>1. Inv => HeapTiled
  BY DEF Inv, HeapInv, Sound, HeapTiled
<1>2. QED BY <1>1, InvHolds, PTL

(* plug_holes never leaves two free blocks side by side. *)
THEOREM HeapStaysJoined == Spec => []FreeBlocksJoined
<1>1. Inv => FreeBlocksJoined
  BY DEF Inv, HeapInv, Joined, FreeBlocksJoined
<1>2. QED BY <1>1, InvHolds, PTL

(* lfree is a live free header, so the assertion at mem.c:308 cannot fail. *)
THEOREM LfreeStaysFree == Spec => []LfreeIsFree
<1>1. Inv => LfreeIsFree
  BY DEF Inv, HeapInv, Sound, LastIsFree, LfreeIsFree
<1>2. QED BY <1>1, InvHolds, PTL

(* Blocks in use are the ones callers hold, with the bytes promised. *)
THEOREM BytesStayKept == Spec => []CallersKeepTheirBytes
<1>1. Inv => CallersKeepTheirBytes
  BY DEF Inv, HeapInv, CallersKeepTheirBytes, UsedBlocks, Held, MovesApart
<1>2. QED BY <1>1, InvHolds, PTL

(* All of it together, whatever the sizes and the order of the calls. *)
THEOREM HeapStaysSound == Spec => []HeapIsSound
BY HeapTypes, HeapStaysTiled, HeapStaysJoined, LfreeStaysFree, BytesStayKept, PTL
   DEF HeapIsSound
=============================================================================
