--------------------------- MODULE TcpOoseqProofs ---------------------------
(***************************************************************************)
(* Proofs about how tcp_receive puts a stream together, for any stream,    *)
(* window, pool, and segments that a sender may cut the stream into.       *)
(* First the pieces: parts of the stream, what cutting leaves of them, the *)
(* run that the front of ooseq is drained into, and the place a segment is *)
(* put in.  Then the invariant, and that each action keeps it.             *)
(***************************************************************************)
EXTENDS TcpOoseq, WellFoundedInduction, TLAPS

(* What goes on from each to the next goes on to the last.                *)
LEMMA Along ==
    ASSUME NEW N \in Nat, NEW a \in 0 .. N, NEW P, a \in P,
           \A j \in a + 1 .. N : j - 1 \in P => j \in P
    PROVE  a .. N \subseteq P
<1> DEFINE Bad == {j \in a .. N : j \notin P}
<1>1. Bad \subseteq Nat
  OBVIOUS
<1>2. SUFFICES ASSUME Bad # {} PROVE FALSE
  OBVIOUS
<1>3. PICK k \in Bad : \A j \in Bad : ~(<<j, k>> \in OpToRel(<, Nat))
  BY <1>1, <1>2, NatLessThanWellFounded, WFMin
<1>4. \A j \in Bad : ~(j < k)
  BY <1>1, <1>3 DEF OpToRel
<1>5. k # a /\ k - 1 \in a .. N /\ k \in a + 1 .. N
  OBVIOUS
<1>6. k - 1 \in P
  BY <1>4, <1>5
<1>7. QED BY <1>5, <1>6

----------------------------------------------------------------------------
(* Parts of the stream. *)
LEMMA StreamIs ==
    ASSUME NEW f \in Int, NEW n \in Nat
    PROVE  /\ Stream(f, n) \in Seq(Int) /\ Len(Stream(f, n)) = n
           /\ \A i \in 1 .. n : Stream(f, n)[i] = f + i - 1
BY DEF Stream

LEMMA SameStream ==
    ASSUME NEW f \in Int, NEW n \in Nat, NEW t \in Seq(Int), Len(t) = n,
           \A i \in 1 .. n : t[i] = f + i - 1
    PROVE  t = Stream(f, n)
<1>1. t = [i \in 1 .. n |-> t[i]]
  OBVIOUS
<1>2. QED BY <1>1 DEF Stream

LEMMA StreamSub ==
    ASSUME NEW f \in Int, NEW n \in Nat, NEW a \in 0 .. n
    PROVE  /\ SubSeq(Stream(f, n), 1, a) = Stream(f, a)
           /\ SubSeq(Stream(f, n), a + 1, n) = Stream(f + a, n - a)
<1> DEFINE t == Stream(f, n)
           x == SubSeq(t, 1, a)
           y == SubSeq(t, a + 1, n)
<1>1. t \in Seq(Int) /\ Len(t) = n /\ \A i \in 1 .. n : t[i] = f + i - 1
  BY StreamIs
<1> HIDE DEF t
<1>2. x \in Seq(Int) /\ Len(x) = a /\ \A i \in 1 .. a : x[i] = f + i - 1
  BY <1>1
<1>3. y \in Seq(Int) /\ Len(y) = n - a /\ \A i \in 1 .. n - a : y[i] = (f + a) + i - 1
  BY <1>1
<1>4. f + a \in Int /\ n - a \in Nat /\ a \in Nat
  OBVIOUS
<1> HIDE DEF x, y
<1>5. x = Stream(f, a)
  BY <1>2, <1>4, SameStream
<1>6. y = Stream(f + a, n - a)
  <2> DEFINE g == f + a
             k == n - a
  <2>1. g \in Int /\ k \in Nat /\ Len(y) = k /\ \A i \in 1 .. k : y[i] = g + i - 1
    BY <1>3, <1>4
  <2> HIDE DEF g, k
  <2>2. y = Stream(g, k)
    BY <1>3, <2>1, SameStream
  <2>3. QED BY <2>2 DEF g, k
<1>7. QED BY <1>5, <1>6 DEF x, y, t

LEMMA JoinIs ==
    ASSUME NEW S, NEW a \in Seq(S), NEW b \in Seq(S)
    PROVE  /\ a \o b \in Seq(S) /\ Len(a \o b) = Len(a) + Len(b)
           /\ Len(a) \in Nat /\ Len(b) \in Nat
           /\ \A j \in 1 .. Len(a) + Len(b) :
                 (a \o b)[j] = IF j <= Len(a) THEN a[j] ELSE b[j - Len(a)]
OBVIOUS

LEMMA StreamJoin ==
    ASSUME NEW f \in Int, NEW a \in Nat, NEW b \in Nat, NEW g, g = f + a
    PROVE  Stream(f, a) \o Stream(g, b) = Stream(f, a + b)
<1> DEFINE x == Stream(f, a)
           y == Stream(g, b)
           t == x \o y
           k == a + b
<1>1. /\ x \in Seq(Int) /\ Len(x) = a /\ \A i \in 1 .. a : x[i] = f + i - 1
      /\ y \in Seq(Int) /\ Len(y) = b /\ \A i \in 1 .. b : y[i] = g + i - 1
      /\ k \in Nat /\ g \in Int
  BY StreamIs
<1> HIDE DEF x, y
<1>2. t \in Seq(Int) /\ Len(t) = k /\ \A i \in 1 .. k : t[i] = IF i <= a THEN x[i] ELSE y[i - a]
  BY <1>1, JoinIs
<1>3. \A i \in 1 .. k : t[i] = f + i - 1
  BY <1>1, <1>2
<1> HIDE DEF t, k
<1>4. t = Stream(f, k)
  BY <1>1, <1>2, <1>3, SameStream
<1>5. QED BY <1>4 DEF x, y, t, k

----------------------------------------------------------------------------
(* Segments, and what cutting does to them. *)
LEMMA U16Is ==
    /\ U16_MAX \in Nat
    /\ \A n \in Int : U16Len(n) \in Nat
    /\ \A n \in Nat : n <= U16_MAX => U16Len(n) = n
BY SMT DEF U16_MAX, U16Len

Segs == [seqno : Nat, len : Nat, fin : BOOLEAN, data : Seq(Int)]

(* A segment of the stream as a sender may send it. *)
Good(s) == /\ s \in Segs /\ s.seqno >= 1 /\ s.len < U16_MAX
           /\ s.data = Stream(s.seqno, s.len)
           /\ s.seqno + s.len <= StreamLen + 1
           /\ s.fin => s.seqno + s.len = StreamLen + 1

LEMMA CutIs ==
    ASSUME NEW s \in Segs, NEW len \in Int
    PROVE  LET c == Cut(s, len) IN
           c \in Segs /\ c.seqno = s.seqno /\ c.fin = s.fin /\ c.len = U16Len(len)
<1> DEFINE k == U16Len(len)
           d == IF k < Len(s.data) THEN SubSeq(s.data, 1, k) ELSE s.data
           c == Cut(s, len)
<1>1. k \in Nat
  BY U16Is
<1>2. s.data \in Seq(Int) /\ s.seqno \in Nat /\ s.fin \in BOOLEAN
  BY DEF Segs
<1> HIDE DEF k
<1>3. d \in Seq(Int)
  BY <1>1, <1>2
<1>5. c = [seqno |-> s.seqno, len |-> k, fin |-> s.fin, data |-> d]
  BY DEF Cut, k
<1> HIDE DEF c, d
<1>6. QED BY <1>1, <1>2, <1>3, <1>5 DEF Segs, c, k

LEMMA GoodIs ==
    ASSUME NEW s, Good(s)
    PROVE  /\ s \in Segs /\ s.len \in Nat /\ s.len < U16_MAX /\ s.seqno \in Nat /\ s.fin \in BOOLEAN
           /\ s.data \in Seq(Int) /\ s.data = Stream(s.seqno, s.len) /\ Len(s.data) = s.len
           /\ s.seqno >= 1 /\ s.seqno + s.len <= StreamLen + 1 /\ StreamLen \in Nat
<1>1. s \in Segs
  BY DEF Good
<1>2. s.len \in Nat /\ s.seqno \in Nat /\ s.fin \in BOOLEAN /\ s.data \in Seq(Int)
  BY <1>1 DEF Segs
<1>3. s.len < U16_MAX /\ s.data = Stream(s.seqno, s.len) /\ s.seqno >= 1 /\ s.seqno + s.len <= StreamLen + 1
  BY DEF Good
<1>4. Len(s.data) = s.len
  <2> DEFINE f == s.seqno
             n == s.len
  <2>1. f \in Int /\ n \in Nat /\ s.data = Stream(f, n)
    BY <1>2, <1>3
  <2> HIDE DEF f, n
  <2>2. Len(s.data) = n
    BY <2>1, StreamIs
  <2>3. QED BY <2>2 DEF n
<1>5. QED BY <1>1, <1>2, <1>3, <1>4, OoseqAssumption

LEMMA CutIsGood ==
    ASSUME NEW s, Good(s), NEW len \in 0 .. s.len, ~Misplaced(Cut(s, len))
    PROVE  Good(Cut(s, len)) /\ Cut(s, len).len = len
<1> DEFINE c == Cut(s, len)
<1>1. s \in Segs /\ s.len \in Nat /\ s.len < U16_MAX /\ s.seqno \in Nat /\ s.data = Stream(s.seqno, s.len)
      /\ s.seqno >= 1 /\ s.seqno + s.len <= StreamLen + 1 /\ StreamLen \in Nat
      /\ Len(s.data) = s.len
  BY GoodIs
<1>2. U16Len(len) = len /\ len \in Nat /\ len \in Int
  BY <1>1, U16Is
<1>3. c \in Segs /\ c.seqno = s.seqno /\ c.fin = s.fin /\ c.len = len
  BY <1>1, <1>2, CutIs
<1>4. c.data = Stream(s.seqno, len)
  <2>1. c.data = IF len < Len(s.data) THEN SubSeq(s.data, 1, len) ELSE s.data
    BY <1>1, <1>2 DEF Cut
  <2>3. SubSeq(Stream(s.seqno, s.len), 1, len) = Stream(s.seqno, len)
    <3> DEFINE f == s.seqno
               n == s.len
    <3>1. f \in Int /\ n \in Nat /\ len \in 0 .. n
      BY <1>1
    <3> HIDE DEF f, n
    <3>2. SubSeq(Stream(f, n), 1, len) = Stream(f, len)
      BY <3>1, StreamSub
    <3>3. QED BY <3>2 DEF f, n
  <2> HIDE DEF c
  <2>4. CASE len < s.len
    BY <1>1, <2>1, <2>3, <2>4
  <2>5. CASE ~(len < s.len)
    <3>1. len = s.len
      BY <1>1, <2>5
    <3>2. QED BY <1>1, <2>1, <3>1
  <2>6. QED BY <2>4, <2>5
<1> HIDE DEF c
<1>5. c.fin => c.seqno + c.len = StreamLen + 1
  BY DEF Misplaced, c
<1>6. c.seqno >= 1 /\ c.len < U16_MAX /\ c.seqno + c.len <= StreamLen + 1
  <2> DEFINE n == s.len
             q == s.seqno
  <2>1. n \in Nat /\ n < U16_MAX /\ q \in Nat /\ q >= 1 /\ q + n <= StreamLen + 1 /\ len \in 0 .. n
    BY <1>1
  <2>2. c.len = len /\ c.seqno = q
    BY <1>3
  <2> HIDE DEF n, q
  <2>3. len < U16_MAX /\ q + len <= StreamLen + 1
    <3>1. len \in Int /\ len <= n /\ StreamLen \in Nat /\ U16_MAX \in Nat
      BY <1>1, <2>1, U16Is
    <3>2. q + len <= StreamLen + 1
      BY <2>1, <3>1
    <3>3. len < U16_MAX
      BY <2>1, <3>1
    <3>4. QED BY <3>2, <3>3
  <2>4. QED BY <2>1, <2>2, <2>3
<1>7. Good(c)
  BY <1>3, <1>4, <1>5, <1>6 DEF Good
<1>8. QED BY <1>3, <1>7 DEF c

LEMMA CutBeforeIs ==
    ASSUME NEW s \in Segs, NEW next \in Nat
    PROVE  LET c == CutBefore(s, next) IN c \in Segs /\ c.seqno = s.seqno /\ c.fin = s.fin
<1>1. next - s.seqno \in Int
  BY DEF Segs
<1>2. QED BY <1>1, CutIs DEF CutBefore

LEMMA CutBeforeIsGood ==
    ASSUME NEW s, Good(s), NEW next \in Nat, s.seqno < next, ~Misplaced(CutBefore(s, next))
    PROVE  LET c == CutBefore(s, next) IN Good(c) /\ c.seqno + c.len <= next
<1>1. s \in Segs /\ s.seqno \in Nat /\ s.len \in Nat
  BY GoodIs
<1>2. CASE s.seqno + s.len > next
  <2> DEFINE len == next - s.seqno
  <2>1. CutBefore(s, next) = Cut(s, len) /\ len \in 0 .. s.len
    BY <1>1, <1>2 DEF CutBefore
  <2> HIDE DEF len
  <2>2. Good(Cut(s, len)) /\ Cut(s, len).len = len
    BY <2>1, CutIsGood
  <2>3. Cut(s, len).seqno = s.seqno
    BY <1>1, <2>1, CutIs
  <2>4. QED BY <1>1, <2>1, <2>2, <2>3 DEF len
<1>3. CASE ~(s.seqno + s.len > next)
  BY <1>1, <1>3 DEF CutBefore
<1>4. QED BY <1>2, <1>3

LEMMA TcpLenIs ==
    ASSUME NEW s \in Segs
    PROVE  /\ TcpLen(s) \in Nat /\ TcpLen(s) = s.len + (IF s.fin THEN 1 ELSE 0)
           /\ s.len < U16_MAX => U16Len(TcpLen(s)) = TcpLen(s)
<1>1. s.len \in Nat
  BY DEF Segs
<1>2. TcpLen(s) \in Nat /\ TcpLen(s) = s.len + (IF s.fin THEN 1 ELSE 0)
  BY <1>1 DEF TcpLen
<1>3. ASSUME s.len < U16_MAX PROVE TcpLen(s) <= U16_MAX
  BY <1>1, <1>2, <1>3, U16Is
<1>4. QED BY <1>2, <1>3, U16Is

(* What arrives is a segment of the stream, and it is still one when its   *)
(* front is off.                                                           *)
LEMMA ArrivingIsGood ==
    ASSUME NEW a \in Arriving
    PROVE  Good([seqno |-> a.seqno, len |-> a.len, fin |-> a.fin, data |-> Stream(a.seqno, a.len)])
<1> DEFINE f == a.seqno
           n == a.len
           e == a.fin
           d == Stream(f, n)
           s == [seqno |-> f, len |-> n, fin |-> e, data |-> d]
<1>1. /\ f \in Nat /\ n \in Nat /\ e \in BOOLEAN /\ f >= 1 /\ n < U16_MAX
      /\ f + n <= StreamLen + 1 /\ (e => f + n = StreamLen + 1)
  BY OoseqAssumption
<1> HIDE DEF f, n, e
<1>2. d \in Seq(Int)
  BY <1>1, StreamIs
<1>3. s.seqno = f /\ s.len = n /\ s.fin = e /\ s.data = Stream(f, n)
  OBVIOUS
<1> HIDE DEF d
<1>4. s \in Segs
  BY <1>1, <1>2 DEF Segs
<1> HIDE DEF s
<1>5. Good(s)
  BY <1>1, <1>3, <1>4 DEF Good
<1>6. QED BY <1>5 DEF s, d, f, n, e

LEMMA TrimmedIsGood ==
    ASSUME NEW s, Good(s), rcv_nxt \in Nat
    PROVE  Good(TrimFront(s))
<1>1. /\ s \in Segs /\ s.len \in Nat /\ s.len < U16_MAX /\ s.seqno \in Nat /\ s.fin \in BOOLEAN
      /\ s.data = Stream(s.seqno, s.len) /\ Len(s.data) = s.len
      /\ s.seqno + s.len <= StreamLen + 1 /\ StreamLen \in Nat /\ U16_MAX \in Nat /\ s.seqno >= 1
  BY GoodIs, U16Is
<1>2. s.fin => s.seqno + s.len = StreamLen + 1
  BY DEF Good
<1>3. SUFFICES ASSUME s.seqno < rcv_nxt /\ rcv_nxt <= s.seqno + TcpLen(s) - 1 PROVE Good(TrimFront(s))
  BY DEF TrimFront
<1> DEFINE f == s.seqno
           n == s.len
           k == rcv_nxt - f
           m == n - k
           d == SubSeq(s.data, k + 1, Len(s.data))
           t == [seqno |-> rcv_nxt, len |-> m, fin |-> s.fin, data |-> d]
<1>4. TrimFront(s) = t
  BY <1>3 DEF TrimFront
<1>5. k \in 0 .. n /\ m \in Nat /\ f + k = rcv_nxt /\ m <= n /\ rcv_nxt + m = f + n /\ rcv_nxt >= 1
  <2> DEFINE x == TcpLen(s)
  <2>1. x \in Nat /\ x <= n + 1 /\ f \in Nat /\ n \in Nat /\ f < rcv_nxt /\ rcv_nxt <= f + x - 1 /\ rcv_nxt \in Nat
    BY <1>1, <1>3, TcpLenIs
  <2> HIDE DEF x, f, n
  <2>2. QED BY <2>1
<1>6. d = Stream(rcv_nxt, m)
  <2>1. f \in Int /\ n \in Nat /\ d = SubSeq(Stream(f, n), k + 1, n)
    BY <1>1
  <2> HIDE DEF f, n, k, d
  <2>2. d = Stream(f + k, n - k)
    BY <1>5, <2>1, StreamSub
  <2>3. QED BY <1>5, <2>2
<1>7. d \in Seq(Int)
  <2>1. rcv_nxt \in Int /\ m \in Nat
    BY <1>5
  <2> HIDE DEF d, m
  <2>2. QED BY <1>6, <2>1, StreamIs
<1>8. t.seqno = rcv_nxt /\ t.len = m /\ t.fin = s.fin /\ t.data = d
  OBVIOUS
<1>9. m < U16_MAX /\ rcv_nxt + m <= StreamLen + 1 /\ (s.fin => rcv_nxt + m = StreamLen + 1)
  <2>1. n < U16_MAX /\ f + n <= StreamLen + 1 /\ (s.fin => f + n = StreamLen + 1) /\ n \in Nat /\ f \in Nat
    BY <1>1, <1>2
  <2> HIDE DEF f, n, k, m
  <2>2. QED BY <1>1, <1>5, <2>1
<1> HIDE DEF d, m, k, f, n
<1>10. t \in Segs
  BY <1>1, <1>5, <1>7 DEF Segs
<1> HIDE DEF t
<1>11. Good(t)
  BY <1>5, <1>6, <1>8, <1>9, <1>10 DEF Good
<1>12. QED BY <1>4, <1>11

----------------------------------------------------------------------------
(* Draining ooseq.                                                         *)
Runs == [rcv_nxt : Nat, data : Seq(Int), fin : BOOLEAN, left : Seq(Segs)]

LEMMA TakeIs ==
    ASSUME NEW r \in Runs, NEW s \in Segs
    PROVE  LET t == Take(r, s) IN
           /\ t \in Runs /\ t.rcv_nxt = r.rcv_nxt + U16Len(TcpLen(s)) /\ t.data = r.data \o s.data
           /\ t.fin = (r.fin \/ s.fin) /\ t.left = r.left
<1> DEFINE n == r.rcv_nxt + U16Len(TcpLen(s))
           d == r.data \o s.data
           e == (r.fin \/ s.fin)
           l == r.left
           t == [r EXCEPT !.rcv_nxt = n, !.data = d, !.fin = e]
<1>1. Take(r, s) = t
  BY DEF Take
<1>2. /\ r.rcv_nxt \in Nat /\ r.data \in Seq(Int) /\ r.fin \in BOOLEAN /\ l \in Seq(Segs)
      /\ s.data \in Seq(Int) /\ s.fin \in BOOLEAN
  BY DEF Runs, Segs
<1>3. n \in Nat
  <2>1. TcpLen(s) \in Int
    BY TcpLenIs
  <2> HIDE DEF n
  <2>2. U16Len(TcpLen(s)) \in Nat
    BY <2>1, U16Is
  <2>3. QED BY <1>2, <2>2 DEF n
<1>4. d \in Seq(Int) /\ e \in BOOLEAN
  BY <1>2
<1> HIDE DEF n, d, e, l
<1>5. t \in Runs /\ t.rcv_nxt = n /\ t.data = d /\ t.fin = e /\ t.left = l
  BY <1>3, <1>4 DEF Runs, l
<1> HIDE DEF t
<1>6. QED BY <1>1, <1>5 DEF n, d, e, l

LEMMA TakeOrLeaveIs ==
    ASSUME NEW r \in Runs, NEW o \in Segs
    PROVE  LET t == TakeOrLeave(r, o) IN
           /\ t \in Runs
           /\ r.left = <<>> /\ o.seqno = r.rcv_nxt => t = Take(r, o)
           /\ ~(r.left = <<>> /\ o.seqno = r.rcv_nxt) =>
                 /\ t.rcv_nxt = r.rcv_nxt /\ t.data = r.data /\ t.fin = r.fin
                 /\ t.left = Append(r.left, o)
<1> DEFINE t == TakeOrLeave(r, o)
<1>1. CASE r.left = <<>> /\ o.seqno = r.rcv_nxt
  BY <1>1, TakeIs DEF TakeOrLeave
<1>2. CASE ~(r.left = <<>> /\ o.seqno = r.rcv_nxt)
  <2>1. t = [r EXCEPT !.left = Append(@, o)]
    BY <1>2 DEF TakeOrLeave
  <2> HIDE DEF t
  <2>2. r.left \in Seq(Segs)
    BY DEF Runs
  <2> DEFINE l == Append(r.left, o)
  <2>3. l \in Seq(Segs)
    BY <2>2
  <2>4. t = [r EXCEPT !.left = l]
    BY <2>1
  <2> HIDE DEF l
  <2>5. t \in Runs /\ t.rcv_nxt = r.rcv_nxt /\ t.data = r.data /\ t.fin = r.fin /\ t.left = l
    BY <2>3, <2>4 DEF Runs
  <2>6. QED BY <1>2, <2>5 DEF l, t
<1>3. QED BY <1>1, <1>2

Drains(u, q, run) == /\ u \in [0 .. Len(q) -> Runs] /\ u[0] = run
                     /\ \A k \in 1 .. Len(q) : u[k] = TakeOrLeave(u[k - 1], q[k])

LEMMA DrainIs ==
    ASSUME NEW q \in Seq(Segs), NEW run \in Runs
    PROVE  \E u : Drains(u, q, run) /\ Drain(run, q) = u[Len(q)]
<1> DEFINE N == Len(q)
           UpTo(n) == \E u : /\ u \in [0 .. n -> Runs] /\ u[0] = run
                             /\ \A k \in 1 .. n : u[k] = TakeOrLeave(u[k - 1], q[k])
           P == {n \in 0 .. N : UpTo(n)}
<1>1. N \in Nat /\ 0 \in 0 .. N /\ \A k \in 1 .. N : q[k] \in Segs
  OBVIOUS
<1> HIDE DEF N
<1>2. 0 \in P
  <2> DEFINE u == [j \in 0 .. 0 |-> run]
  <2>1. u \in [0 .. 0 -> Runs] /\ u[0] = run /\ \A k \in 1 .. 0 : u[k] = TakeOrLeave(u[k - 1], q[k])
    OBVIOUS
  <2> HIDE DEF u
  <2>2. UpTo(0)
    BY <2>1
  <2>3. QED BY <1>1, <2>2
<1>3. ASSUME NEW n \in 0 + 1 .. N, n - 1 \in P PROVE n \in P
  <2>1. PICK g : /\ g \in [0 .. n - 1 -> Runs] /\ g[0] = run
                 /\ \A k \in 1 .. n - 1 : g[k] = TakeOrLeave(g[k - 1], q[k])
    BY <1>3
  <2> DEFINE x == TakeOrLeave(g[n - 1], q[n])
             f == [j \in 0 .. n |-> IF j = n THEN x ELSE g[j]]
  <2>2. n \in Nat /\ n - 1 \in 0 .. n - 1 /\ n \in 1 .. N /\ n >= 1
    BY <1>1
  <2>3. g[n - 1] \in Runs /\ q[n] \in Segs
    BY <1>1, <2>1, <2>2
  <2>4. x \in Runs
    BY <2>3, TakeOrLeaveIs
  <2>5. x = TakeOrLeave(g[n - 1], q[n])
    OBVIOUS
  <2> HIDE DEF x
  <2>6. f \in [0 .. n -> Runs] /\ f[0] = run /\ f[n] = x /\ \A j \in 0 .. n - 1 : f[j] = g[j]
    BY <2>1, <2>2, <2>4
  <2> HIDE DEF f
  <2>7. ASSUME NEW k \in 1 .. n PROVE f[k] = TakeOrLeave(f[k - 1], q[k])
    <3>1. CASE k = n
      <4>1. f[n - 1] = g[n - 1]
        BY <2>2, <2>6
      <4>2. QED BY <2>5, <2>6, <3>1, <4>1
    <3>2. CASE k # n
      <4>1. k \in 1 .. n - 1 /\ k \in 0 .. n - 1 /\ k - 1 \in 0 .. n - 1
        BY <2>2, <3>2
      <4>2. QED BY <2>1, <2>6, <4>1
    <3>3. QED BY <3>1, <3>2
  <2>8. UpTo(n)
    BY <2>6, <2>7
  <2>9. QED BY <2>2, <2>8
<1>4. N \in P
  <2> HIDE DEF P
  <2>1. 0 .. N \subseteq P
    BY <1>1, <1>2, <1>3, Along
  <2>2. QED BY <1>1, <2>1
<1>5. PICK u : /\ u \in [0 .. N -> Runs] /\ u[0] = run
               /\ \A k \in 1 .. N : u[k] = TakeOrLeave(u[k - 1], q[k])
  BY <1>4
<1> DEFINE upTo[k \in 0 .. N] == IF k = 0 THEN run ELSE TakeOrLeave(upTo[k - 1], q[k])
<1>6. Drain(run, q) = upTo[N]
  BY DEF Drain, N
<1>7. u = [k \in 0 .. N |-> IF k = 0 THEN run ELSE TakeOrLeave(u[k - 1], q[k])]
  BY <1>1, <1>5
<1>8. upTo = [k \in 0 .. N |-> IF k = 0 THEN run ELSE TakeOrLeave(upTo[k - 1], q[k])]
  BY <1>7
<1> HIDE DEF upTo
<1>9. /\ upTo[0] = run
      /\ \A k \in 1 .. N : upTo[k] = TakeOrLeave(upTo[k - 1], q[k])
  BY <1>1, <1>8
<1>10. \A k \in 0 .. N : upTo[k] = u[k]
  <2> DEFINE Q == {k \in 0 .. N : upTo[k] = u[k]}
  <2>1. 0 \in Q
    BY <1>1, <1>5, <1>9
  <2>2. ASSUME NEW k \in 0 + 1 .. N, k - 1 \in Q PROVE k \in Q
    <3>1. k \in 1 .. N /\ upTo[k - 1] = u[k - 1] /\ k \in 0 .. N
      BY <1>1, <2>2
    <3>2. QED BY <1>5, <1>9, <3>1
  <2> HIDE DEF Q
  <2>3. 0 .. N \subseteq Q
    BY <1>1, <2>1, <2>2, Along
  <2>4. QED BY <2>3 DEF Q
<1>11. Drain(run, q) = u[N]
  BY <1>1, <1>6, <1>10
<1>12. QED BY <1>5, <1>11 DEF Drains, N

(* None reaches into a later one, and each starts behind those before it.  *)
Packed(q) == \A i, j \in DOMAIN q : i < j => q[i].seqno + q[i].len <= q[j].seqno
Rising(q) == \A i, j \in DOMAIN q : i < j => q[i].seqno < q[j].seqno

(* Of the first k the run has taken m, and left the others.                *)
Leaves(r, q, k, m) == /\ m \in 0 .. k /\ Len(r.left) = k - m
                      /\ \A i \in 1 .. k - m : r.left[i] = q[m + i]

(* The run is the stream up to the first it has left.                      *)
Reaches(r, q, k, m, from) ==
    \E d \in Nat :
        /\ r.data = Stream(from, d) /\ r.rcv_nxt = from + d + (IF r.fin THEN 1 ELSE 0)
        /\ from + d <= StreamLen + 1 /\ (r.fin => from + d = StreamLen + 1)
        /\ \A j \in m + 1 .. Len(q) : from + d <= q[j].seqno
        /\ m < k /\ ~r.fin => q[m + 1].seqno # from + d

LEMMA OneMore ==
    ASSUME NEW q \in Seq(Segs), NEW k \in 1 .. Len(q), NEW r \in Runs, NEW m,
           Leaves(r, q, k - 1, m)
    PROVE  LET t == TakeOrLeave(r, q[k]) IN
           \/ r.left = <<>> /\ q[k].seqno = r.rcv_nxt /\ m = k - 1 /\ t = Take(r, q[k]) /\ Leaves(t, q, k, k)
           \/ /\ ~(r.left = <<>> /\ q[k].seqno = r.rcv_nxt)
              /\ t.rcv_nxt = r.rcv_nxt /\ t.data = r.data /\ t.fin = r.fin /\ Leaves(t, q, k, m)
              /\ m < k - 1 => r.left # <<>>
              /\ m = k - 1 => q[k].seqno # r.rcv_nxt
<1> DEFINE o == q[k]
           t == TakeOrLeave(r, o)
           l == r.left
<1>1. k \in Nat /\ k >= 1 /\ o \in Segs /\ l \in Seq(Segs) /\ m \in 0 .. k - 1 /\ Len(l) = k - 1 - m
      /\ \A i \in 1 .. k - 1 - m : l[i] = q[m + i]
  BY DEF Leaves, Runs
<1>2. l = <<>> <=> m = k - 1
  BY <1>1
<1>3. CASE l = <<>> /\ o.seqno = r.rcv_nxt
  <2>1. t = Take(r, o) /\ t.left = <<>>
    <3>1. r.left = <<>> /\ o.seqno = r.rcv_nxt
      BY <1>3
    <3>2. o \in Segs
      BY <1>1
    <3> HIDE DEF o, l
    <3>3. t = Take(r, o)
      BY <3>1, <3>2, TakeOrLeaveIs
    <3>4. Take(r, o).left = r.left
      BY <3>2, TakeIs
    <3>5. QED BY <3>1, <3>3, <3>4
  <2> HIDE DEF t
  <2>2. Leaves(t, q, k, k)
    BY <1>1, <2>1 DEF Leaves
  <2>3. QED BY <1>2, <1>3, <2>1, <2>2 DEF t
<1>4. CASE ~(l = <<>> /\ o.seqno = r.rcv_nxt)
  <2>1. /\ t.rcv_nxt = r.rcv_nxt /\ t.data = r.data /\ t.fin = r.fin /\ t.left = Append(l, o)
    BY <1>1, <1>4, TakeOrLeaveIs
  <2> HIDE DEF t, l
  <2>2. Leaves(t, q, k, m)
    <3> DEFINE n == k - 1 - m
    <3>1. n \in Nat /\ Len(l) = n /\ n + 1 = k - m /\ m + (n + 1) = k
      BY <1>1
    <3>2. Len(t.left) = n + 1 /\ t.left[n + 1] = o /\ \A i \in 1 .. n : t.left[i] = l[i]
      BY <1>1, <2>1, <3>1
    <3>3. ASSUME NEW i \in 1 .. k - m PROVE t.left[i] = q[m + i]
      <4>1. CASE i = n + 1
        BY <3>1, <3>2, <4>1
      <4>2. CASE i # n + 1
        <5>1. i \in 1 .. n
          BY <1>1, <4>2
        <5>2. QED BY <1>1, <3>2, <5>1
      <4>3. QED BY <4>1, <4>2
    <3>4. m \in 0 .. k
      BY <1>1
    <3>5. QED BY <3>1, <3>2, <3>3, <3>4 DEF Leaves
  <2>3. QED BY <1>1, <1>2, <1>4, <2>1, <2>2 DEF t, l
<1>5. QED BY <1>3, <1>4

LEMMA ReachesOn ==
    ASSUME NEW q \in Seq(Segs), NEW k \in 1 .. Len(q), NEW r \in Runs, NEW m, NEW from \in Nat,
           Leaves(r, q, k - 1, m), Reaches(r, q, k - 1, m, from),
           Packed(q), \A j \in 1 .. Len(q) : Good(q[j])
    PROVE  \E n : /\ Leaves(TakeOrLeave(r, q[k]), q, k, n)
                  /\ Reaches(TakeOrLeave(r, q[k]), q, k, n, from)
<1> DEFINE o == q[k]
           t == TakeOrLeave(r, o)
           N == Len(q)
<1>1. k \in Nat /\ k >= 1 /\ k <= N /\ N \in Nat /\ m \in 0 .. k - 1
  BY DEF Leaves
<1>2. PICK d \in Nat :
        /\ r.data = Stream(from, d) /\ r.rcv_nxt = from + d + (IF r.fin THEN 1 ELSE 0)
        /\ from + d <= StreamLen + 1 /\ (r.fin => from + d = StreamLen + 1)
        /\ \A j \in m + 1 .. N : from + d <= q[j].seqno
        /\ m < k - 1 /\ ~r.fin => q[m + 1].seqno # from + d
  BY DEF Reaches
<1>3. Good(o)
  OBVIOUS
<1>4. /\ o \in Segs /\ o.len \in Nat /\ o.len < U16_MAX /\ o.seqno \in Nat /\ o.fin \in BOOLEAN
      /\ o.data = Stream(o.seqno, o.len) /\ o.seqno + o.len <= StreamLen + 1 /\ StreamLen \in Nat
      /\ (o.fin => o.seqno + o.len = StreamLen + 1)
  BY <1>3, GoodIs DEF Good
<1>5. r.rcv_nxt \in Nat /\ r.fin \in BOOLEAN
  BY DEF Runs
<1>6. CASE r.left = <<>> /\ o.seqno = r.rcv_nxt /\ m = k - 1 /\ t = Take(r, o) /\ Leaves(t, q, k, k)
  <2>1. ~r.fin /\ o.seqno = from + d
    BY <1>2, <1>4, <1>5, <1>6
  <2>2. /\ t.rcv_nxt = r.rcv_nxt + U16Len(TcpLen(o)) /\ t.data = r.data \o o.data
        /\ t.fin = (r.fin \/ o.fin)
    <3>1. t = Take(r, o)
      BY <1>6
    <3> HIDE DEF o, t
    <3>2. QED BY <1>4, <3>1, TakeIs
  <2>3. U16Len(TcpLen(o)) = o.len + (IF o.fin THEN 1 ELSE 0)
    <3> HIDE DEF o
    <3>1. QED BY <1>4, TcpLenIs
  <2> DEFINE e == d + o.len
  <2>4. e \in Nat /\ from + e = o.seqno + o.len
    BY <1>4, <2>1
  <2>5. t.fin = o.fin
    <3> HIDE DEF o, t
    <3>1. QED BY <1>4, <2>1, <2>2
  <2>6. t.rcv_nxt = from + e + (IF t.fin THEN 1 ELSE 0)
    <3> HIDE DEF o, t
    <3>1. QED BY <1>2, <1>4, <2>1, <2>2, <2>3, <2>4, <2>5
  <2>7. t.data = Stream(from, e)
    <3> DEFINE g == o.seqno
               b == o.len
    <3>1. g = from + d /\ b \in Nat /\ e = d + b /\ from \in Int
      BY <1>4, <2>1
    <3>2. t.data = Stream(from, d) \o Stream(g, b)
      <4> HIDE DEF t
      <4>1. QED BY <1>2, <1>4, <2>2
    <3> HIDE DEF g, b, e, t
    <3>3. Stream(from, d) \o Stream(g, b) = Stream(from, d + b)
      BY <3>1, StreamJoin
    <3>4. QED BY <3>1, <3>2, <3>3
  <2>8. \A j \in k + 1 .. N : from + e <= q[j].seqno
    <3>1. ASSUME NEW j \in k + 1 .. N PROVE o.seqno + o.len <= q[j].seqno
      <4>1. j \in DOMAIN q /\ k \in DOMAIN q /\ k < j
        BY <1>1
      <4>2. QED BY <4>1 DEF Packed
    <3>2. QED BY <2>4, <3>1
  <2>9. from + e <= StreamLen + 1 /\ (t.fin => from + e = StreamLen + 1)
    BY <1>4, <2>4, <2>5
  <2> HIDE DEF e, t
  <2>10. Reaches(t, q, k, k, from)
    <3>1. ~(k < k)
      BY <1>1
    <3>2. QED BY <2>4, <2>6, <2>7, <2>8, <2>9, <3>1 DEF Reaches, N
  <2>11. QED BY <1>6, <2>10 DEF t
<1>7. CASE /\ ~(r.left = <<>> /\ o.seqno = r.rcv_nxt)
           /\ t.rcv_nxt = r.rcv_nxt /\ t.data = r.data /\ t.fin = r.fin /\ Leaves(t, q, k, m)
           /\ m < k - 1 => r.left # <<>>
           /\ m = k - 1 => o.seqno # r.rcv_nxt
  <2>1. m < k /\ ~t.fin => q[m + 1].seqno # from + d
    <3>1. CASE m < k - 1
      BY <1>2, <1>7, <3>1
    <3>2. CASE m = k - 1
      <4>1. m + 1 = k
        BY <1>1, <3>2
      <4>2. ~t.fin => r.rcv_nxt = from + d
        BY <1>2, <1>7
      <4>3. QED BY <1>7, <3>2, <4>1, <4>2
    <3>3. QED BY <1>1, <3>1, <3>2
  <2> HIDE DEF t
  <2>2. Reaches(t, q, k, m, from)
    BY <1>2, <1>7, <2>1 DEF Reaches, N
  <2>3. QED BY <1>7, <2>2 DEF t
<1>8. QED BY <1>6, <1>7, OneMore

LEMMA DrainedIs ==
    ASSUME NEW q \in Seq(Segs), NEW run \in Runs, run.left = <<>>, NEW from \in Nat,
           NEW sound \in BOOLEAN,
           sound => /\ Packed(q) /\ \A j \in 1 .. Len(q) : Good(q[j])
                    /\ Reaches(run, q, 0, 0, from)
    PROVE  /\ Drain(run, q) \in Runs
           /\ \E m : /\ Leaves(Drain(run, q), q, Len(q), m)
                     /\ sound => Reaches(Drain(run, q), q, Len(q), m, from)
<1> DEFINE N == Len(q)
<1>1. PICK u : Drains(u, q, run) /\ Drain(run, q) = u[N]
  BY DrainIs
<1>2. u \in [0 .. N -> Runs] /\ u[0] = run /\ N \in Nat
      /\ \A k \in 1 .. N : u[k] = TakeOrLeave(u[k - 1], q[k])
  BY <1>1 DEF Drains
<1> DEFINE As(k) == \E m : Leaves(u[k], q, k, m) /\ (sound => Reaches(u[k], q, k, m, from))
           P == {k \in 0 .. N : As(k)}
<1>3. 0 \in P
  <2>1. Leaves(run, q, 0, 0)
    BY DEF Leaves
  <2>2. As(0)
    BY <1>2, <2>1
  <2>3. QED BY <1>2, <2>2
<1>4. ASSUME NEW k \in 0 + 1 .. N, k - 1 \in P PROVE k \in P
  <2>1. k \in 1 .. N /\ k \in 0 .. N /\ k - 1 \in 0 .. N
    BY <1>2
  <2>2. PICK m : Leaves(u[k - 1], q, k - 1, m) /\ (sound => Reaches(u[k - 1], q, k - 1, m, from))
    BY <1>4
  <2> DEFINE r == u[k - 1]
  <2>3. r \in Runs /\ u[k] = TakeOrLeave(r, q[k]) /\ k \in 1 .. Len(q)
    BY <1>2, <2>1
  <2>4. Leaves(r, q, k - 1, m) /\ (sound => Reaches(r, q, k - 1, m, from))
    BY <2>2
  <2> HIDE DEF r
  <2>5. CASE sound
    <3>1. \E n : /\ Leaves(TakeOrLeave(r, q[k]), q, k, n)
                 /\ Reaches(TakeOrLeave(r, q[k]), q, k, n, from)
      BY <2>3, <2>4, <2>5, ReachesOn
    <3>2. As(k)
      BY <2>3, <3>1
    <3>3. QED BY <2>1, <3>2
  <2>6. CASE ~sound
    <3>1. \E n : Leaves(TakeOrLeave(r, q[k]), q, k, n)
      BY <2>3, <2>4, OneMore
    <3>2. As(k)
      BY <2>3, <2>6, <3>1
    <3>3. QED BY <2>1, <3>2
  <2>7. QED BY <2>5, <2>6
<1>5. As(N)
  <2> HIDE DEF P
  <2>1. 0 .. N \subseteq P
    <3>1. N \in Nat /\ 0 \in 0 .. N
      BY <1>2
    <3> HIDE DEF N
    <3>2. QED BY <1>3, <1>4, <3>1, Along
  <2>2. N \in P
    BY <1>2, <2>1
  <2>3. QED BY <2>2 DEF P
<1>6. u[N] \in Runs
  BY <1>2
<1>7. QED BY <1>1, <1>5, <1>6

----------------------------------------------------------------------------
(* Putting a segment in its place.                                         *)
Inserted(m, l, i, e) ==
    /\ Len(m) = Len(l) + 1 /\ m[i] = e
    /\ \A j \in 1 .. i - 1 : m[j] = l[j]
    /\ \A j \in i .. Len(l) : m[j + 1] = l[j]

LEMMA InsertAtIs ==
    ASSUME NEW S, NEW l \in Seq(S), NEW i \in 1 .. Len(l) + 1, NEW e \in S
    PROVE  InsertAt(l, i, e) \in Seq(S) /\ Inserted(InsertAt(l, i, e), l, i, e)
<1> DEFINE a == SubSeq(l, 1, i - 1)
           b == SubSeq(l, i, Len(l))
           c == a \o <<e>>
<1>1. a \in Seq(S) /\ Len(a) = i - 1 /\ \A j \in 1 .. i - 1 : a[j] = l[j]
  OBVIOUS
<1>2. b \in Seq(S) /\ Len(b) = Len(l) - i + 1 /\ \A j \in 1 .. Len(b) : b[j] = l[i + j - 1]
  OBVIOUS
<1>3. InsertAt(l, i, e) = c \o b
  BY DEF InsertAt
<1> HIDE DEF a, b
<1>4. c \in Seq(S) /\ Len(c) = i /\ c[i] = e /\ \A j \in 1 .. i - 1 : c[j] = l[j]
  BY <1>1
<1> HIDE DEF c
<1>5. /\ c \o b \in Seq(S) /\ Len(c \o b) = Len(l) + 1 /\ Len(l) \in Nat /\ i \in Nat
      /\ \A j \in 1 .. Len(l) + 1 : (c \o b)[j] = IF j <= i THEN c[j] ELSE b[j - i]
  BY <1>2, <1>4, JoinIs
<1>6. ASSUME NEW j \in i .. Len(l) PROVE (c \o b)[j + 1] = l[j]
  <2>1. (c \o b)[j + 1] = b[j + 1 - i] /\ j + 1 - i \in 1 .. Len(b) /\ i + (j + 1 - i) - 1 = j
    BY <1>2, <1>5
  <2>2. QED BY <1>2, <2>1
<1>7. ASSUME NEW j \in 1 .. i PROVE (c \o b)[j] = c[j]
  BY <1>5
<1>8. QED BY <1>3, <1>4, <1>5, <1>6, <1>7 DEF Inserted

(* What is in order and of the stream.                                     *)
Whole(q) == Packed(q) /\ \A i \in 1 .. Len(q) : Good(q[i])

(* m is l with s at p, b what is before and behind it, x what is left of s. *)
PutsIn(m, l, s, p, b, x) ==
    /\ l \in Seq(Segs) /\ Rising(l) /\ s \in Segs /\ p \in 1 .. Len(l) + 1
    /\ \A j \in 1 .. p - 1 : l[j].seqno < s.seqno
    /\ \A j \in p .. Len(l) : s.seqno < l[j].seqno
    /\ Len(b) = Len(l)
    /\ \A j \in 1 .. Len(l) : b[j] = IF j = p - 1 THEN CutBefore(l[j], s.seqno) ELSE l[j]
    /\ x = IF p <= Len(l) THEN CutBefore(s, l[p].seqno) ELSE s
    /\ m \in Seq(Segs) /\ Inserted(m, b, p, x)

LEMMA PutIn ==
    ASSUME NEW l, NEW s, NEW p, NEW b, NEW x, NEW m, PutsIn(m, l, s, p, b, x)
    PROVE  /\ Rising(m)
           /\ Whole(l) /\ Good(s) /\ (\A i \in 1 .. Len(m) : ~Misplaced(m[i])) => Whole(m)
           /\ \A i \in 1 .. Len(m) : m[i].seqno = s.seqno \/ \E j \in 1 .. Len(l) : m[i].seqno = l[j].seqno
<1> DEFINE N == Len(l)
           at == s.seqno
<1>0. /\ l \in Seq(Segs) /\ Rising(l) /\ s \in Segs /\ p \in 1 .. Len(l) + 1
      /\ \A j \in 1 .. p - 1 : l[j].seqno < s.seqno
      /\ \A j \in p .. Len(l) : s.seqno < l[j].seqno
      /\ Len(b) = Len(l)
      /\ \A j \in 1 .. Len(l) : b[j] = IF j = p - 1 THEN CutBefore(l[j], s.seqno) ELSE l[j]
      /\ x = IF p <= Len(l) THEN CutBefore(s, l[p].seqno) ELSE s
      /\ m \in Seq(Segs) /\ Inserted(m, b, p, x)
  BY DEF PutsIn
<1> USE <1>0
<1>1. /\ N \in Nat /\ p \in Nat /\ p >= 1 /\ p <= N + 1 /\ at \in Nat
      /\ DOMAIN l = 1 .. N /\ DOMAIN m = 1 .. N + 1 /\ Len(m) = N + 1
      /\ m[p] = x /\ (\A j \in 1 .. p - 1 : m[j] = b[j])
      /\ \A j \in p .. N : m[j + 1] = b[j]
  <2>1. N \in Nat /\ DOMAIN l = 1 .. N
    OBVIOUS
  <2>2. at \in Nat
    BY DEF Segs
  <2> HIDE DEF N, at
  <2>3. p \in Nat /\ p >= 1 /\ p <= N + 1
    BY <2>1 DEF N
  <2>4. /\ Len(m) = N + 1 /\ m[p] = x /\ (\A j \in 1 .. p - 1 : m[j] = b[j])
        /\ \A j \in p .. N : m[j + 1] = b[j]
    BY DEF Inserted, N
  <2>5. DOMAIN m = 1 .. N + 1
    BY <2>4
  <2>6. QED BY <2>1, <2>2, <2>3, <2>4, <2>5
<1>2. \A j \in 1 .. N : l[j] \in Segs
  OBVIOUS
<1>3. \A j \in 1 .. N : l[j].seqno \in Nat
  BY <1>2 DEF Segs
<1> HIDE DEF N, at
<1>4. \A j \in 1 .. N : b[j] = IF j = p - 1 THEN CutBefore(l[j], at) ELSE l[j]
  BY DEF N, at
<1>5. ASSUME NEW j \in 1 .. N + 1, j < p
      PROVE  j \in 1 .. N /\ m[j].seqno = l[j].seqno /\ m[j].seqno < at /\ (j # p - 1 => m[j] = l[j])
             /\ (j = p - 1 => m[j] = CutBefore(l[j], at))
  <2>1. j \in 1 .. N /\ j \in 1 .. p - 1
    BY <1>1, <1>5
  <2>2. m[j] = IF j = p - 1 THEN CutBefore(l[j], at) ELSE l[j]
    BY <1>1, <1>4, <2>1
  <2>3. CutBefore(l[j], at).seqno = l[j].seqno
    BY <1>1, <1>2, <2>1, CutBeforeIs
  <2>4. l[j].seqno < at
    BY <2>1 DEF at
  <2>5. QED BY <2>1, <2>2, <2>3, <2>4
<1>6. ASSUME NEW j \in 1 .. N + 1, j > p
      PROVE  /\ j - 1 \in 1 .. N /\ j - 1 \in p .. N /\ m[j] = l[j - 1] /\ m[j].seqno = l[j - 1].seqno
             /\ at < m[j].seqno
  <2> DEFINE i == j - 1
  <2>1. i \in 1 .. N /\ i \in p .. N /\ i + 1 = j /\ i # p - 1
    BY <1>1, <1>6
  <2> HIDE DEF i
  <2>2. m[j] = l[i]
    BY <1>1, <1>4, <2>1
  <2>3. at < l[i].seqno
    BY <2>1 DEF at, N
  <2>4. QED BY <2>1, <2>2, <2>3 DEF i
<1>7. m[p].seqno = at /\ p \in 1 .. N + 1
  <2>1. CASE p <= N
    <3>1. l[p].seqno \in Nat
      BY <1>1, <1>3, <2>1
    <3>2. CutBefore(s, l[p].seqno).seqno = s.seqno
      BY <3>1, CutBeforeIs
    <3>3. x = CutBefore(s, l[p].seqno)
      BY <2>1 DEF N
    <3>4. p \in 1 .. N + 1
      BY <1>1
    <3>5. QED BY <1>1, <3>2, <3>3, <3>4 DEF at
  <2>2. CASE ~(p <= N)
    BY <1>1, <2>2 DEF N, at
  <2>3. QED BY <1>1, <2>1, <2>2
<1>8. Rising(m)
  <2>1. ASSUME NEW i \in 1 .. N + 1, NEW j \in 1 .. N + 1, i < j PROVE m[i].seqno < m[j].seqno
    <3>1. CASE j < p
      <4>1. i < p
        BY <1>1, <2>1, <3>1
      <4>2. QED BY <1>1, <1>5, <2>1, <3>1, <4>1 DEF Rising
    <3>2. CASE i > p
      <4>1. j > p /\ i - 1 < j - 1
        BY <1>1, <2>1, <3>2
      <4>2. i - 1 \in DOMAIN l /\ j - 1 \in DOMAIN l /\ m[i].seqno = l[i - 1].seqno /\ m[j].seqno = l[j - 1].seqno
        BY <1>1, <1>6, <3>2, <4>1
      <4>3. QED BY <4>1, <4>2 DEF Rising
    <3>3. CASE ~(j < p) /\ ~(i > p)
      <4>1. m[i].seqno <= at /\ at <= m[j].seqno /\ (i # p => m[i].seqno < at) /\ (j # p => at < m[j].seqno)
        <5>1. i = p \/ i < p
          BY <1>1, <3>3
        <5>2. j = p \/ j > p
          BY <1>1, <3>3
        <5>6. m[i].seqno \in Nat /\ m[j].seqno \in Nat
          <6>1. m[i] \in Segs /\ m[j] \in Segs
            BY <1>1
          <6>2. QED BY <6>1 DEF Segs
        <5>3. m[i].seqno <= at /\ (i # p => m[i].seqno < at)
          <6>1. CASE i = p
            <7>1. m[i].seqno = at
              BY <1>7, <6>1
            <7>2. QED BY <1>1, <6>1, <7>1
          <6>2. CASE i < p
            <7>1. m[i].seqno < at
              BY <1>5, <6>2
            <7>2. QED BY <1>1, <5>6, <7>1
          <6>3. QED BY <5>1, <6>1, <6>2
        <5>4. at <= m[j].seqno /\ (j # p => at < m[j].seqno)
          <6>1. CASE j = p
            <7>1. m[j].seqno = at
              BY <1>7, <6>1
            <7>2. QED BY <1>1, <6>1, <7>1
          <6>2. CASE j > p
            <7>1. at < m[j].seqno
              BY <1>6, <6>2
            <7>2. QED BY <1>1, <5>6, <7>1
          <6>3. QED BY <5>2, <6>1, <6>2
        <5>5. QED BY <5>3, <5>4
      <4>2. m[i].seqno \in Nat /\ m[j].seqno \in Nat
        <5>1. m[i] \in Segs /\ m[j] \in Segs
          BY <1>1
        <5>2. QED BY <5>1 DEF Segs
      <4>3. i # p \/ j # p
        BY <2>1
      <4>4. QED BY <1>1, <4>1, <4>2, <4>3
    <3>4. QED BY <3>1, <3>2, <3>3
  <2>2. QED BY <1>1, <2>1 DEF Rising
<1>9. ASSUME NEW i \in 1 .. Len(m) PROVE m[i].seqno = s.seqno \/ \E j \in 1 .. Len(l) : m[i].seqno = l[j].seqno
  <2>1. i \in 1 .. N + 1 /\ (i < p \/ i = p \/ i > p)
    BY <1>1
  <2>2. QED BY <1>5, <1>6, <1>7, <2>1 DEF N, at
<1>10. ASSUME Whole(l), Good(s), \A i \in 1 .. N + 1 : ~Misplaced(m[i]) PROVE Whole(m)
  <2>1. \A j \in 1 .. N : Good(l[j]) /\ l[j].len \in Nat
    BY <1>10, GoodIs DEF Whole, N
  <2>2. \A i, j \in 1 .. N : i < j => l[i].seqno + l[i].len <= l[j].seqno
    BY <1>1, <1>10 DEF Whole, Packed
  <2>3. Good(m[p]) /\ (p <= N => at + m[p].len <= l[p].seqno)
    <3>1. CASE p <= N
      <4>1. l[p].seqno \in Nat /\ s.seqno < l[p].seqno /\ m[p] = CutBefore(s, l[p].seqno)
        BY <1>1, <1>3, <3>1 DEF N
      <4>2. Good(m[p]) /\ m[p].seqno + m[p].len <= l[p].seqno
        BY <1>7, <1>10, <4>1, CutBeforeIsGood
      <4>3. QED BY <1>7, <4>2
    <3>2. CASE ~(p <= N)
      BY <1>1, <1>10, <3>2 DEF N
    <3>3. QED BY <3>1, <3>2
  <2>4. ASSUME NEW i \in 1 .. N + 1, i < p PROVE Good(m[i]) /\ m[i].seqno + m[i].len <= at
    <3>1. CASE i = p - 1
      <4>1. m[i] = CutBefore(l[i], at) /\ Good(l[i]) /\ l[i].seqno < at
        BY <1>1, <1>5, <2>1, <2>4, <3>1
      <4>2. QED BY <1>1, <1>10, <4>1, CutBeforeIsGood
    <3>2. CASE i # p - 1
      <4> DEFINE k == p - 1
      <4>1. i \in 1 .. N /\ k \in 1 .. N /\ k \in 1 .. N + 1 /\ k < p /\ i < k
        BY <1>1, <1>5, <2>4, <3>2
      <4> HIDE DEF k
      <4>2. m[i] = l[i] /\ l[i].seqno + l[i].len <= l[k].seqno
        BY <1>5, <2>2, <2>4, <3>2, <4>1
      <4>3. l[k].seqno < at
        BY <1>5, <4>1
      <4>4. l[i].seqno \in Nat /\ l[i].len \in Nat /\ l[k].seqno \in Nat
        BY <1>3, <2>1, <4>1
      <4>5. m[i].seqno + m[i].len <= at
        <5> DEFINE u == l[i].seqno + l[i].len
                   v == l[k].seqno
        <5>1. u \in Nat /\ v \in Nat /\ m[i].seqno + m[i].len = u /\ u <= v /\ v < at /\ at \in Nat
          BY <1>1, <4>2, <4>3, <4>4
        <5> HIDE DEF u, v
        <5>2. QED BY <5>1
      <4>6. QED BY <2>1, <4>1, <4>2, <4>5
    <3>3. QED BY <3>1, <3>2
  <2>5. ASSUME NEW i \in 1 .. N + 1 PROVE Good(m[i])
    <3>1. i < p \/ i = p \/ i > p
      BY <1>1
    <3>2. QED BY <1>6, <2>1, <2>3, <2>4, <3>1
  <2>6. ASSUME NEW i \in 1 .. N + 1, NEW j \in 1 .. N + 1, i < j
        PROVE  m[i].seqno + m[i].len <= m[j].seqno
    <3>9. m[i].seqno \in Nat /\ m[i].len \in Nat /\ m[j].seqno \in Nat
      BY <2>5, GoodIs
    <3>1. CASE i > p
      <4>1. j > p /\ i - 1 < j - 1
        BY <1>1, <2>6, <3>1
      <4>2. i - 1 \in 1 .. N /\ j - 1 \in 1 .. N /\ m[i] = l[i - 1] /\ m[j] = l[j - 1]
        BY <1>6, <3>1, <4>1
      <4>3. QED BY <2>2, <4>1, <4>2
    <3>2. CASE i = p
      <4> DEFINE k == j - 1
      <4>1. j > p /\ k >= p /\ p <= N /\ k \in Nat
        BY <1>1, <2>6, <3>2
      <4>2. k \in 1 .. N /\ m[j] = l[k]
        BY <1>6, <4>1
      <4> HIDE DEF k
      <4>3. l[p].seqno <= l[k].seqno
        <5>1. CASE k = p
          BY <1>3, <4>2, <5>1
        <5>2. CASE k # p
          <6>1. p \in DOMAIN l /\ k \in DOMAIN l /\ p < k
            BY <1>1, <4>1, <4>2, <5>2
          <6>2. l[p].seqno < l[k].seqno
            BY <6>1 DEF Rising
          <6>3. l[p].seqno \in Nat /\ l[k].seqno \in Nat
            BY <1>1, <1>3, <6>1
          <6>4. QED BY <6>2, <6>3
        <5>3. QED BY <5>1, <5>2
      <4>4. l[p].seqno \in Nat
        BY <1>1, <1>3, <4>1
      <4>5. at + m[p].len <= l[p].seqno /\ m[p].seqno = at
        BY <1>7, <2>3, <4>1
      <4>6. QED
        <5> DEFINE u == m[i].seqno + m[i].len
                   v == l[p].seqno
                   w == m[j].seqno
        <5>1. u \in Nat /\ v \in Nat /\ w \in Nat /\ u <= v /\ v <= w
          BY <3>2, <3>9, <4>2, <4>3, <4>4, <4>5
        <5> HIDE DEF u, v, w
        <5>2. u <= w
          BY <5>1
        <5>3. QED BY <5>2 DEF u, w
    <3>3. CASE i < p
      <4>1. m[i].seqno + m[i].len <= at
        BY <2>4, <3>3
      <4>2. CASE j >= p
        <5>1. at <= m[j].seqno
          BY <1>1, <1>6, <1>7, <3>9, <4>2
        <5>2. QED BY <1>1, <3>9, <4>1, <5>1
      <4>3. CASE j < p
        <5>1. i # p - 1
          BY <1>1, <2>6, <4>3
        <5>2. m[i] = l[i] /\ m[j].seqno = l[j].seqno /\ i \in 1 .. N /\ j \in 1 .. N
          BY <1>5, <3>3, <4>3, <5>1
        <5>3. QED BY <2>2, <2>6, <5>2
      <4>4. QED BY <1>1, <4>2, <4>3
    <3>4. QED BY <1>1, <3>1, <3>2, <3>3
  <2>7. QED BY <1>1, <2>5, <2>6 DEF Whole, Packed
<1>11. QED BY <1>1, <1>8, <1>9, <1>10

LEMMA StopIs ==
    ASSUME ooseq \in Seq(Segs), ooseq # <<>>, Rising(ooseq), NEW s \in Segs
    PROVE  /\ Stop(s) \in 1 .. Len(ooseq)
           /\ \A j \in 1 .. Stop(s) - 1 : ooseq[j].seqno < s.seqno
           /\ \/ ooseq[Stop(s)].seqno = s.seqno
              \/ s.seqno < ooseq[Stop(s)].seqno
              \/ Stop(s) = Len(ooseq) /\ ooseq[Stop(s)].seqno < s.seqno
<1> DEFINE N == Len(ooseq)
           at == s.seqno
           B == {i \in 1 .. N : at <= ooseq[i].seqno}
<1>1. N \in Nat /\ N >= 1 /\ DOMAIN ooseq = 1 .. N /\ \A i \in 1 .. N : ooseq[i] \in Segs
  OBVIOUS
<1>2. at \in Nat /\ \A i \in 1 .. N : ooseq[i].seqno \in Nat
  BY <1>1 DEF Segs
<1>3. \A i \in Stops(s) : i \in 1 .. N
  BY <1>1 DEF Stops
<1>4. \E i \in Nat : i \in Stops(s)
  <2>1. CASE B = {}
    <3>1. N \in 1 .. N /\ ooseq[N].seqno \in Nat /\ ~(at <= ooseq[N].seqno)
      BY <1>1, <1>2, <2>1
    <3>2. N \in Stops(s)
      BY <1>1, <1>2, <3>1 DEF Stops
    <3>3. QED BY <1>1, <3>2
  <2>2. CASE B # {}
    <3>1. B \subseteq Nat
      BY <1>1
    <3>2. PICK k \in B : \A j \in B : ~(<<j, k>> \in OpToRel(<, Nat))
      BY <2>2, <3>1, NatLessThanWellFounded, WFMin
    <3>3. \A j \in B : ~(j < k)
      BY <3>1, <3>2 DEF OpToRel
    <3>4. k \in 1 .. N /\ at <= ooseq[k].seqno /\ ooseq[k].seqno \in Nat
      BY <1>2
    <3>5. k = 1 \/ ooseq[k - 1].seqno < at
      <4>1. SUFFICES ASSUME k # 1 PROVE ooseq[k - 1].seqno < at
        OBVIOUS
      <4> DEFINE i == k - 1
      <4>2. i \in 1 .. N /\ i < k
        BY <1>1, <3>4, <4>1
      <4> HIDE DEF i
      <4>3. i \notin B
        BY <3>3, <4>2
      <4>4. ooseq[i].seqno < at
        BY <1>2, <4>2, <4>3
      <4>5. QED BY <4>4 DEF i
    <3>6. ooseq[k].seqno = at \/ at < ooseq[k].seqno
      BY <1>2, <3>4
    <3>7. k \in DOMAIN ooseq /\ k \in Nat
      BY <1>1, <3>4
    <3> HIDE DEF B
    <3>8. k \in Stops(s)
      BY <3>5, <3>6, <3>7 DEF Stops
    <3>9. QED BY <3>7, <3>8
  <2>3. QED BY <2>1, <2>2
<1>5. Stop(s) \in Stops(s)
  <2> DEFINE Z == Stops(s)
  <2>1. Z \subseteq Nat /\ Z # {}
    <3> HIDE DEF Z
    <3>1. (\A i \in Z : i \in 1 .. N) /\ \E i \in Nat : i \in Z
      BY <1>3, <1>4 DEF Z
    <3>2. Z # {}
      BY <3>1
    <3>3. ASSUME NEW i \in Z PROVE i \in Nat
      <4>1. i \in 1 .. N
        BY <3>1
      <4> HIDE DEF N
      <4>2. QED BY <4>1
    <3>4. QED BY <3>2, <3>3
  <2> HIDE DEF Z
  <2>2. PICK k \in Z : \A j \in Z : ~(<<j, k>> \in OpToRel(<, Nat))
    BY <2>1, NatLessThanWellFounded, WFMin
  <2>3. ASSUME NEW j \in Z PROVE k <= j
    <3>1. j \in Nat /\ k \in Nat
      BY <2>1
    <3>2. ~(j < k)
      BY <2>2, <3>1 DEF OpToRel
    <3>3. QED BY <3>1, <3>2
  <2>4. \E i \in Stops(s) : \A j \in Stops(s) : i <= j
    BY <2>3 DEF Z
  <2>5. QED BY <2>4 DEF Stop
<1> DEFINE i == Stop(s)
<1>6. /\ i \in 1 .. N
      /\ \/ ooseq[i].seqno = at
         \/ at < ooseq[i].seqno /\ (i = 1 \/ ooseq[i - 1].seqno < at)
         \/ i = N /\ at > ooseq[i].seqno
  BY <1>3, <1>5 DEF Stops
<1> HIDE DEF i
<1>7. ASSUME NEW j, j \in 1 .. i - 1 PROVE ooseq[j].seqno < at
  <2>1. j \in 1 .. N /\ j < i /\ j \in Nat /\ i \in Nat
    BY <1>1, <1>6, <1>7
  <2>2. ooseq[j].seqno < ooseq[i].seqno /\ ooseq[j].seqno \in Nat /\ ooseq[i].seqno \in Nat
    BY <1>1, <1>2, <1>6, <2>1 DEF Rising
  <2>3. CASE ooseq[i].seqno = at
    BY <2>2, <2>3
  <2>4. CASE at < ooseq[i].seqno /\ (i = 1 \/ ooseq[i - 1].seqno < at)
    <3> DEFINE k == i - 1
    <3>1. k \in 1 .. N /\ (j = k \/ j < k) /\ i # 1
      <4>1. i \in 1 .. N /\ j \in 1 .. i - 1 /\ i \in Nat /\ j \in Nat
        BY <1>1, <1>6, <1>7, <2>1
      <4> HIDE DEF N
      <4>2. QED BY <1>1, <4>1
    <3>2. ooseq[k].seqno < at
      BY <2>4, <3>1
    <3> HIDE DEF k
    <3>3. j < k => ooseq[j].seqno < ooseq[k].seqno
      BY <1>1, <2>1, <3>1 DEF Rising
    <3>4. ooseq[k].seqno \in Nat
      BY <1>2, <3>1
    <3>5. QED BY <1>2, <2>2, <3>1, <3>2, <3>3, <3>4
  <2>5. CASE at > ooseq[i].seqno
    BY <1>2, <2>2, <2>5
  <2>6. QED BY <1>6, <2>3, <2>4, <2>5
<1>8. QED
  <2>1. i = N /\ at > ooseq[i].seqno => ooseq[i].seqno < at
    BY <1>2, <1>6
  <2>2. QED BY <1>6, <1>7, <2>1 DEF i

LEMMA PlacedIs ==
    ASSUME ooseq \in Seq(Segs), Rising(ooseq), NEW s \in Segs
    PROVE  LET m == Placed(s) IN
           /\ m \in Seq(Segs) /\ Rising(m)
           /\ Len(m) + (IF Replaces(s) THEN 1 ELSE 0) = Len(ooseq) + (IF m = ooseq THEN 0 ELSE 1)
           /\ \A i \in 1 .. Len(m) : m[i].seqno = s.seqno \/ \E j \in 1 .. Len(ooseq) : m[i].seqno = ooseq[j].seqno
           /\ /\ Whole(ooseq) /\ Good(s) /\ ~(Replaces(s) /\ ReachesOver(s))
              /\ \A i \in 1 .. Len(m) : ~Misplaced(m[i])
              => Whole(m)
<1> DEFINE m == Placed(s)
           N == Len(ooseq)
           i == Stop(s)
           at == s.seqno
<1>1. N \in Nat /\ DOMAIN ooseq = 1 .. N /\ \A j \in 1 .. N : ooseq[j] \in Segs
  OBVIOUS
<1>2. at \in Nat /\ s.len \in Nat /\ \A j \in 1 .. N : ooseq[j].seqno \in Nat /\ ooseq[j].len \in Nat
  BY <1>1 DEF Segs
<1>3. CASE ooseq = <<>>
  <2>1. m = <<s>> /\ N = 0
    BY <1>3 DEF Placed
  <2>2. m \in Seq(Segs) /\ Len(m) = 1 /\ m[1] = s /\ m # ooseq
    BY <1>3, <2>1
  <2>3. ~Replaces(s)
    BY <1>1, <2>1 DEF Replaces
  <2> HIDE DEF m, N
  <2>4. Rising(m) /\ Packed(m)
    BY <2>2 DEF Rising, Packed
  <2>5. Good(s) => Whole(m)
    BY <2>2, <2>4 DEF Whole
  <2>6. QED BY <1>3, <2>1, <2>2, <2>3, <2>4, <2>5 DEF m, N
<1>4. CASE ooseq # <<>>
  <2>1. /\ i \in 1 .. N
        /\ \A j \in 1 .. i - 1 : ooseq[j].seqno < at
        /\ ooseq[i].seqno = at \/ at < ooseq[i].seqno \/ (i = N /\ ooseq[i].seqno < at)
    BY <1>4, StopIs
  <2>2. m = LET o == ooseq[i] IN
            IF o.seqno = at THEN (IF s.len > o.len THEN [ooseq EXCEPT ![i] = s] ELSE ooseq)
            ELSE IF at < o.seqno THEN Insert(s, i)
            ELSE Append([ooseq EXCEPT ![i] = CutBefore(@, at)], s)
    BY <1>4 DEF Placed
  <2> HIDE DEF m, i
  <2>3. CASE ooseq[i].seqno = at
    <3>1. \A j \in 1 .. N : ooseq[j].seqno = at => j = i
      <4>1. SUFFICES ASSUME NEW j \in 1 .. N, ooseq[j].seqno = at, j # i PROVE FALSE
        OBVIOUS
      <4>2. j < i \/ i < j
        BY <1>1, <2>1, <4>1
      <4>3. ooseq[j].seqno < ooseq[i].seqno \/ ooseq[i].seqno < ooseq[j].seqno
        BY <1>1, <2>1, <4>2 DEF Rising
      <4>4. QED BY <1>2, <2>3, <4>1, <4>3
    <3>2. Replaces(s) <=> ooseq[i].len < s.len
      BY <1>1, <2>1, <2>3, <3>1 DEF Replaces
    <3>3. CASE ooseq[i].len < s.len
      <4>1. m = [ooseq EXCEPT ![i] = s]
        BY <1>2, <2>1, <2>2, <2>3, <3>3
      <4>2. m \in Seq(Segs) /\ Len(m) = N /\ m[i] = s /\ \A j \in 1 .. N : j # i => m[j] = ooseq[j]
        BY <2>1, <4>1
      <4>3. m # ooseq
        BY <1>2, <2>1, <3>3, <4>2
      <4>4. \A j \in 1 .. N : m[j].seqno = ooseq[j].seqno
        BY <2>3, <4>2
      <4>5. Rising(m)
        BY <1>1, <4>2, <4>4 DEF Rising
      <4>6. ASSUME Whole(ooseq), Good(s), ~ReachesOver(s) PROVE Whole(m)
        <5>1. \A j \in 1 .. N : Good(m[j])
          BY <4>2, <4>6 DEF Whole
        <5>2. ASSUME NEW j \in 1 .. N, NEW k \in 1 .. N, j < k PROVE m[j].seqno + m[j].len <= m[k].seqno
          <6>1. CASE j = i
            <7>1. ooseq[i].seqno < ooseq[k].seqno
              BY <1>1, <2>1, <5>2, <6>1 DEF Rising
            <7>2. ~(ooseq[k].seqno < s.seqno + s.len)
              BY <1>1, <2>3, <4>6, <7>1 DEF ReachesOver
            <7>3. m[k].seqno = ooseq[k].seqno /\ m[j] = s
              BY <4>2, <4>4, <6>1
            <7>4. QED BY <1>2, <7>2, <7>3
          <6>2. CASE j # i
            <7>1. m[j] = ooseq[j] /\ m[k].seqno = ooseq[k].seqno
              BY <4>2, <4>4, <6>2
            <7>2. ooseq[j].seqno + ooseq[j].len <= ooseq[k].seqno
              BY <1>1, <4>6, <5>2 DEF Whole, Packed
            <7>3. QED BY <7>1, <7>2
          <6>3. QED BY <6>1, <6>2
        <5>3. DOMAIN m = 1 .. N /\ Len(m) = N
          BY <4>2
        <5>4. QED BY <5>1, <5>2, <5>3 DEF Whole, Packed
      <4>7. \A j \in 1 .. Len(m) : m[j].seqno = s.seqno \/ \E k \in 1 .. N : m[j].seqno = ooseq[k].seqno
        BY <4>2, <4>4
      <4>8. Replaces(s)
        BY <3>2, <3>3
      <4> HIDE DEF N
      <4>9. Len(m) + 1 = N + 1
        BY <4>2
      <4>10. QED BY <4>2, <4>3, <4>5, <4>6, <4>7, <4>8, <4>9 DEF m, N
    <3>4. CASE ~(ooseq[i].len < s.len)
      <4>1. m = ooseq
        BY <1>2, <2>1, <2>2, <2>3, <3>4
      <4>2. ~Replaces(s)
        BY <3>2, <3>4
      <4>3. QED BY <1>1, <4>1, <4>2 DEF m
    <3>5. QED BY <3>3, <3>4
  <2>4. CASE ooseq[i].seqno # at
    <3> DEFINE p == IF at < ooseq[i].seqno THEN i ELSE N + 1
               b == IF at < ooseq[i].seqno
                    THEN (IF i = 1 THEN ooseq ELSE [ooseq EXCEPT ![i - 1] = CutBefore(@, at)])
                    ELSE [ooseq EXCEPT ![N] = CutBefore(@, at)]
               x == IF p <= N THEN CutBefore(s, ooseq[p].seqno) ELSE s
    <3>1. p \in 1 .. N + 1 /\ (p > N => p = N + 1 /\ i = N)
      <4>1. ooseq[i].seqno \in Nat /\ i \in 1 .. N /\ N \in Nat
        BY <1>1, <1>2, <2>1
      <4>2. at < ooseq[i].seqno \/ i = N
        BY <2>1, <2>4
      <4> HIDE DEF N, at
      <4>3. QED BY <4>1, <4>2
    <3>2. (\A j \in 1 .. p - 1 : ooseq[j].seqno < at) /\ (\A j \in p .. N : at < ooseq[j].seqno)
      <4>1. CASE at < ooseq[i].seqno
        <5>1. p = i
          BY <4>1
        <5>2. ASSUME NEW j, j \in i .. N PROVE at < ooseq[j].seqno
          <6>1. CASE j = i
            BY <4>1, <6>1
          <6>2. CASE j # i
            <7>1. i < j /\ j \in 1 .. N
              BY <1>1, <2>1, <5>2, <6>2
            <7>2. ooseq[i].seqno < ooseq[j].seqno
              BY <1>1, <2>1, <7>1 DEF Rising
            <7>3. QED BY <1>2, <2>1, <4>1, <7>1, <7>2
          <6>3. QED BY <6>1, <6>2
        <5>3. QED BY <2>1, <5>1, <5>2
      <4>2. CASE ~(at < ooseq[i].seqno)
        <5>1. p = N + 1 /\ i = N /\ ooseq[N].seqno < at
          BY <2>1, <2>4, <4>2
        <5>2. ASSUME NEW j, j \in 1 .. N PROVE ooseq[j].seqno < at
          <6>1. CASE j = N
            BY <5>1, <6>1
          <6>2. CASE j # N
            <7>1. j \in 1 .. i - 1
              <8>1. N \in Nat /\ i = N /\ j \in 1 .. N
                BY <1>1, <5>1, <5>2
              <8> HIDE DEF N
              <8>2. QED BY <6>2, <8>1
            <7>2. QED BY <2>1, <7>1
          <6>3. QED BY <6>1, <6>2
        <5>3. QED BY <1>1, <5>1, <5>2
      <4>3. QED BY <4>1, <4>2
    <3>3. /\ b \in Seq(Segs) /\ Len(b) = N
          /\ \A j \in 1 .. N : b[j] = IF j = p - 1 THEN CutBefore(ooseq[j], at) ELSE ooseq[j]
      <4>1. ASSUME NEW k \in 1 .. N PROVE
              /\ [ooseq EXCEPT ![k] = CutBefore(@, at)] \in Seq(Segs)
              /\ Len([ooseq EXCEPT ![k] = CutBefore(@, at)]) = N
              /\ \A j \in 1 .. N : [ooseq EXCEPT ![k] = CutBefore(@, at)][j]
                                   = IF j = k THEN CutBefore(ooseq[j], at) ELSE ooseq[j]
        <5> DEFINE y == CutBefore(ooseq[k], at)
        <5>1. y \in Segs
          <6>1. ooseq[k] \in Segs
            BY <1>1
          <6>2. QED BY <1>2, <6>1, CutBeforeIs
        <5>2. y = CutBefore(ooseq[k], at)
          OBVIOUS
        <5> HIDE DEF y
        <5>3. [ooseq EXCEPT ![k] = CutBefore(@, at)] = [ooseq EXCEPT ![k] = y]
          BY <5>2
        <5> DEFINE z == [ooseq EXCEPT ![k] = y]
        <5>4. z \in Seq(Segs) /\ Len(z) = N /\ \A j \in 1 .. N : z[j] = IF j = k THEN y ELSE ooseq[j]
          BY <4>1, <5>1
        <5> HIDE DEF z
        <5>5. \A j \in 1 .. N : z[j] = IF j = k THEN CutBefore(ooseq[j], at) ELSE ooseq[j]
          BY <5>2, <5>4
        <5>6. QED BY <5>3, <5>4, <5>5 DEF z
      <4>2. CASE at < ooseq[i].seqno /\ i = 1
        <5>1. b = ooseq /\ p - 1 = 0
          BY <4>2
        <5> HIDE DEF b, p
        <5>2. QED BY <1>1, <5>1
      <4>3. CASE at < ooseq[i].seqno /\ i # 1
        <5> DEFINE k == i - 1
        <5>1. k \in 1 .. N /\ p - 1 = k /\ b = [ooseq EXCEPT ![k] = CutBefore(@, at)]
          <6>1. N \in Nat /\ i \in 1 .. N
            BY <1>1, <2>1
          <6>2. p = i /\ b = [ooseq EXCEPT ![k] = CutBefore(@, at)]
            BY <4>3
          <6> HIDE DEF N, p, b
          <6>3. k \in 1 .. N
            BY <4>3, <6>1
          <6>4. QED BY <6>2, <6>3
        <5> HIDE DEF b, p, k, N, at
        <5>2. QED BY <4>1, <5>1
      <4>4. CASE ~(at < ooseq[i].seqno)
        <5>1. N \in 1 .. N /\ p - 1 = N /\ b = [ooseq EXCEPT ![N] = CutBefore(@, at)]
          <6>1. N \in Nat /\ i \in 1 .. N
            BY <1>1, <2>1
          <6>2. p = N + 1 /\ b = [ooseq EXCEPT ![N] = CutBefore(@, at)]
            BY <4>4
          <6> HIDE DEF N, p, b
          <6>3. N \in 1 .. N /\ p - 1 = N
            BY <6>1, <6>2
          <6>4. QED BY <6>2, <6>3
        <5> HIDE DEF b, p, N, at
        <5>2. QED BY <4>1, <5>1
      <4>5. QED BY <4>2, <4>3, <4>4
    <3>4. x \in Segs
      <4>1. CASE p <= N
        <5>1. p \in 1 .. N
          BY <1>1, <3>1, <4>1
        <5>2. ooseq[p].seqno \in Nat
          BY <1>2, <5>1
        <5>3. CutBefore(s, ooseq[p].seqno) \in Segs
          BY <5>2, CutBeforeIs
        <5>4. QED BY <4>1, <5>3
      <4>2. CASE ~(p <= N)
        BY <4>2
      <4>3. QED BY <4>1, <4>2
    <3>5. x = IF p <= Len(ooseq) THEN CutBefore(s, ooseq[p].seqno) ELSE s
      OBVIOUS
    <3>6. m \in Seq(Segs) /\ Inserted(m, b, p, x)
      <4>1. CASE at < ooseq[i].seqno
        <5>1. m = InsertAt(b, i, CutBefore(s, ooseq[i].seqno)) /\ p = i
          BY <2>2, <2>4, <4>1 DEF Insert
        <5>2. x = CutBefore(s, ooseq[i].seqno)
          <6> HIDE DEF p, N
          <6>1. i <= N /\ p = i
            BY <1>1, <2>1, <5>1
          <6>2. QED BY <6>1
        <5>3. p \in 1 .. Len(b) + 1
          BY <3>1, <3>3
        <5> HIDE DEF b, p, x, N
        <5>4. QED BY <3>3, <3>4, <5>1, <5>2, <5>3, InsertAtIs
      <4>2. CASE ~(at < ooseq[i].seqno)
        <5>1. p = N + 1 /\ i = N /\ x = s
          <6>1. p = N + 1 /\ i = N /\ N \in Nat
            BY <1>1, <2>1, <2>4, <4>2
          <6> HIDE DEF p, N
          <6>2. ~(p <= N)
            BY <6>1
          <6>3. QED BY <6>1, <6>2
        <5>2. m = Append(b, s)
          BY <2>2, <2>4, <4>2, <5>1
        <5> HIDE DEF b, p, x, N
        <5>3. /\ m \in Seq(Segs) /\ Len(m) = N + 1 /\ m[N + 1] = s /\ \A j \in 1 .. N : m[j] = b[j]
          BY <3>3, <5>2
        <5>4. (\A j \in 1 .. p - 1 : m[j] = b[j]) /\ p .. Len(b) = {}
          BY <1>1, <3>3, <5>1, <5>3
        <5>5. QED BY <3>3, <5>1, <5>3, <5>4 DEF Inserted
      <4>3. QED BY <4>1, <4>2
    <3> HIDE DEF p, b, x
    <3>7. /\ Rising(m)
          /\ Whole(ooseq) /\ Good(s) /\ (\A j \in 1 .. Len(m) : ~Misplaced(m[j])) => Whole(m)
          /\ \A j \in 1 .. Len(m) : m[j].seqno = s.seqno \/ \E k \in 1 .. Len(ooseq) : m[j].seqno = ooseq[k].seqno
      <4>1. p \in 1 .. Len(ooseq) + 1
        BY <3>1
      <4>2. \A j \in 1 .. p - 1 : ooseq[j].seqno < s.seqno
        BY <3>2
      <4>3. \A j \in p .. Len(ooseq) : s.seqno < ooseq[j].seqno
        BY <3>2
      <4>4. Len(b) = Len(ooseq)
        BY <3>3
      <4>5. \A j \in 1 .. Len(ooseq) : b[j] = IF j = p - 1 THEN CutBefore(ooseq[j], s.seqno) ELSE ooseq[j]
        BY <3>3
      <4>6. x = IF p <= Len(ooseq) THEN CutBefore(s, ooseq[p].seqno) ELSE s
        BY <3>5
      <4>7. m \in Seq(Segs) /\ Inserted(m, b, p, x)
        BY <3>6
      <4>9. ooseq \in Seq(Segs) /\ Rising(ooseq) /\ s \in Segs
        OBVIOUS
      <4>10. PutsIn(m, ooseq, s, p, b, x)
        BY <4>9, <4>1, <4>2, <4>3, <4>4, <4>5, <4>6, <4>7 DEF PutsIn
      <4> HIDE DEF N, at
      <4>11. QED BY <4>10, PutIn
    <3>8. Len(m) = N + 1 /\ m # ooseq
      BY <1>1, <3>3, <3>6 DEF Inserted
    <3>9. ~Replaces(s)
      <4>1. \A j \in 1 .. N : ooseq[j].seqno # at
        <5>1. ASSUME NEW j \in 1 .. N PROVE ooseq[j].seqno # at
          <6>1. j \in 1 .. p - 1 \/ j \in p .. N
            BY <1>1, <3>1
          <6>2. ooseq[j].seqno < at \/ at < ooseq[j].seqno
            BY <3>2, <6>1
          <6>3. QED BY <1>2, <6>2
        <5>2. QED BY <5>1
      <4>2. QED BY <1>1, <4>1 DEF Replaces
    <3>10. QED BY <3>6, <3>7, <3>8, <3>9 DEF m, N
  <2>5. QED BY <2>3, <2>4
<1>5. QED BY <1>3, <1>4

----------------------------------------------------------------------------
OoseqTypeOK ==
    /\ rcv_nxt \in Nat /\ ooseq \in Seq(Segs) /\ delivered \in Seq(Int)
    /\ eof \in BOOLEAN /\ overlapped \in BOOLEAN /\ held \in Int /\ lost \in Nat

(* The application has the stream up to rcv_nxt.                           *)
StreamInv == \E n \in 0 .. StreamLen :
    /\ delivered = Stream(1, n) /\ rcv_nxt = n + 1 + (IF eof THEN 1 ELSE 0)
    /\ eof => n = StreamLen

(* The queue has pieces of what is to come.                                *)
AheadInv == /\ Whole(ooseq)
            /\ ~eof => \A i \in 1 .. Len(ooseq) : ooseq[i].seqno > rcv_nxt

(* Even when pieces overlap the queue rises, which is what finding a place *)
(* in it needs, and no tcp_seg is forgotten.                               *)
OoseqInv == /\ OoseqTypeOK /\ Rising(ooseq) /\ held = Len(ooseq) + lost
            /\ ~overlapped => StreamInv /\ AheadInv

LEMMA InvIsSound == ASSUME OoseqInv PROVE ReassemblyIsSound
<1>1. SegsAreReturned
  BY DEF OoseqInv, SegsAreReturned
<1>2. CASE overlapped
  BY <1>1, <1>2 DEF ReassemblyIsSound, QueueIsOrdered, DeliveredIsWhole, AcksWhatIsDelivered, EndIsLast
<1>3. CASE ~overlapped
  <2>1. /\ OoseqTypeOK /\ StreamInv /\ Whole(ooseq)
        /\ ~eof => \A i \in 1 .. Len(ooseq) : ooseq[i].seqno > rcv_nxt
    BY <1>3 DEF OoseqInv, AheadInv
  <2>2. PICK n \in 0 .. StreamLen :
           /\ delivered = Stream(1, n) /\ rcv_nxt = n + 1 + (IF eof THEN 1 ELSE 0)
           /\ eof => n = StreamLen
    BY <2>1 DEF StreamInv
  <2>3. n \in Nat /\ 1 \in Int
    BY OoseqAssumption
  <2>4. Len(delivered) = n
    BY <2>2, <2>3, StreamIs
  <2>5. DeliveredIsWhole /\ AcksWhatIsDelivered /\ EndIsLast
    BY <2>2, <2>4 DEF DeliveredIsWhole, AcksWhatIsDelivered, EndIsLast
  <2>6. QueueIsOrdered
    <3>1. DOMAIN ooseq = 1 .. Len(ooseq) /\ Len(ooseq) \in Nat
      BY <2>1 DEF OoseqTypeOK
    <3>2. ASSUME NEW i \in DOMAIN ooseq
          PROVE  /\ ~eof => ooseq[i].seqno > rcv_nxt
                 /\ ooseq[i].data = Stream(ooseq[i].seqno, ooseq[i].len)
                 /\ i > 1 => ooseq[i - 1].seqno + ooseq[i - 1].len <= ooseq[i].seqno
      <4>1. Good(ooseq[i]) /\ (~eof => ooseq[i].seqno > rcv_nxt)
        BY <2>1, <3>1 DEF Whole
      <4>2. ASSUME i > 1 PROVE ooseq[i - 1].seqno + ooseq[i - 1].len <= ooseq[i].seqno
        <5>1. i - 1 \in DOMAIN ooseq /\ i - 1 < i
          BY <3>1, <4>2
        <5>2. QED BY <2>1, <5>1 DEF Whole, Packed
      <4>3. QED BY <4>1, <4>2, GoodIs
    <3>3. QED BY <3>2 DEF QueueIsOrdered
  <2>7. QED BY <1>1, <2>5, <2>6 DEF ReassemblyIsSound
<1>4. QED BY <1>2, <1>3

LEMMA InitIsSound == OoseqInit => OoseqInv
<1> SUFFICES ASSUME OoseqInit PROVE OoseqInv
  OBVIOUS
<1>1. /\ rcv_nxt = 1 /\ ooseq = <<>> /\ delivered = <<>> /\ eof = FALSE
      /\ held = 0 /\ lost = 0 /\ overlapped = FALSE
  BY DEF OoseqInit
<1>2. Len(ooseq) = 0 /\ DOMAIN ooseq = {} /\ OoseqTypeOK
  <2>1. ooseq \in Seq(Segs)
    BY <1>1
  <2>2. delivered \in Seq(Int)
    BY <1>1
  <2>3. Len(ooseq) = 0 /\ DOMAIN ooseq = {}
    BY <1>1
  <2>4. rcv_nxt \in Nat /\ held \in Int /\ lost \in Nat
    BY <1>1
  <2>5. eof \in BOOLEAN
    BY <1>1
  <2>6. overlapped \in BOOLEAN
    BY <1>1
  <2>7. OoseqTypeOK
    BY <2>1, <2>2, <2>4, <2>5, <2>6 DEF OoseqTypeOK
  <2>8. QED BY <2>3, <2>7
<1>3. Rising(ooseq) /\ AheadInv
  BY <1>2 DEF Rising, AheadInv, Whole, Packed
<1>4. delivered = Stream(1, 0)
  <2>1. delivered \in Seq(Int) /\ Len(delivered) = 0 /\ 1 .. 0 = {}
    BY <1>1
  <2>2. \A i \in 1 .. 0 : delivered[i] = 1 + i - 1
    BY <2>1
  <2>3. 1 \in Int /\ 0 \in Nat
    OBVIOUS
  <2>4. QED BY <2>1, <2>2, <2>3, SameStream
<1>5. StreamInv
  <2>1. 0 \in 0 .. StreamLen
    BY OoseqAssumption
  <2>2. QED BY <1>1, <1>4, <2>1 DEF StreamInv
<1>6. held = Len(ooseq) + lost
  BY <1>1, <1>2
<1>7. QED BY <1>2, <1>3, <1>5, <1>6 DEF OoseqInv

LEMMA NothingIsSound == ASSUME OoseqInv, UNCHANGED ooseqVars PROVE OoseqInv'
<1>1. /\ rcv_nxt' = rcv_nxt /\ ooseq' = ooseq /\ delivered' = delivered /\ eof' = eof
      /\ held' = held /\ lost' = lost /\ overlapped' = overlapped
  BY DEF ooseqVars
<1>2. OoseqTypeOK' /\ Rising(ooseq)' /\ (held = Len(ooseq) + lost)'
  BY <1>1 DEF OoseqInv, OoseqTypeOK, Rising
<1>3. StreamInv' <=> StreamInv
  BY <1>1 DEF StreamInv
<1>4. AheadInv' <=> AheadInv
  BY <1>1 DEF AheadInv, Whole, Packed
<1>5. QED BY <1>1, <1>2, <1>3, <1>4 DEF OoseqInv

LEMMA JoinsIsSound ==
    ASSUME OoseqInv, NEW s, Good(s), s.seqno = rcv_nxt, Joins(s)
    PROVE  OoseqInv'
<1> DEFINE N == Len(ooseq)
           cuts == ooseq # <<>> /\ Head(ooseq).seqno <= s.seqno + s.len
           cut == IF cuts THEN Cut(s, Head(ooseq).seqno - s.seqno) ELSE s
           blank == [rcv_nxt |-> rcv_nxt, data |-> <<>>, fin |-> FALSE, left |-> <<>>]
           start == Take(blank, cut)
           run == Drain(start, ooseq)
           sound == ~overlapped'
<1>1. /\ rcv_nxt' = run.rcv_nxt /\ delivered' = delivered \o run.data
      /\ eof' = (eof \/ run.fin) /\ ooseq' = run.left
      /\ held' = held - (N - Len(run.left))
      /\ overlapped' = (overlapped \/ Misplaced(cut)) /\ lost' = lost
  BY DEF Joins
<1>2. /\ OoseqTypeOK /\ Rising(ooseq) /\ held = N + lost
      /\ ~overlapped => StreamInv /\ AheadInv
  BY DEF OoseqInv
<1>3. /\ rcv_nxt \in Nat /\ ooseq \in Seq(Segs) /\ delivered \in Seq(Int)
      /\ eof \in BOOLEAN /\ overlapped \in BOOLEAN /\ held \in Int /\ lost \in Nat
      /\ N \in Nat /\ DOMAIN ooseq = 1 .. N
  BY <1>2 DEF OoseqTypeOK
<1>4. /\ s \in Segs /\ s.len \in Nat /\ s.seqno \in Nat /\ s.seqno + s.len <= StreamLen + 1
      /\ StreamLen \in Nat
  BY GoodIs
<1>5. ooseq # <<>> => 1 \in 1 .. N /\ Head(ooseq) = ooseq[1] /\ ooseq[1] \in Segs /\ ooseq[1].seqno \in Nat
  <2>1. ooseq # <<>> => 1 \in 1 .. N /\ Head(ooseq) = ooseq[1] /\ ooseq[1] \in Segs
    BY <1>3
  <2>2. QED BY <2>1 DEF Segs
<1>6. cut \in Segs
  <2>1. CASE cuts
    <3>1. Head(ooseq).seqno - s.seqno \in Int
      BY <1>4, <1>5, <2>1
    <3>2. QED BY <1>4, <2>1, <3>1, CutIs
  <2>2. CASE ~cuts
    BY <1>4, <2>2
  <2>3. QED BY <2>1, <2>2
<1>7. /\ blank \in Runs /\ blank.rcv_nxt = rcv_nxt /\ blank.data = <<>> /\ blank.fin = FALSE
      /\ blank.left = <<>>
  BY <1>3 DEF Runs
<1> HIDE DEF blank
<1>8. /\ start \in Runs /\ start.rcv_nxt = rcv_nxt + U16Len(TcpLen(cut)) /\ start.data = <<>> \o cut.data
      /\ start.fin = cut.fin /\ start.left = <<>>
  <2> HIDE DEF cut
  <2>1. /\ Take(blank, cut) \in Runs /\ Take(blank, cut).rcv_nxt = blank.rcv_nxt + U16Len(TcpLen(cut))
        /\ Take(blank, cut).data = blank.data \o cut.data
        /\ Take(blank, cut).fin = (blank.fin \/ cut.fin) /\ Take(blank, cut).left = blank.left
    BY <1>6, <1>7, TakeIs
  <2>2. cut.fin \in BOOLEAN
    BY <1>6 DEF Segs
  <2>3. QED BY <1>7, <2>1, <2>2
<1> HIDE DEF start, cut
<1>9. sound \in BOOLEAN /\ (sound => ~overlapped /\ ~Misplaced(cut))
  BY <1>1, <1>3
<1>10. ASSUME sound
       PROVE  /\ Good(cut) /\ cut.seqno = rcv_nxt /\ Whole(ooseq) /\ ~eof
              /\ \A j \in 1 .. N : cut.seqno + cut.len <= ooseq[j].seqno
  <2>1. StreamInv /\ AheadInv /\ ~Misplaced(cut)
    BY <1>2, <1>9, <1>10
  <2>2. ~eof
    <3>1. PICK n \in 0 .. StreamLen : rcv_nxt = n + 1 + (IF eof THEN 1 ELSE 0) /\ (eof => n = StreamLen)
      BY <2>1 DEF StreamInv
    <3>2. rcv_nxt <= StreamLen + 1
      BY <1>4
    <3>3. QED BY <1>4, <3>1, <3>2
  <2>3. Whole(ooseq) /\ \A i \in 1 .. N : ooseq[i].seqno > rcv_nxt
    BY <2>1, <2>2 DEF AheadInv
  <2>4. CASE cuts
    <3> DEFINE h == ooseq[1].seqno
               len == h - s.seqno
    <3>1. h \in Nat /\ h > s.seqno /\ h <= s.seqno + s.len /\ 1 \in 1 .. N
      BY <1>5, <2>3, <2>4
    <3> HIDE DEF h
    <3>2. len \in 0 .. s.len
      BY <1>4, <3>1
    <3>3. cut = Cut(s, len)
      BY <1>5, <2>4 DEF cut, h
    <3>4. s.seqno + len = h /\ len \in Int
      BY <1>4, <3>1
    <3> HIDE DEF len
    <3>5. Good(cut) /\ cut.len = len
      BY <2>1, <3>2, <3>3, CutIsGood
    <3>6. cut.seqno = s.seqno
      BY <1>4, <3>3, <3>4, CutIs
    <3>7. ASSUME NEW j \in 1 .. N PROVE h <= ooseq[j].seqno
      <4>1. CASE j = 1
        BY <3>1, <4>1 DEF h
      <4>2. CASE j # 1
        <5>1. 1 < j /\ ooseq[1].seqno < ooseq[j].seqno
          <6>1. 1 < j
            BY <1>3, <4>2
          <6>2. QED BY <1>2, <1>3, <3>1, <6>1 DEF Rising
        <5>2. ooseq[j] \in Segs
          BY <1>3
        <5>3. ooseq[j].seqno \in Nat
          BY <5>2 DEF Segs
        <5>4. h < ooseq[j].seqno
          BY <5>1 DEF h
        <5>5. QED BY <3>1, <5>3, <5>4
      <4>3. QED BY <4>1, <4>2
    <3>8. QED BY <2>2, <2>3, <3>4, <3>5, <3>6, <3>7
  <2>5. CASE ~cuts
    <3>1. cut = s
      BY <2>5 DEF cut
    <3>2. ASSUME NEW j \in 1 .. N PROVE s.seqno + s.len <= ooseq[j].seqno
      <4>1. 1 \in 1 .. N /\ ooseq # <<>>
        BY <1>3, <3>2
      <4>2. s.seqno + s.len < ooseq[1].seqno
        BY <1>4, <1>5, <2>5, <4>1
      <4>3. j = 1 \/ (1 < j /\ ooseq[1].seqno < ooseq[j].seqno)
        <5>1. j = 1 \/ 1 < j
          BY <1>3
        <5>2. QED BY <1>2, <1>3, <4>1, <5>1 DEF Rising
      <4>4. ooseq[j] \in Segs /\ ooseq[1] \in Segs
        BY <1>3, <4>1
      <4>5. ooseq[j].seqno \in Nat /\ ooseq[1].seqno \in Nat
        BY <4>4 DEF Segs
      <4>6. QED BY <1>4, <4>2, <4>3, <4>5
    <3>3. QED BY <2>2, <2>3, <3>1, <3>2
  <2>6. QED BY <2>4, <2>5
<1>11. ASSUME sound PROVE Reaches(start, ooseq, 0, 0, rcv_nxt)
  <2> DEFINE d == cut.len
  <2>1. /\ d \in Nat /\ d < U16_MAX /\ cut.data = Stream(rcv_nxt, d) /\ cut.data \in Seq(Int)
        /\ cut.fin \in BOOLEAN
        /\ rcv_nxt + d <= StreamLen + 1 /\ (cut.fin => rcv_nxt + d = StreamLen + 1)
    BY <1>10, <1>11, GoodIs DEF Good
  <2>2. U16Len(TcpLen(cut)) = d + (IF cut.fin THEN 1 ELSE 0)
    BY <1>6, <2>1, TcpLenIs
  <2>3. \A j \in 0 + 1 .. Len(ooseq) : rcv_nxt + d <= ooseq[j].seqno
    BY <1>10, <1>11
  <2>4. start.data = Stream(rcv_nxt, d)
    BY <1>8, <2>1
  <2> HIDE DEF d
  <2>5. start.rcv_nxt = rcv_nxt + d + (IF start.fin THEN 1 ELSE 0)
    BY <1>3, <1>8, <2>1, <2>2
  <2>6. start.fin => rcv_nxt + d = StreamLen + 1
    BY <1>8, <2>1
  <2>7. QED BY <2>1, <2>3, <2>4, <2>5, <2>6 DEF Reaches
<1>12. /\ run \in Runs
       /\ \E m : Leaves(run, ooseq, N, m) /\ (sound => Reaches(run, ooseq, N, m, rcv_nxt))
  <2>1. sound => /\ Packed(ooseq) /\ \A j \in 1 .. Len(ooseq) : Good(ooseq[j])
                 /\ Reaches(start, ooseq, 0, 0, rcv_nxt)
    BY <1>10, <1>11 DEF Whole
  <2> HIDE DEF sound
  <2>2. QED BY <1>3, <1>8, <1>9, <2>1, DrainedIs
<1> HIDE DEF run
<1>13. PICK m : Leaves(run, ooseq, N, m) /\ (sound => Reaches(run, ooseq, N, m, rcv_nxt))
  BY <1>12
<1>14. /\ run.rcv_nxt \in Nat /\ run.data \in Seq(Int) /\ run.fin \in BOOLEAN /\ run.left \in Seq(Segs)
  BY <1>12 DEF Runs
<1> DEFINE M == N - m
<1>15. /\ m \in 0 .. N /\ m \in Nat /\ M \in Nat /\ Len(run.left) = M /\ DOMAIN run.left = 1 .. M
       /\ \A i \in 1 .. M : run.left[i] = ooseq[m + i] /\ m + i \in 1 .. N
  <2>1. m \in 0 .. N /\ Len(run.left) = M /\ \A i \in 1 .. M : run.left[i] = ooseq[m + i]
    BY <1>13 DEF Leaves
  <2> HIDE DEF N
  <2>2. m \in Nat /\ M \in Nat
    BY <1>3, <2>1
  <2>3. \A i \in 1 .. M : m + i \in 1 .. N
    BY <1>3, <2>1
  <2> HIDE DEF M
  <2>4. DOMAIN run.left = 1 .. M
    BY <1>14, <2>1
  <2>5. QED BY <2>1, <2>2, <2>3, <2>4
<1> HIDE DEF M, N
<1>16. OoseqTypeOK'
  <2>1. delivered' \in Seq(Int)
    BY <1>1, <1>3, <1>14
  <2>2. held' \in Int
    BY <1>1, <1>3, <1>15
  <2>3. eof' \in BOOLEAN /\ overlapped' \in BOOLEAN
    BY <1>1, <1>3, <1>14
  <2>4. QED BY <1>1, <1>3, <1>14, <2>1, <2>2, <2>3 DEF OoseqTypeOK
<1>17. Rising(ooseq)'
  <2>1. ASSUME NEW i \in 1 .. M, NEW j \in 1 .. M, i < j PROVE run.left[i].seqno < run.left[j].seqno
    <3>1. m + i < m + j
      BY <1>15, <2>1
    <3>2. QED BY <1>2, <1>3, <1>15, <3>1 DEF Rising
  <2>2. QED BY <1>1, <1>15, <2>1 DEF Rising
<1>18. (held = Len(ooseq) + lost)'
  <2>1. held = N + lost
    BY <1>2 DEF N
  <2>2. held' = held - (N - M)
    BY <1>1, <1>15 DEF N
  <2>3. Len(ooseq') = M
    BY <1>1, <1>15
  <2>4. held' = M + lost
    BY <1>3, <1>15, <2>1, <2>2
  <2>5. QED BY <1>1, <2>3, <2>4
<1>19. ASSUME sound PROVE StreamInv' /\ AheadInv'
  <2>1. PICK d \in Nat :
          /\ run.data = Stream(rcv_nxt, d) /\ run.rcv_nxt = rcv_nxt + d + (IF run.fin THEN 1 ELSE 0)
          /\ rcv_nxt + d <= StreamLen + 1 /\ (run.fin => rcv_nxt + d = StreamLen + 1)
          /\ \A j \in m + 1 .. Len(ooseq) : rcv_nxt + d <= ooseq[j].seqno
          /\ m < N /\ ~run.fin => ooseq[m + 1].seqno # rcv_nxt + d
    BY <1>13, <1>19 DEF Reaches
  <2>2. ~eof /\ Whole(ooseq) /\ StreamInv
    BY <1>2, <1>9, <1>10, <1>19
  <2>3. PICK n \in 0 .. StreamLen : delivered = Stream(1, n) /\ rcv_nxt = n + 1
    BY <1>4, <2>2 DEF StreamInv
  <2>4. n \in Nat /\ n + d \in 0 .. StreamLen /\ rcv_nxt = 1 + n /\ 1 \in Int
    BY <1>4, <2>1, <2>3
  <2>5. delivered' = Stream(1, n + d)
    <3>1. delivered' = Stream(1, n) \o Stream(rcv_nxt, d)
      BY <1>1, <2>1, <2>3
    <3> DEFINE g == rcv_nxt
               f == 1
    <3>2. f \in Int /\ n \in Nat /\ d \in Nat /\ g = f + n
      BY <2>4
    <3>3. delivered' = Stream(f, n) \o Stream(g, d)
      BY <3>1
    <3> HIDE DEF f, g
    <3>4. Stream(f, n) \o Stream(g, d) = Stream(f, n + d)
      BY <3>2, StreamJoin
    <3>5. QED BY <3>3, <3>4 DEF f
  <2>6. eof' = run.fin
    BY <1>1, <1>14, <2>2
  <2>7. StreamInv'
    <3> DEFINE k == n + d
    <3>1. k \in 0 .. StreamLen /\ delivered' = Stream(1, k)
      BY <2>4, <2>5
    <3>2. rcv_nxt' = k + 1 + (IF eof' THEN 1 ELSE 0)
      BY <1>1, <1>14, <2>1, <2>4, <2>6
    <3>3. eof' => k = StreamLen
      BY <1>4, <2>1, <2>4, <2>6
    <3> HIDE DEF k
    <3>4. QED BY <3>1, <3>2, <3>3 DEF StreamInv, Stream
  <2>8. \A i \in 1 .. M : Good(run.left[i])
    BY <1>15, <2>2 DEF Whole, N
  <2>9. ASSUME NEW i \in 1 .. M, NEW j \in 1 .. M, i < j
        PROVE  run.left[i].seqno + run.left[i].len <= run.left[j].seqno
    <3>1. m + i < m + j /\ m + i \in DOMAIN ooseq /\ m + j \in DOMAIN ooseq
      BY <1>3, <1>15, <2>9
    <3>2. ooseq[m + i].seqno + ooseq[m + i].len <= ooseq[m + j].seqno
      BY <2>2, <3>1 DEF Whole, Packed
    <3>3. QED BY <1>15, <3>2
  <2>10. Whole(ooseq)'
    BY <1>1, <1>15, <2>8, <2>9 DEF Whole, Packed, Good, Segs, Stream
  <2>11. ASSUME ~eof', NEW i \in 1 .. M PROVE run.left[i].seqno > run.rcv_nxt
    <3>1. ~run.fin /\ run.rcv_nxt = rcv_nxt + d
      BY <1>3, <2>1, <2>6, <2>11
    <3>2. m + i \in m + 1 .. N /\ m + 1 \in m + 1 .. N /\ m < N /\ m + 1 \in 1 .. N
      BY <1>3, <1>15
    <3>3. ooseq[m + 1].seqno # rcv_nxt + d /\ rcv_nxt + d <= ooseq[m + 1].seqno
      BY <2>1, <3>1, <3>2 DEF N
    <3>4. ooseq[m + 1] \in Segs /\ ooseq[m + i] \in Segs
      BY <1>3, <1>15, <3>2
    <3>5. ooseq[m + 1].seqno \in Nat /\ ooseq[m + i].seqno \in Nat
      BY <3>4 DEF Segs
    <3>6. i = 1 \/ ooseq[m + 1].seqno < ooseq[m + i].seqno
      <4>1. i = 1 \/ m + 1 < m + i
        BY <1>15
      <4>2. QED BY <1>2, <1>3, <1>15, <3>2, <4>1 DEF Rising
    <3>7. ooseq[m + i].seqno > rcv_nxt + d
      <4> DEFINE u == rcv_nxt + d
                 v == ooseq[m + 1].seqno
                 w == ooseq[m + i].seqno
      <4>1. u \in Nat /\ v \in Nat /\ w \in Nat /\ v # u /\ u <= v /\ (w = v \/ v < w)
        BY <1>3, <2>1, <3>3, <3>5, <3>6
      <4> HIDE DEF u, v, w
      <4>2. w > u
        BY <4>1
      <4>3. QED BY <4>2 DEF u, w
    <3>8. QED BY <1>15, <3>1, <3>7
  <2>12. AheadInv'
    <3>1. ~eof' => \A i \in 1 .. Len(ooseq') : ooseq'[i].seqno > rcv_nxt'
      BY <1>1, <1>15, <2>11
    <3>2. QED BY <2>10, <3>1 DEF AheadInv
  <2>13. QED BY <2>7, <2>12
<1>20. QED BY <1>16, <1>17, <1>18, <1>19 DEF OoseqInv

LEMMA WaitsIsSound ==
    ASSUME OoseqInv, NEW s, Good(s), s.seqno > rcv_nxt, NEW room, Waits(s, room)
    PROVE  OoseqInv'
<1>1. /\ OoseqTypeOK /\ Rising(ooseq) /\ held = Len(ooseq) + lost
      /\ ~overlapped => StreamInv /\ AheadInv
      /\ rcv_nxt' = rcv_nxt /\ delivered' = delivered /\ eof' = eof
  BY DEF OoseqInv, Waits
<1>2. /\ rcv_nxt \in Nat /\ ooseq \in Seq(Segs) /\ delivered \in Seq(Int)
      /\ eof \in BOOLEAN /\ overlapped \in BOOLEAN /\ held \in Int /\ lost \in Nat
      /\ Len(ooseq) \in Nat
  BY <1>1 DEF OoseqTypeOK
<1>3. s \in Segs
  BY DEF Good
<1>4. StreamInv' <=> StreamInv
  BY <1>1 DEF StreamInv
<1>5. CASE room /\ held < MEMP_NUM_TCP_SEG
  <2> DEFINE m == Placed(s)
  <2>1. /\ ooseq' = m /\ held' = held + (IF ooseq' = ooseq THEN 0 ELSE 1)
        /\ lost' = lost + (IF Replaces(s) THEN 1 ELSE 0)
        /\ overlapped' = (\/ overlapped
                          \/ Replaces(s) /\ ReachesOver(s)
                          \/ \E i \in DOMAIN ooseq' : Misplaced(ooseq'[i]))
    BY <1>5 DEF Waits
  <2>2. /\ m \in Seq(Segs) /\ Rising(m)
        /\ Len(m) + (IF Replaces(s) THEN 1 ELSE 0) = Len(ooseq) + (IF m = ooseq THEN 0 ELSE 1)
        /\ \A i \in 1 .. Len(m) : m[i].seqno = s.seqno \/ \E j \in 1 .. Len(ooseq) : m[i].seqno = ooseq[j].seqno
        /\ /\ Whole(ooseq) /\ Good(s) /\ ~(Replaces(s) /\ ReachesOver(s))
           /\ \A i \in 1 .. Len(m) : ~Misplaced(m[i])
           => Whole(m)
    BY <1>1, <1>2, <1>3, PlacedIs
  <2> HIDE DEF m
  <2>3. DOMAIN m = 1 .. Len(m) /\ Len(m) \in Nat
    BY <2>2
  <2>4. OoseqTypeOK'
    <3>1. held' \in Int /\ lost' \in Nat /\ overlapped' \in BOOLEAN
      BY <1>2, <2>1
    <3>2. QED BY <1>1, <1>2, <2>1, <2>2, <3>1 DEF OoseqTypeOK
  <2>5. (held = Len(ooseq) + lost)'
    <3> DEFINE a == IF Replaces(s) THEN 1 ELSE 0
               b == IF m = ooseq THEN 0 ELSE 1
    <3>1. /\ a \in Nat /\ b \in Nat /\ held' = held + b /\ lost' = lost + a
          /\ Len(m) + a = Len(ooseq) + b
      BY <2>1, <2>2
    <3> HIDE DEF a, b
    <3>2. held' = Len(m) + lost'
      <4> DEFINE x == Len(m)
                 y == Len(ooseq)
      <4>1. x \in Nat /\ y \in Nat /\ held \in Int /\ lost \in Nat /\ held = y + lost /\ x + a = y + b
        BY <1>1, <1>2, <2>3, <3>1
      <4> HIDE DEF x, y
      <4>2. held + b = x + (lost + a)
        BY <3>1, <4>1
      <4>3. QED BY <3>1, <4>2 DEF x
    <3>3. QED BY <2>1, <3>2
  <2>6. Rising(ooseq)'
    BY <2>1, <2>2 DEF Rising
  <2>7. ASSUME ~overlapped' PROVE StreamInv' /\ AheadInv'
    <3>1. ~overlapped /\ ~(Replaces(s) /\ ReachesOver(s)) /\ \A i \in 1 .. Len(m) : ~Misplaced(m[i])
      BY <2>1, <2>3, <2>7
    <3>2. StreamInv /\ Whole(ooseq) /\ (~eof => \A j \in 1 .. Len(ooseq) : ooseq[j].seqno > rcv_nxt)
      BY <1>1, <3>1 DEF AheadInv
    <3>3. Whole(m)
      BY <2>2, <3>1, <3>2
    <3>4. Whole(ooseq)'
      BY <2>1, <3>3 DEF Whole, Packed, Good, Segs, Stream
    <3>5. ~eof => \A i \in 1 .. Len(m) : m[i].seqno > rcv_nxt
      BY <2>2, <3>2
    <3>6. AheadInv'
      BY <1>1, <2>1, <3>4, <3>5 DEF AheadInv
    <3>7. QED BY <1>4, <3>2, <3>6
  <2>8. QED BY <2>4, <2>5, <2>6, <2>7 DEF OoseqInv
<1>6. CASE ~(room /\ held < MEMP_NUM_TCP_SEG)
  <2>1. UNCHANGED ooseqVars
    BY <1>6 DEF Waits, ooseqVars
  <2>2. QED BY <2>1, NothingIsSound
<1>7. QED BY <1>5, <1>6

LEMMA DropIsSound == ASSUME OoseqInv, DropOoseq PROVE OoseqInv'
<1>1. /\ ooseq' = <<>> /\ held' = held - Len(ooseq)
      /\ rcv_nxt' = rcv_nxt /\ delivered' = delivered /\ eof' = eof /\ lost' = lost /\ overlapped' = overlapped
  BY DEF DropOoseq
<1>2. /\ OoseqTypeOK /\ held = Len(ooseq) + lost /\ (~overlapped => StreamInv)
  BY DEF OoseqInv
<1>3. /\ rcv_nxt \in Nat /\ ooseq \in Seq(Segs) /\ delivered \in Seq(Int)
      /\ eof \in BOOLEAN /\ overlapped \in BOOLEAN /\ held \in Int /\ lost \in Nat
      /\ Len(ooseq) \in Nat
  BY <1>2 DEF OoseqTypeOK
<1>4. Len(ooseq') = 0 /\ DOMAIN ooseq' = {} /\ 1 .. Len(ooseq') = {} /\ ooseq' \in Seq(Segs)
  BY <1>1
<1>5. OoseqTypeOK'
  BY <1>1, <1>3, <1>4 DEF OoseqTypeOK
<1>6. Rising(ooseq)' /\ AheadInv'
  BY <1>4 DEF Rising, AheadInv, Whole, Packed
<1>7. (held = Len(ooseq) + lost)'
  BY <1>1, <1>2, <1>3, <1>4
<1>8. (~overlapped => StreamInv)'
  BY <1>1, <1>2 DEF StreamInv, Stream
<1>9. QED BY <1>5, <1>6, <1>7, <1>8 DEF OoseqInv

LEMMA ReceiveIsSound ==
    ASSUME OoseqInv, NEW a \in Arriving, NEW room, tcp_receive_ooseq(a, room)
    PROVE  OoseqInv'
<1> DEFINE arrived == [seqno |-> a.seqno, len |-> a.len, fin |-> a.fin, data |-> Stream(a.seqno, a.len)]
           s == TrimFront(arrived)
<1>1. Good(arrived)
  BY ArrivingIsGood
<1> HIDE DEF arrived
<1>2. rcv_nxt \in Nat
  BY DEF OoseqInv, OoseqTypeOK
<1>3. Good(s)
  BY <1>1, <1>2, TrimmedIsGood
<1>4. \/ UNCHANGED ooseqVars
      \/ s.seqno = rcv_nxt /\ Joins(s)
      \/ s.seqno > rcv_nxt /\ Waits(s, room)
  <2>1. \/ UNCHANGED ooseqVars
        \/ StartsInWindow(s) /\ s.seqno = rcv_nxt /\ Joins(s)
        \/ StartsInWindow(s) /\ s.seqno # rcv_nxt /\ Waits(s, room)
    BY DEF tcp_receive_ooseq, arrived
  <2> HIDE DEF s
  <2>2. s.seqno \in Nat
    BY <1>3, GoodIs
  <2>3. StartsInWindow(s) => rcv_nxt <= s.seqno
    BY DEF StartsInWindow
  <2>4. QED BY <1>2, <2>1, <2>2, <2>3
<1> HIDE DEF s
<1>5. CASE UNCHANGED ooseqVars
  BY <1>5, NothingIsSound
<1>6. CASE s.seqno = rcv_nxt /\ Joins(s)
  BY <1>3, <1>6, JoinsIsSound
<1>7. CASE s.seqno > rcv_nxt /\ Waits(s, room)
  BY <1>3, <1>7, WaitsIsSound
<1>8. QED BY <1>4, <1>5, <1>6, <1>7

(* Whatever the segments are that a correct sender cuts its stream into,   *)
(* and in whatever order, however often they arrive, tcp_receive hands the *)
(* stream on whole and in order, acknowledges what it has handed on, says  *)
(* that it ends when it has, keeps a queue of what is to come, and gives   *)
(* back its tcp_segs.                                                      *)
THEOREM StreamStaysWhole == OoseqSpec => []ReassemblyIsSound
<1>1. OoseqInit => OoseqInv
  BY InitIsSound
<1>2. OoseqInv /\ [OoseqNext]_ooseqVars => OoseqInv'
  <2> SUFFICES ASSUME OoseqInv, [OoseqNext]_ooseqVars PROVE OoseqInv'
    OBVIOUS
  <2>1. CASE \E a \in Arriving, room \in BOOLEAN : Arrives(a, room)
    <3>1. PICK a \in Arriving, room \in BOOLEAN : tcp_receive_ooseq(a, room)
      BY <2>1 DEF Arrives
    <3>2. QED BY <3>1, ReceiveIsSound
  <2>2. CASE DropOoseq
    BY <2>2, DropIsSound
  <2>3. CASE UNCHANGED ooseqVars
    BY <2>3, NothingIsSound
  <2>4. QED BY <2>1, <2>2, <2>3 DEF OoseqNext
<1>3. OoseqInv => ReassemblyIsSound
  BY InvIsSound
<1>4. QED BY <1>1, <1>2, <1>3, PTL DEF OoseqSpec
=============================================================================
