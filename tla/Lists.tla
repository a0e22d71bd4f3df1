------------------------------- MODULE Lists -------------------------------
(***************************************************************************)
(* The linked lists of the stack that an entry is put in front of and      *)
(* taken off again: netif_list of core/netif.c and select_cb_list of       *)
(* api/sockets.c; and what the two do, on lists on which no entry is       *)
(* twice.                                                                  *)
(***************************************************************************)
EXTENDS Naturals, Sequences, SequencesExt, SequenceTheorems, TLAPS

(* A list without one of its entries. *)
Unlinked(l, e) ==
    LET k == CHOOSE k \in DOMAIN l : l[k] = e
    IN  [i \in 1 .. Len(l) - 1 |-> IF i < k THEN l[i] ELSE l[i + 1]]

----------------------------------------------------------------------------
(* An entry that is not on the list is put before the others.     *)
LEMMA LinkAdds ==
    ASSUME NEW S, NEW l \in Seq(S), IsInjective(l), NEW n \in S, n \notin ToSet(l)
    PROVE  LET m == <<n>> \o l IN
           /\ m \in Seq(S) /\ IsInjective(m)
           /\ ToSet(m) = ToSet(l) \cup {n}
<1> DEFINE m == <<n>> \o l
<1>1. /\ m \in Seq(S) /\ Len(m) = Len(l) + 1 /\ DOMAIN m = 1 .. Len(l) + 1
      /\ m[1] = n /\ \A i \in 2 .. Len(l) + 1 : m[i] = l[i - 1]
  OBVIOUS
<1>2. DOMAIN l = 1 .. Len(l) /\ Len(l) \in Nat
  OBVIOUS
<1>3. IsInjective(m)
  <2>1. ASSUME NEW i \in 1 .. Len(l) + 1, NEW j \in 1 .. Len(l) + 1, m[i] = m[j]
        PROVE  i = j
    <3>1. \A k \in 2 .. Len(l) + 1 : m[k] # n
      BY <1>1, <1>2 DEF ToSet
    <3>2. CASE i = 1 \/ j = 1
      BY <3>1, <3>2, <2>1, <1>1, <1>2
    <3>3. CASE i # 1 /\ j # 1
      <4>1. l[i - 1] = l[j - 1] /\ i - 1 \in DOMAIN l /\ j - 1 \in DOMAIN l
        BY <3>3, <2>1, <1>1, <1>2
      <4>2. QED BY <4>1, <1>2 DEF IsInjective
    <3>4. QED BY <3>2, <3>3
  <2>2. QED BY <2>1, <1>1 DEF IsInjective
<1>4. ToSet(m) = ToSet(l) \cup {n}
  <2>1. \A i \in DOMAIN l : i + 1 \in DOMAIN m /\ m[i + 1] = l[i]
    BY <1>1, <1>2
  <2>2. 1 \in DOMAIN m
    BY <1>1, <1>2
  <2>3. \A i \in DOMAIN m : i = 1 \/ (i - 1 \in DOMAIN l /\ m[i] = l[i - 1])
    BY <1>1, <1>2
  <2> HIDE DEF m
  <2>4. ToSet(l) \cup {n} \subseteq ToSet(m)
    BY <2>1, <2>2, <1>1 DEF ToSet
  <2>5. ToSet(m) \subseteq ToSet(l) \cup {n}
    BY <2>3, <1>1 DEF ToSet
  <2>6. QED BY <2>4, <2>5
<1>5. QED BY <1>1, <1>3, <1>4

(* An entry is taken off the list, and the others stay.     *)
LEMMA UnlinkKeepsOthers ==
    ASSUME NEW S, NEW l \in Seq(S), IsInjective(l), NEW n \in ToSet(l)
    PROVE  /\ Unlinked(l, n) \in Seq(S) /\ IsInjective(Unlinked(l, n))
           /\ ToSet(Unlinked(l, n)) = ToSet(l) \ {n}
<1> DEFINE k == CHOOSE k \in DOMAIN l : l[k] = n
           u == Unlinked(l, n)
<1>1. k \in DOMAIN l /\ l[k] = n
  BY DEF ToSet
<1>2. DOMAIN l = 1 .. Len(l) /\ Len(l) \in Nat /\ \A i \in DOMAIN l : l[i] \in S
  OBVIOUS
<1>3. u = [i \in 1 .. Len(l) - 1 |-> IF i < k THEN l[i] ELSE l[i + 1]]
  BY DEF Unlinked
<1> HIDE DEF k, u
<1>4. Len(l) - 1 \in Nat
  BY <1>1, <1>2
<1>5. \A i \in 1 .. Len(l) - 1 : (IF i < k THEN l[i] ELSE l[i + 1]) \in S
  BY <1>1, <1>2
<1>6. u \in Seq(S)
  BY <1>3, <1>4, <1>5, IsASeq
<1>7. DOMAIN u = 1 .. Len(l) - 1
  BY <1>3
<1>8. IsInjective(u)
  <2>1. ASSUME NEW i \in 1 .. Len(l) - 1, NEW j \in 1 .. Len(l) - 1, u[i] = u[j]
        PROVE  i = j
    <3> DEFINE at(x) == IF x < k THEN x ELSE x + 1
    <3>1. u[i] = l[at(i)] /\ u[j] = l[at(j)]
      BY <1>3
    <3>2. at(i) \in DOMAIN l /\ at(j) \in DOMAIN l
      BY <1>1, <1>2
    <3>3. at(i) = at(j)
      BY <2>1, <3>1, <3>2 DEF IsInjective
    <3>4. QED BY <3>3, <1>1, <1>2
  <2>2. QED BY <2>1, <1>7 DEF IsInjective
<1>9. ToSet(u) = ToSet(l) \ {n}
  <2>1. ASSUME NEW i \in DOMAIN u PROVE u[i] \in ToSet(l) \ {n}
    <3>1. CASE i < k
      <4>1. i \in DOMAIN l /\ u[i] = l[i] /\ i # k
        BY <3>1, <1>1, <1>2, <1>3, <1>7
      <4>2. QED BY <4>1, <1>1 DEF ToSet, IsInjective
    <3>2. CASE ~(i < k)
      <4>1. i + 1 \in DOMAIN l /\ u[i] = l[i + 1] /\ i + 1 # k
        BY <3>2, <1>1, <1>2, <1>3, <1>7
      <4>2. QED BY <4>1, <1>1 DEF ToSet, IsInjective
    <3>3. QED BY <3>1, <3>2
  <2>2. ASSUME NEW i \in DOMAIN l, l[i] # n PROVE l[i] \in ToSet(u)
    <3>1. CASE i < k
      <4>1. i \in DOMAIN u /\ u[i] = l[i]
        BY <3>1, <1>1, <1>2, <1>3, <1>7
      <4>2. QED BY <4>1 DEF ToSet
    <3>2. CASE ~(i < k)
      <4>1. i - 1 \in DOMAIN u /\ u[i - 1] = l[i]
        BY <3>2, <2>2, <1>1, <1>2, <1>3, <1>7
      <4>2. QED BY <4>1 DEF ToSet
    <3>3. QED BY <3>1, <3>2
  <2>3. QED BY <2>1, <2>2 DEF ToSet
<1>10. QED BY <1>6, <1>8, <1>9 DEF u
=============================================================================
