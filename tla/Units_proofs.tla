----------------------------- MODULE Units_proofs -----------------------------
(***************************************************************************)
(* Proofs about Units, for any devices, units, windows and delays: the     *)
(* types, that a phone is a member of its own unit only, that the votes of *)
(* a unit are apart, and that the end of a pick takes back this pick.      *)
(***************************************************************************)
EXTENDS Units, TLAPS, FiniteSetTheorems, SequenceTheorems, WellFoundedInduction

-----------------------------------------------------------------------------
(* The inductive invariant.                                                *)

Pick == [dev : Dev, seq : Nat, t : Nat, session : Nat]

Ordered(s)  == \A i, j \in DOMAIN s : i < j => s[i].t <= s[j].t
Distinct(s) == \A i, j \in DOMAIN s : s[i].dev = s[j].dev /\ s[i].seq = s[j].seq => i = j

Good(s)     == s \in Seq(Pick) /\ Ordered(s) /\ Distinct(s)

Types ==
  /\ now \in 0..End /\ made \in 0..MaxPicks /\ moves \in 0..MaxMoves /\ deleted \subseteq Dev
  /\ phone \in [Dev -> [place : Unit, session : 0..MaxSessions, seq : 0..MaxPicks,
                        pick : [seq : Nat, unit : Unit \cup {None}]]]
  /\ \A d \in Dev : phone[d].seq <= made
  /\ station \in [Dev -> Unit \cup {None}]
  /\ members \in [Unit -> SUBSET Dev]

(* At time n the picks of a unit are in the order of their onsets, none of *)
(* a phone is there twice, and none is too old.                            *)
Dated(s, n)   == \A i \in DOMAIN s : s[i].t \in n - Assoc - Grace..n
PicksOK(P, n) == /\ P = [u \in Unit |-> P[u]]
                 /\ \A u \in Unit : Good(P[u]) /\ Dated(P[u], n)

PicksInOrder == picks \in [Unit -> Seq(Pick)] /\ PicksOK(picks, now)

Inv ==
  /\ UnitsAssumption
  /\ Types
  /\ MembersAgree
  /\ PicksInOrder
  /\ OwnEndFound

-----------------------------------------------------------------------------
(* Least and greatest elements, and numbers of elements.                   *)

LEMMA LeastIn ==
  ASSUME NEW S \in SUBSET Nat, S # {}
  PROVE  Least(S) \in S /\ \A y \in S : Least(S) <= y
<1>1. OpToRel(<, Nat) = {ss \in Nat \X Nat : ss[1] < ss[2]}
  BY Zenon DEF OpToRel
<1>2. PICK x \in S : \A y \in S : ~ (<<y, x>> \in OpToRel(<, Nat))
  BY NatLessThanWellFounded, WFMin
<1>3. \A y \in S : x <= y
  <2> TAKE y \in S
  <2>1. ~ (<<y, x>> \in {ss \in Nat \X Nat : ss[1] < ss[2]})
    BY <1>1, <1>2
  <2>2. QED  BY <2>1
<1>4. QED  BY <1>3 DEF Least

LEMMA LargestIn ==
  ASSUME NEW S \in SUBSET Nat, S # {}, NEW n \in Nat, \A y \in S : y <= n
  PROVE  Largest(S) \in S /\ \A y \in S : y <= Largest(S)
<1> DEFINE Below == {n - y : y \in S}
<1>1. \A y \in S : y \in Nat /\ n - y \in Nat
  OBVIOUS
<1>2. Below \in SUBSET Nat /\ Below # {}
  BY <1>1
<1> HIDE DEF Below
<1>3. Least(Below) \in Below /\ \A c \in Below : Least(Below) <= c
  BY <1>2, LeastIn
<1>4. PICK x \in S : Least(Below) = n - x
  BY <1>3 DEF Below
<1>5. \A y \in S : y <= x
  <2> TAKE y \in S
  <2>1. n - y \in Below
    BY DEF Below
  <2>2. n - x <= n - y
    BY <1>3, <1>4, <2>1
  <2>3. QED  BY <1>1, <2>2
<1>6. QED  BY <1>5 DEF Largest

(* A set of positions that contains every position before its last.        *)
LEMMA Prefix ==
  ASSUME NEW n \in Nat, NEW S \in SUBSET (1..n), \A i \in S : \A j \in 1..i : j \in S
  PROVE  Cardinality(S) \in 0..n /\ S = 1..Cardinality(S)
<1>1. CASE S = {}
  BY <1>1, FS_EmptySet
<1>2. CASE S # {}
  <2>1. S \in SUBSET Nat /\ \A y \in S : y <= n
    OBVIOUS
  <2> DEFINE m == Largest(S)
  <2>2. m \in S /\ \A y \in S : y <= m
    BY <1>2, <2>1, LargestIn
  <2> HIDE DEF m
  <2>3. m \in 1..n /\ S = 1..m
    <3>1. m \in 1..n
      BY <2>2
    <3>2. \A y \in S : y \in 1..m
      BY <2>1, <2>2, <3>1
    <3>3. \A j \in 1..m : j \in S
      BY <2>2
    <3>4. QED  BY <3>1, <3>2, <3>3
  <2>4. Cardinality(1..m) = m
    <3>1. Cardinality(1..m) = IF 1 > m THEN 0 ELSE m - 1 + 1
      BY <2>3, FS_Interval
    <3>2. QED  BY <2>3, <3>1
  <2>5. QED  BY <2>3, <2>4
<1>3. QED  BY <1>1, <1>2

(* The k-th of the positions in S.                                         *)
Before(S, i) == {j \in S : j <= i}
Nth(S, k) == CHOOSE i \in S : Cardinality(Before(S, i)) = k

LEMMA BeforeFinite ==
  ASSUME NEW n \in Nat, NEW S \in SUBSET (1..n)
  PROVE  /\ IsFiniteSet(S) /\ Cardinality(S) \in Nat
         /\ \A i \in S : /\ IsFiniteSet(Before(S, i)) /\ Cardinality(Before(S, i)) \in Nat
                         /\ Cardinality(Before(S, i)) <= Cardinality(S)
<1>1. IsFiniteSet(1..n)
  BY FS_Interval
<1>2. IsFiniteSet(S) /\ Cardinality(S) \in Nat
  BY <1>1, FS_Subset, FS_CardinalityType
<1>3. \A i \in S : Before(S, i) \subseteq S
  BY DEF Before
<1>4. QED  BY <1>2, <1>3, FS_Subset, FS_CardinalityType

LEMMA NthExists ==
  ASSUME NEW n \in Nat, NEW S \in SUBSET (1..n), NEW k \in 1..Cardinality(S)
  PROVE  Nth(S, k) \in S /\ Cardinality(Before(S, Nth(S, k))) = k
<1> DEFINE A == {i \in S : Cardinality(Before(S, i)) >= k}
<1>1. /\ IsFiniteSet(S) /\ Cardinality(S) \in Nat
      /\ \A i \in S : IsFiniteSet(Before(S, i)) /\ Cardinality(Before(S, i)) \in Nat
  BY BeforeFinite
<1>2. S \in SUBSET Nat /\ S # {} /\ \A y \in S : y <= n
  BY FS_EmptySet, <1>1
<1>3. A # {}
  <2>1. Largest(S) \in S /\ \A y \in S : y <= Largest(S)
    BY <1>2, LargestIn
  <2>2. Before(S, Largest(S)) = S
    BY <2>1 DEF Before
  <2>3. QED  BY <1>1, <2>1, <2>2
<1>4. A \in SUBSET Nat
  BY <1>2
<1> HIDE DEF A
<1>5. PICK i \in A : \A y \in A : i <= y
  BY <1>3, <1>4, LeastIn
<1>6. i \in S /\ i \in Nat /\ Cardinality(Before(S, i)) >= k
  BY <1>4, <1>5 DEF A
<1>7. Cardinality(Before(S, i)) = k
  <2> SUFFICES ASSUME Cardinality(Before(S, i)) > k PROVE FALSE
    BY <1>1, <1>6
  <2> DEFINE B == Before(S, i) \ {i}
  <2>1. i \in Before(S, i)
    BY <1>6 DEF Before
  <2>2. IsFiniteSet(B) /\ Cardinality(B) = Cardinality(Before(S, i)) - 1
    BY <1>1, <1>6, <2>1, FS_RemoveElement
  <2>3. Cardinality(B) >= k /\ B # {}
    <3>1. Cardinality(B) >= k
      BY <1>1, <1>6, <2>2
    <3>2. QED  BY <3>1, FS_EmptySet
  <2>4. B \in SUBSET Nat /\ \A y \in B : y <= n
    BY <1>2 DEF Before
  <2> DEFINE m == Largest(B)
  <2> HIDE DEF B
  <2>5. m \in B /\ \A y \in B : y <= m
    BY <2>3, <2>4, LargestIn
  <2> HIDE DEF m
  <2>6. m \in S /\ m < i /\ m \in Nat
    BY <1>2, <1>6, <2>5 DEF B, Before
  <2>7. Before(S, m) = B
    <3>1. \A j \in S : j \in Nat
      BY <1>2
    <3>2. \A j \in Before(S, m) : j \in B
      BY <1>6, <2>6, <3>1 DEF B, Before
    <3>3. \A j \in B : j \in Before(S, m)
      BY <2>5 DEF B, Before
    <3>4. QED  BY <3>2, <3>3
  <2>8. m \in A
    BY <2>3, <2>6, <2>7 DEF A
  <2>9. QED  BY <1>5, <1>6, <2>6, <2>8
<1>8. QED  BY <1>6, <1>7 DEF Nth

LEMMA RankIncreases ==
  ASSUME NEW n \in Nat, NEW S \in SUBSET (1..n), NEW i \in S, NEW j \in S, i < j
  PROVE  Cardinality(Before(S, i)) < Cardinality(Before(S, j))
<1>1. i \in Nat /\ j \in Nat /\ \A k \in S : k \in Nat
  OBVIOUS
<1>2. \A k \in Before(S, i) : k \in Before(S, j) \ {j}
  BY <1>1 DEF Before
<1>3. j \in Before(S, j)
  BY <1>1 DEF Before
<1>4. IsFiniteSet(Before(S, j)) /\ Cardinality(Before(S, j)) \in Nat
  BY BeforeFinite
<1>5. /\ IsFiniteSet(Before(S, j) \ {j})
      /\ Cardinality(Before(S, j) \ {j}) = Cardinality(Before(S, j)) - 1
  BY <1>3, <1>4, FS_RemoveElement
<1>6. Before(S, i) \subseteq Before(S, j) \ {j}
  BY <1>2
<1>7. Cardinality(Before(S, i)) <= Cardinality(Before(S, j) \ {j}) /\ Cardinality(Before(S, i)) \in Nat
  BY <1>5, <1>6, FS_Subset, FS_CardinalityType
<1>8. QED  BY <1>4, <1>5, <1>7

LEMMA SameRank ==
  ASSUME NEW n \in Nat, NEW S \in SUBSET (1..n), NEW i \in S, NEW j \in S,
         Cardinality(Before(S, i)) = Cardinality(Before(S, j))
  PROVE  i = j
<1>1. i \in Nat /\ j \in Nat
  OBVIOUS
<1>2. Cardinality(Before(S, i)) \in Nat /\ Cardinality(Before(S, j)) \in Nat
  BY BeforeFinite
<1>3. ~ (i < j)
  BY <1>2, RankIncreases
<1>4. ~ (j < i)
  <2> SUFFICES ASSUME j < i PROVE FALSE
    OBVIOUS
  <2>1. Cardinality(Before(S, j)) < Cardinality(Before(S, i))
    BY RankIncreases
  <2>2. QED  BY <1>2, <2>1
<1>5. QED  BY <1>1, <1>3, <1>4

LEMMA NthIncreases ==
  ASSUME NEW n \in Nat, NEW S \in SUBSET (1..n),
         NEW k \in 1..Cardinality(S), NEW l \in 1..Cardinality(S), k < l
  PROVE  Nth(S, k) < Nth(S, l)
<1> DEFINE a == Nth(S, k)
           b == Nth(S, l)
<1>1. Cardinality(S) \in Nat
  BY BeforeFinite
<1>2. a \in S /\ Cardinality(Before(S, a)) = k
  BY NthExists
<1>3. b \in S /\ Cardinality(Before(S, b)) = l
  BY NthExists
<1> HIDE DEF a, b
<1>4. a \in Nat /\ b \in Nat
  BY <1>2, <1>3
<1>5. ~ (b < a)
  <2> SUFFICES ASSUME b < a PROVE FALSE
    OBVIOUS
  <2>1. Cardinality(Before(S, b)) < Cardinality(Before(S, a))
    BY <1>2, <1>3, RankIncreases
  <2>2. QED  BY <1>1, <1>2, <1>3, <2>1
<1>6. a # b
  BY <1>1, <1>2, <1>3
<1>7. a < b
  BY <1>4, <1>5, <1>6
<1>8. QED  BY <1>7 DEF a, b

-----------------------------------------------------------------------------
(* What the operations on the picks of a unit do.                          *)

LEMMA Beginning ==
  ASSUME NEW s \in Seq(Pick), NEW m \in 0..Len(s)
  PROVE  LET t == SubSeq(s, 1, m)
         IN  t \in Seq(Pick) /\ Len(t) = m /\ \A k \in 1..m : t[k] = s[k]
<1>1. Len(s) \in Nat /\ 1 \in 1..Len(s) + 1 /\ m \in 1 - 1..Len(s)
  BY LenProperties
<1>2. QED  BY <1>1, SubSeqProperties

LEMMA Suffix ==
  ASSUME NEW s \in Seq(Pick), NEW m \in 0..Len(s)
  PROVE  LET t == SubSeq(s, m + 1, Len(s))
         IN  /\ t \in Seq(Pick) /\ Len(t) = Len(s) - m
             /\ \A k \in 1..Len(t) : t[k] = s[k + m]
<1>1. Len(s) \in Nat
  BY LenProperties
<1>2. m + 1 \in 1..Len(s) + 1 /\ Len(s) \in (m + 1) - 1..Len(s)
  BY <1>1
<1>3. QED  BY <1>1, <1>2, SubSeqProperties

(* Leaving elements out keeps the picks in order and distinct.             *)
LEMMA Subsequence ==
  ASSUME NEW s, Good(s), NEW t \in Seq(Pick), NEW f \in [DOMAIN t -> DOMAIN s],
         \A k \in DOMAIN t : t[k] = s[f[k]],
         \A k, l \in DOMAIN t : k < l => f[k] < f[l]
  PROVE  Good(t)
<1>1. DOMAIN t = 1..Len(t) /\ DOMAIN s = 1..Len(s) /\ Len(t) \in Nat /\ Len(s) \in Nat
  BY LenProperties DEF Good
<1>2. \A k \in DOMAIN t : f[k] \in DOMAIN s
  OBVIOUS
<1>3. Ordered(t)
  BY <1>2, Zenon DEF Good, Ordered
<1>4. Distinct(t)
  <2> SUFFICES ASSUME NEW k \in DOMAIN t, NEW l \in DOMAIN t,
                      t[k].dev = t[l].dev, t[k].seq = t[l].seq
               PROVE  k = l
    BY DEF Distinct
  <2>1. f[k] = f[l]
    BY <1>2 DEF Good, Distinct
  <2>2. ~ (k < l) /\ ~ (l < k)
    BY <1>1, <1>2, <2>1
  <2>3. QED  BY <1>1, <2>2
<1>5. QED  BY <1>3, <1>4 DEF Good

LEMMA WithoutGood ==
  ASSUME NEW s, Good(s), NEW d
  PROVE  Good(Without(s, d)) /\ Range(Without(s, d)) = {p \in Range(s) : p.dev # d}
<1> DEFINE S == {i \in DOMAIN s : s[i].dev # d}
           f == [k \in 1..Cardinality(S) |-> Nth(S, k)]
           t == Without(s, d)
<1>1. DOMAIN s = 1..Len(s) /\ Len(s) \in Nat
  BY LenProperties DEF Good
<1>2. S \in SUBSET (1..Len(s))
  BY <1>1
<1>3. Cardinality(S) \in Nat
  BY <1>1, <1>2, BeforeFinite
<1>4. t = [k \in 1..Cardinality(S) |-> s[Nth(S, k)]]
  BY DEF Without, Nth, Before
<1> HIDE DEF S, t
<1>5. \A k \in 1..Cardinality(S) : Nth(S, k) \in S
  BY <1>1, <1>2, NthExists
<1>6. S \subseteq DOMAIN s
  BY <1>1, <1>2
<1>7. \A k \in 1..Cardinality(S) : s[Nth(S, k)] \in Pick
  BY <1>1, <1>5, <1>6, ElementOfSeq DEF Good
<1>8. t \in Seq(Pick) /\ DOMAIN t = 1..Cardinality(S)
  BY <1>3, <1>4, <1>7, IsASeq
<1>9. f \in [DOMAIN t -> DOMAIN s]
  BY <1>5, <1>6, <1>8
<1>10. \A k \in DOMAIN t : t[k] = s[f[k]]
  BY <1>4, <1>8
<1>11. \A k, l \in DOMAIN t : k < l => f[k] < f[l]
  BY <1>1, <1>2, <1>8, NthIncreases
<1>12. Good(t)
  <2> HIDE DEF f
  <2>1. QED  BY <1>8, <1>9, <1>10, <1>11, Subsequence
<1>13. Range(t) = {p \in Range(s) : p.dev # d}
  <2>1. \A k \in DOMAIN t : t[k] \in Range(s) /\ t[k].dev # d
    BY <1>4, <1>5, <1>6, <1>8 DEF Range, S
  <2>2. \A i \in S : \E k \in DOMAIN t : t[k] = s[i]
    <3> TAKE i \in S
    <3> DEFINE k == Cardinality(Before(S, i))
    <3>1. k \in 1..Cardinality(S)
      <4>1. i \in Before(S, i)
        BY <1>1, <1>2 DEF Before
      <4>2. IsFiniteSet(Before(S, i)) /\ k \in Nat /\ k <= Cardinality(S)
        BY <1>1, <1>2, BeforeFinite
      <4>3. k # 0
        BY <4>1, <4>2, FS_EmptySet
      <4>4. QED  BY <1>3, <4>2, <4>3
    <3>2. Nth(S, k) \in S /\ Cardinality(Before(S, Nth(S, k))) = k
      BY <1>1, <1>2, <3>1, NthExists
    <3>3. Nth(S, k) = i
      BY <1>1, <1>2, <3>2, SameRank
    <3>4. QED  BY <1>4, <1>8, <3>1, <3>3
  <2>3. \A p \in Range(s) : p.dev # d => p \in Range(t)
    BY <2>2 DEF Range, S
  <2>4. \A p \in Range(t) : p \in Range(s) /\ p.dev # d
    BY <2>1 DEF Range
  <2>5. QED  BY <2>3, <2>4
<1>14. QED  BY <1>12, <1>13 DEF t

LEMMA RemoveAtGood ==
  ASSUME NEW s, Good(s), NEW i \in DOMAIN s
  PROVE  /\ Good(RemoveAt(s, i))
         /\ \A k \in DOMAIN RemoveAt(s, i) :
              \E j \in DOMAIN s \ {i} : RemoveAt(s, i)[k] = s[j]
<1> DEFINE t == RemoveAt(s, i)
           f == [k \in DOMAIN t |-> IF k < i THEN k ELSE k + 1]
<1>1. DOMAIN s = 1..Len(s) /\ Len(s) \in Nat /\ s \in Seq(Pick)
  BY LenProperties DEF Good
<1>2. /\ t \in Seq(Pick) /\ Len(t) = Len(s) - 1
      /\ \A k \in 1..Len(t) : t[k] = IF k < i THEN s[k] ELSE s[k + 1]
  <2> DEFINE a == SubSeq(s, 1, i - 1)
             b == SubSeq(s, i + 1, Len(s))
  <2>1. i \in 1..Len(s) /\ i - 1 \in 0..Len(s) /\ i \in 0..Len(s)
    BY <1>1
  <2>2. a \in Seq(Pick) /\ Len(a) = i - 1 /\ \A k \in 1..i - 1 : a[k] = s[k]
    BY <1>1, <2>1, Beginning
  <2>3. b \in Seq(Pick) /\ Len(b) = Len(s) - i /\ \A k \in 1..Len(b) : b[k] = s[k + i]
    BY <1>1, <2>1, Suffix
  <2> HIDE DEF a, b
  <2>4. /\ a \o b \in Seq(Pick) /\ Len(a \o b) = Len(s) - 1
        /\ \A k \in 1..Len(s) - 1 :
             (a \o b)[k] = IF k <= Len(a) THEN a[k] ELSE b[k - Len(a)]
    <3>1. Len(a) + Len(b) = Len(s) - 1 /\ Len(a) \in Nat /\ Len(b) \in Nat
      BY <1>1, <2>1, <2>2, <2>3
    <3>2. /\ a \o b \in Seq(Pick) /\ Len(a \o b) = Len(a) + Len(b)
          /\ \A k \in 1..Len(a) + Len(b) :
               (a \o b)[k] = IF k <= Len(a) THEN a[k] ELSE b[k - Len(a)]
      BY <2>2, <2>3, ConcatProperties
    <3>3. QED  BY <3>1, <3>2
  <2>5. \A k \in 1..Len(s) - 1 : (a \o b)[k] = IF k < i THEN s[k] ELSE s[k + 1]
    <3> TAKE k \in 1..Len(s) - 1
    <3>1. CASE k < i
      BY <1>1, <2>1, <2>2, <2>4, <3>1
    <3>2. CASE ~ (k < i)
      <4>1. k - Len(a) = k - i + 1 /\ k - i + 1 \in 1..Len(b) /\ k - i + 1 + i = k + 1
        BY <1>1, <2>1, <2>2, <2>3, <3>2
      <4>2. (a \o b)[k] = b[k - i + 1]
        BY <1>1, <2>1, <2>2, <2>4, <3>2, <4>1
      <4>3. b[k - i + 1] = s[k + 1]
        BY <2>3, <4>1
      <4>4. QED  BY <3>2, <4>2, <4>3
    <3>3. QED  BY <3>1, <3>2
  <2>6. t = a \o b
    BY DEF RemoveAt, a, b
  <2>7. QED  BY <2>4, <2>5, <2>6
<1> HIDE DEF t
<1>3. DOMAIN t = 1..Len(t) /\ Len(t) \in Nat
  BY <1>2, LenProperties
<1>4. \A k \in DOMAIN t : f[k] \in DOMAIN s \ {i} /\ t[k] = s[f[k]]
  BY <1>1, <1>2, <1>3
<1>5. f \in [DOMAIN t -> DOMAIN s]
  BY <1>4
<1>6. \A k, l \in DOMAIN t : k < l => f[k] < f[l]
  BY <1>1, <1>3
<1> HIDE DEF f
<1>7. Good(t)
  BY <1>2, <1>4, <1>5, <1>6, Subsequence
<1>8. QED  BY <1>4, <1>7 DEF t

LEMMA SuffixGood ==
  ASSUME NEW s, Good(s), NEW m \in 0..Len(s)
  PROVE  LET t == SubSeq(s, m + 1, Len(s))
         IN  /\ Good(t)
             /\ \A k \in DOMAIN t : k + m \in DOMAIN s /\ t[k] = s[k + m]
<1> DEFINE t == SubSeq(s, m + 1, Len(s))
           f == [k \in DOMAIN t |-> k + m]
<1>1. DOMAIN s = 1..Len(s) /\ Len(s) \in Nat /\ s \in Seq(Pick)
  BY LenProperties DEF Good
<1>2. t \in Seq(Pick) /\ Len(t) = Len(s) - m /\ \A k \in 1..Len(t) : t[k] = s[k + m]
  BY <1>1, Suffix
<1> HIDE DEF t
<1>3. DOMAIN t = 1..Len(t) /\ Len(t) \in Nat
  BY <1>2, LenProperties
<1>4. \A k \in DOMAIN t : f[k] \in DOMAIN s /\ f[k] = k + m /\ t[k] = s[f[k]]
  BY <1>1, <1>2, <1>3
<1>5. f \in [DOMAIN t -> DOMAIN s]
  BY <1>4
<1>6. \A k, l \in DOMAIN t : k < l => f[k] < f[l]
  BY <1>1, <1>3
<1> HIDE DEF f
<1>7. Good(t)
  BY <1>2, <1>4, <1>5, <1>6, Subsequence
<1>8. QED  BY <1>4, <1>7 DEF t

LEMMA InsertedElements ==
  ASSUME NEW s \in Seq(Pick), NEW c \in 0..Len(s), NEW p \in Pick
  PROVE  LET t == InsertAt(s, c + 1, p)
         IN  /\ t \in Seq(Pick) /\ Len(t) = Len(s) + 1
             /\ \A k \in 1..Len(t) : t[k] = IF k <= c THEN s[k]
                                            ELSE IF k = c + 1 THEN p ELSE s[k - 1]
<1> DEFINE a == SubSeq(s, 1, c)
           b == SubSeq(s, c + 1, Len(s))
           e == a \o <<p>>
           t == e \o b
<1>1. Len(s) \in Nat /\ c \in Nat /\ c <= Len(s)
  BY LenProperties
<1>2. a \in Seq(Pick) /\ Len(a) = c /\ \A k \in 1..c : a[k] = s[k]
  BY Beginning
<1>3. b \in Seq(Pick) /\ Len(b) = Len(s) - c /\ \A k \in 1..Len(b) : b[k] = s[k + c]
  BY Suffix
<1>4. InsertAt(s, c + 1, p) = t
  <2>1. (c + 1) - 1 = c
    BY <1>1
  <2>2. QED  BY <2>1 DEF InsertAt
<1> HIDE DEF a, b
<1>5. <<p>> \in Seq(Pick) /\ Len(<<p>>) = 1 /\ <<p>>[1] = p
  OBVIOUS
<1>6. /\ e \in Seq(Pick) /\ Len(e) = c + 1
      /\ \A k \in 1..c + 1 : e[k] = IF k <= c THEN a[k] ELSE <<p>>[k - c]
  BY <1>2, <1>5, ConcatProperties
<1>7. \A k \in 1..c + 1 : e[k] = IF k <= c THEN s[k] ELSE p
  <2> TAKE k \in 1..c + 1
  <2>1. CASE k <= c
    BY <1>1, <1>2, <1>6, <2>1
  <2>2. CASE ~ (k <= c)
    <3>1. k - c = 1
      BY <1>1, <2>2
    <3>2. QED  BY <1>5, <1>6, <2>2, <3>1
  <2>3. QED  BY <2>1, <2>2
<1> HIDE DEF e
<1>8. /\ t \in Seq(Pick) /\ Len(t) = Len(e) + Len(b)
      /\ \A k \in 1..Len(e) + Len(b) : t[k] = IF k <= Len(e) THEN e[k] ELSE b[k - Len(e)]
  BY <1>3, <1>6, ConcatProperties
<1>9. Len(e) + Len(b) = Len(s) + 1
  BY <1>1, <1>3, <1>6
<1>10. \A k \in 1..Len(s) + 1 : t[k] = IF k <= c THEN s[k] ELSE IF k = c + 1 THEN p ELSE s[k - 1]
  <2> TAKE k \in 1..Len(s) + 1
  <2>1. t[k] = IF k <= c + 1 THEN e[k] ELSE b[k - (c + 1)]
    BY <1>6, <1>8, <1>9
  <2> HIDE DEF t
  <2>2. CASE k <= c + 1
    BY <1>1, <1>7, <2>1, <2>2
  <2>3. CASE ~ (k <= c + 1)
    <3>1. k - (c + 1) \in 1..Len(b) /\ (k - (c + 1)) + c = k - 1
      BY <1>1, <1>3, <2>3
    <3>2. b[k - (c + 1)] = s[k - 1]
      BY <1>3, <3>1
    <3>3. ~ (k <= c) /\ k # c + 1
      BY <1>1, <2>3
    <3>4. QED  BY <2>1, <2>3, <3>2, <3>3
  <2>4. QED  BY <2>2, <2>3
<1>11. QED  BY <1>4, <1>8, <1>9, <1>10

LEMMA InsertedGood ==
  ASSUME NEW s, Good(s), NEW p \in Pick, \A i \in DOMAIN s : ~SameAs(p, s[i])
  PROVE  /\ Good(Inserted(s, p))
         /\ \A k \in DOMAIN Inserted(s, p) :
              Inserted(s, p)[k] = p \/ \E i \in DOMAIN s : Inserted(s, p)[k] = s[i]
<1> DEFINE S == {j \in DOMAIN s : s[j].t <= p.t}
           c == Cardinality(S)
           t == Inserted(s, p)
<1>1. DOMAIN s = 1..Len(s) /\ Len(s) \in Nat /\ s \in Seq(Pick)
  BY LenProperties DEF Good
<1>2. \A i \in DOMAIN s : s[i] \in Pick /\ s[i].t \in Nat
  <2>1. \A i \in DOMAIN s : s[i] \in Pick
    BY <1>1, ElementOfSeq
  <2>2. QED  BY <2>1 DEF Pick
<1>3. p.t \in Nat
  BY DEF Pick
<1>4. c \in 0..Len(s) /\ S = 1..c
  <2>1. S \in SUBSET (1..Len(s))
    BY <1>1
  <2>2. \A i \in S : \A j \in 1..i : j \in S
    <3> TAKE i \in S
    <3> TAKE j \in 1..i
    <3>1. i \in DOMAIN s /\ j \in DOMAIN s /\ j <= i /\ i \in Nat /\ j \in Nat
      BY <1>1
    <3>2. j < i \/ j = i
      BY <3>1
    <3>3. s[j].t <= s[i].t
      BY <1>2, <3>1, <3>2 DEF Good, Ordered
    <3>4. s[i].t <= p.t
      OBVIOUS
    <3>5. s[j].t <= p.t
      BY <1>2, <1>3, <3>1, <3>3, <3>4
    <3>6. QED  BY <3>1, <3>5
  <2> HIDE DEF S
  <2>3. QED  BY <1>1, <2>1, <2>2, Prefix
<1>5. t = InsertAt(s, c + 1, p)
  BY DEF Inserted
<1>6. \A j \in DOMAIN s : s[j].t <= p.t <=> j <= c
  <2> TAKE j \in DOMAIN s
  <2>1. j \in S <=> j <= c
    BY <1>1, <1>4
  <2>2. QED  BY <2>1
<1> HIDE DEF S, c, t
<1>7. /\ t \in Seq(Pick) /\ Len(t) = Len(s) + 1
      /\ \A k \in 1..Len(t) : t[k] = IF k <= c THEN s[k]
                                     ELSE IF k = c + 1 THEN p ELSE s[k - 1]
  BY <1>1, <1>4, <1>5, InsertedElements
<1>8. DOMAIN t = 1..Len(s) + 1 /\ c \in Nat /\ c <= Len(s)
  BY <1>1, <1>4, <1>7, LenProperties
<1>9. \A k \in DOMAIN t : \/ k <= c /\ k \in DOMAIN s /\ t[k] = s[k]
                          \/ k = c + 1 /\ t[k] = p
                          \/ k > c + 1 /\ k - 1 \in DOMAIN s /\ t[k] = s[k - 1]
  BY <1>1, <1>7, <1>8
<1>10. Ordered(t)
  <2> SUFFICES ASSUME NEW i \in DOMAIN t, NEW j \in DOMAIN t, i < j
               PROVE  t[i].t <= t[j].t
    BY DEF Ordered
  <2>1. CASE j <= c
    BY <1>1, <1>8, <1>9, <2>1 DEF Good, Ordered
  <2>2. CASE j = c + 1
    <3>1. i <= c /\ i \in DOMAIN s /\ t[i] = s[i] /\ t[j] = p
      BY <1>8, <1>9, <2>2
    <3>2. QED  BY <1>6, <3>1
  <2>3. CASE j > c + 1 /\ i <= c
    <3>1. i \in DOMAIN s /\ j - 1 \in DOMAIN s /\ i < j - 1 /\ t[i] = s[i] /\ t[j] = s[j - 1]
      BY <1>8, <1>9, <2>3
    <3>2. QED  BY <3>1 DEF Good, Ordered
  <2>4. CASE j > c + 1 /\ i = c + 1
    <3>1. t[i] = p /\ j - 1 \in DOMAIN s /\ t[j] = s[j - 1] /\ ~ (j - 1 <= c)
      BY <1>8, <1>9, <2>4
    <3>2. ~ (s[j - 1].t <= p.t)
      BY <1>6, <3>1
    <3>3. QED  BY <1>2, <1>3, <3>1, <3>2
  <2>5. CASE j > c + 1 /\ i > c + 1
    <3>1. i - 1 \in DOMAIN s /\ j - 1 \in DOMAIN s /\ i - 1 < j - 1 /\ t[i] = s[i - 1] /\ t[j] = s[j - 1]
      BY <1>8, <1>9, <2>5
    <3>2. QED  BY <3>1 DEF Good, Ordered
  <2>6. QED  BY <1>8, <2>1, <2>2, <2>3, <2>4, <2>5
<1>11. Distinct(t)
  <2> SUFFICES ASSUME NEW i \in DOMAIN t, NEW j \in DOMAIN t,
                      t[i].dev = t[j].dev, t[i].seq = t[j].seq, i < j
               PROVE  FALSE
    <3>1. \A i, j \in DOMAIN t : i < j \/ j < i \/ i = j
      BY <1>8
    <3>2. QED  BY <3>1, Zenon DEF Distinct
  <2>1. \A k \in DOMAIN s : ~ (s[k].dev = p.dev /\ s[k].seq = p.seq)
    BY DEF SameAs
  <2>2. i = c + 1 \/ j = c + 1 => FALSE
    BY <1>8, <1>9, <2>1
  <2>3. CASE j <= c
    <3>1. i \in DOMAIN s /\ j \in DOMAIN s /\ t[i] = s[i] /\ t[j] = s[j] /\ i # j
      BY <1>8, <1>9, <2>3
    <3>2. QED  BY <3>1 DEF Good, Distinct
  <2>4. CASE j > c + 1 /\ i <= c
    <3>1. i \in DOMAIN s /\ j - 1 \in DOMAIN s /\ i # j - 1 /\ t[i] = s[i] /\ t[j] = s[j - 1]
      BY <1>8, <1>9, <2>4
    <3>2. QED  BY <3>1 DEF Good, Distinct
  <2>5. CASE j > c + 1 /\ i > c + 1
    <3>1. i - 1 \in DOMAIN s /\ j - 1 \in DOMAIN s /\ i - 1 # j - 1 /\ t[i] = s[i - 1] /\ t[j] = s[j - 1]
      BY <1>8, <1>9, <2>5
    <3>2. QED  BY <3>1 DEF Good, Distinct
  <2>6. QED  BY <1>8, <2>2, <2>3, <2>4, <2>5
<1>12. QED  BY <1>7, <1>9, <1>10, <1>11 DEF Good, t

-----------------------------------------------------------------------------
(* The engine's operations keep the picks so.                              *)

LEMMA InitPicks ==
  ASSUME UnitsAssumption, Init
  PROVE  PicksInOrder
<1>1. <<>> \in Seq(Pick) /\ DOMAIN <<>> = {}
  OBVIOUS
<1>2. Good(<<>>) /\ Dated(<<>>, now)
  BY <1>1 DEF Good, Ordered, Distinct, Dated
<1>3. picks = [u \in Unit |-> <<>>]
  BY DEF Init
<1>4. QED  BY <1>1, <1>2, <1>3 DEF PicksInOrder, PicksOK

LEMMA AddPickKeeps ==
  ASSUME Inv, NEW p \in Pick, p.t <= now, AddPick(p)
  PROVE  PicksOK(picks', now)
<1> DEFINE u == station[p.dev]
<1>1. /\ PicksOK(picks, now) /\ picks \in [Unit -> Seq(Pick)] /\ p.t \in Nat
      /\ now \in Nat /\ Assoc \in Nat /\ Grace \in Nat
  <2>1. PicksOK(picks, now) /\ picks \in [Unit -> Seq(Pick)]
    BY DEF Inv, PicksInOrder
  <2>2. Assoc \in Nat /\ Grace \in Nat /\ End \in Nat
    BY DEF Inv, UnitsAssumption
  <2>3. now \in Nat
    BY <2>2 DEF Inv, Types
  <2>4. QED  BY <2>1, <2>2, <2>3 DEF Pick
<1>2. CASE ~ Takes(p)
  BY <1>1, <1>2 DEF AddPick
<1>3. CASE Takes(p)
  <2>1. u \in Unit
    BY <1>3 DEF Takes, Inv, Types, Pick
  <2>2. picks' = [picks EXCEPT ![u] = Inserted(@, p)]
    BY <1>3 DEF AddPick
  <2> DEFINE s == picks[u]
  <2>3. Good(s) /\ Dated(s, now)
    BY <1>1, <2>1 DEF PicksOK
  <2>4. \A i \in DOMAIN s : ~SameAs(p, s[i])
    BY <1>3 DEF Takes, Range
  <2> HIDE DEF s
  <2>5. /\ Good(Inserted(s, p))
        /\ \A k \in DOMAIN Inserted(s, p) :
             Inserted(s, p)[k] = p \/ \E i \in DOMAIN s : Inserted(s, p)[k] = s[i]
    BY <2>3, <2>4, InsertedGood
  <2>6. p.t \in now - Assoc - Grace..now
    BY <1>1, <1>3 DEF Takes
  <2>7. Dated(Inserted(s, p), now)
    BY <2>3, <2>5, <2>6 DEF Dated
  <2>8. \A v \in Unit : picks'[v] = IF v = u THEN Inserted(s, p) ELSE picks[v]
    BY <1>1, <2>2 DEF s
  <2>9. picks' = [w \in Unit |-> picks'[w]]
    BY <1>1, <2>2
  <2>10. QED  BY <1>1, <2>5, <2>7, <2>8, <2>9 DEF PicksOK
<1>4. QED  BY <1>2, <1>3

LEMMA EndPickKeeps ==
  ASSUME Inv, NEW d \in Dev, NEW seq, NEW accepted \in BOOLEAN, EndPick(d, seq, accepted)
  PROVE  /\ PicksOK(picks', now)
         /\ ~accepted /\ station[d] # None =>
              \A q \in Range(picks'[station[d]]) : ~ (q.dev = d /\ q.seq = seq)
<1> DEFINE u  == station[d]
           at == {i \in DOMAIN picks[u] : picks[u][i].dev = d /\ picks[u][i].seq = seq}
<1>1. PicksOK(picks, now) /\ picks \in [Unit -> Seq(Pick)]
  BY DEF Inv, PicksInOrder
<1>2. CASE u = None
  <2>1. picks' = picks
    BY <1>2 DEF EndPick
  <2>2. QED  BY <1>1, <1>2, <2>1
<1>3. CASE u # None
  <2>1. u \in Unit
    BY <1>3 DEF Inv, Types
  <2>2. picks' = IF at = {} \/ accepted THEN picks
                 ELSE [picks EXCEPT ![u] = RemoveAt(@, Least(at))]
    BY <1>3 DEF EndPick
  <2>3. CASE accepted
    BY <1>1, <2>2, <2>3
  <2>4. CASE at = {}
    <3>1. picks' = picks
      BY <2>2, <2>4
    <3>2. QED  BY <1>1, <2>4, <3>1 DEF Range
  <2>5. CASE ~accepted /\ at # {}
    <3> DEFINE s == picks[u]
               i == Least(at)
               t == RemoveAt(s, i)
    <3>1. Good(s) /\ Dated(s, now) /\ DOMAIN s = 1..Len(s)
      BY <1>1, <2>1, LenProperties DEF PicksOK
    <3>2. at \in SUBSET Nat
      BY <3>1
    <3>3. i \in at
      <4> HIDE DEF at
      <4>1. QED  BY <2>5, <3>2, LeastIn
    <3>4. i \in DOMAIN s /\ s[i].dev = d /\ s[i].seq = seq
      BY <3>3
    <3>5. picks' = [picks EXCEPT ![u] = t]
      BY <2>2, <2>5
    <3> HIDE DEF s, i, t, at
    <3>6. Good(t) /\ \A k \in DOMAIN t : \E j \in DOMAIN s \ {i} : t[k] = s[j]
      BY <3>1, <3>4, RemoveAtGood DEF t
    <3>7. Dated(t, now)
      BY <3>1, <3>6 DEF Dated
    <3>8. \A j \in DOMAIN s \ {i} : ~ (s[j].dev = d /\ s[j].seq = seq)
      BY <3>1, <3>4 DEF Good, Distinct
    <3>9. \A q \in Range(t) : ~ (q.dev = d /\ q.seq = seq)
      BY <3>6, <3>8 DEF Range
    <3>10. \A v \in Unit : picks'[v] = IF v = u THEN t ELSE picks[v]
      BY <1>1, <3>5
    <3>11. picks' = [w \in Unit |-> picks'[w]]
      BY <1>1, <3>5
    <3>12. PicksOK(picks', now)
      BY <1>1, <3>6, <3>7, <3>10, <3>11 DEF PicksOK
    <3>13. picks'[u] = t
      BY <2>1, <3>10
    <3>14. QED  BY <3>9, <3>12, <3>13
  <2>6. QED  BY <2>3, <2>4, <2>5
<1>4. QED  BY <1>2, <1>3

LEMMA RemoveStationKeeps ==
  ASSUME Inv, NEW d \in Dev, RemoveStation(d)
  PROVE  PicksOK(picks', now)
<1> DEFINE u == station[d]
<1>1. PicksOK(picks, now) /\ picks \in [Unit -> Seq(Pick)]
  BY DEF Inv, PicksInOrder
<1>2. CASE u = None
  BY <1>1, <1>2 DEF RemoveStation
<1>3. CASE u # None
  <2>1. u \in Unit
    BY <1>3 DEF Inv, Types
  <2>2. picks' = [picks EXCEPT ![u] = Without(@, d)]
    BY <1>3 DEF RemoveStation
  <2> DEFINE s == picks[u]
             t == Without(s, d)
  <2>3. Good(s) /\ Dated(s, now)
    BY <1>1, <2>1 DEF PicksOK
  <2> HIDE DEF s
  <2>4. Good(t) /\ Range(t) = {p \in Range(s) : p.dev # d}
    BY <2>3, WithoutGood
  <2> HIDE DEF t
  <2>5. \A k \in DOMAIN t : \E i \in DOMAIN s : t[k] = s[i]
    BY <2>4 DEF Range
  <2>6. Dated(t, now)
    BY <2>3, <2>5 DEF Dated
  <2>7. /\ picks' = [w \in Unit |-> picks'[w]]
        /\ \A v \in Unit : picks'[v] = IF v = u THEN t ELSE picks[v]
    BY <1>1, <2>2 DEF s, t
  <2>8. QED  BY <1>1, <2>4, <2>6, <2>7 DEF PicksOK
<1>4. QED  BY <1>2, <1>3

LEMMA TickKeeps ==
  ASSUME Inv, Tick
  PROVE  PicksOK(picks', now')
<1>1. PicksOK(picks, now) /\ picks \in [Unit -> Seq(Pick)]
  BY DEF Inv, PicksInOrder
<1>2. now \in Nat /\ now' = now + 1 /\ Assoc \in Nat /\ Grace \in Nat
  BY DEF Inv, Types, UnitsAssumption, Tick
<1> DEFINE old(u) == {i \in DOMAIN picks[u] :
                        \A j \in 1..i : picks[u][j].t < now' - Assoc - Grace}
<1>3. picks' = [u \in Unit |-> SubSeq(picks[u], Cardinality(old(u)) + 1, Len(picks[u]))]
  BY DEF Tick
<1>4. ASSUME NEW u \in Unit PROVE Good(picks'[u]) /\ Dated(picks'[u], now')
  <2> DEFINE s == picks[u]
             S == old(u)
             c == Cardinality(S)
             t == SubSeq(s, c + 1, Len(s))
  <2>1. Good(s) /\ Dated(s, now)
    BY <1>1 DEF PicksOK
  <2>2. DOMAIN s = 1..Len(s) /\ Len(s) \in Nat /\ s \in Seq(Pick)
    BY <2>1, LenProperties DEF Good
  <2>3. picks'[u] = t
    BY <1>3
  <2>4. \A i \in DOMAIN s : i \in S <=> \A j \in 1..i : s[j].t < now' - Assoc - Grace
    OBVIOUS
  <2>5. S \in SUBSET (1..Len(s))
    BY <2>2
  <2> HIDE DEF old, s, S
  <2>6. \A i \in S : \A j \in 1..i : j \in S
    <3> TAKE i \in S
    <3> TAKE j \in 1..i
    <3>1. i \in 1..Len(s) /\ j \in DOMAIN s /\ 1..j \subseteq 1..i
      BY <2>2, <2>5
    <3>2. QED  BY <2>2, <2>4, <3>1
  <2>7. c \in 0..Len(s) /\ S = 1..c
    BY <2>2, <2>5, <2>6, Prefix
  <2> HIDE DEF c
  <2>8. Good(t) /\ \A k \in DOMAIN t : k + c \in DOMAIN s /\ t[k] = s[k + c]
    BY <2>1, <2>7, SuffixGood
  <2>9. DOMAIN t = 1..Len(t) /\ Len(t) \in Nat
    BY <2>8, LenProperties DEF Good
  <2> HIDE DEF t
  <2>10. Dated(t, now')
    <3> SUFFICES ASSUME NEW k \in DOMAIN t PROVE t[k].t \in now' - Assoc - Grace..now'
      BY DEF Dated
    <3>1. k + c \in DOMAIN s /\ t[k] = s[k + c] /\ k + c \in Nat /\ k + c \notin S
      BY <2>2, <2>7, <2>8, <2>9
    <3>2. PICK j \in 1..k + c : ~ (s[j].t < now' - Assoc - Grace)
      BY <2>4, <3>1
    <3>3. j \in DOMAIN s /\ (j < k + c \/ j = k + c)
      BY <2>2, <3>1
    <3>4. s[j].t \in Int /\ s[k + c].t \in Int /\ s[k + c].t <= now
      <4>1. s[j].t \in now - Assoc - Grace..now /\ s[k + c].t \in now - Assoc - Grace..now
        BY <2>1, <3>1, <3>3 DEF Dated
      <4>2. QED  BY <1>2, <4>1
    <3>5. s[j].t <= s[k + c].t
      BY <2>1, <3>1, <3>3, <3>4 DEF Good, Ordered
    <3>6. QED  BY <1>2, <3>1, <3>2, <3>4, <3>5
  <2>11. QED  BY <2>3, <2>8, <2>10
<1>5. QED  BY <1>3, <1>4 DEF PicksOK

-----------------------------------------------------------------------------
(* Each action keeps the invariant.                                        *)

Phone == [place : Unit, session : 0..MaxSessions, seq : 0..MaxPicks,
          pick : [seq : Nat, unit : Unit \cup {None}]]

LEMMA Constants ==
  ASSUME UnitsAssumption
  PROVE  /\ None \notin Unit /\ PerSecond \in Nat \ {0} /\ UnitVote >= PerSecond
         /\ UnitVote \in Nat /\ Assoc \in Nat /\ Grace \in Nat /\ MaxLate \in Nat
         /\ MaxPicks \in Nat /\ MaxSessions \in Nat /\ MaxMoves \in Nat /\ End \in Nat
  BY DEF UnitsAssumption

LEMMA NewPicks ==
  ASSUME Inv, PicksOK(picks', now), now' = now
  PROVE  PicksInOrder'
<1>1. \A u \in Unit : picks'[u] \in Seq(Pick)
  BY DEF PicksOK, Good
<1>2. picks' = [w \in Unit |-> picks'[w]]
  BY DEF PicksOK
<1>3. picks' \in [Unit -> Seq(Pick)]
  BY <1>1, <1>2 DEF PicksOK
<1>4. QED  BY <1>3 DEF PicksInOrder

(* What is told of anything but a pick's own end matters to nothing.       *)
LEMMA NotTold ==
  ASSUME did' = Nothing
  PROVE  OwnEndFound'
  BY DEF Nothing, OwnEndFound

LEMMA InitInv ==
  ASSUME UnitsAssumption, Init
  PROVE  Inv
<1>1. None \notin Unit /\ MaxPicks \in Nat /\ MaxSessions \in Nat /\ MaxMoves \in Nat /\ End \in Nat
  BY Constants
<1>2. PICK f \in [Dev -> Unit] :
        phone = [d \in Dev |-> [place |-> f[d], session |-> 0, seq |-> 0, pick |-> NoPick]]
  BY DEF Init
<1>3. NoPick \in [seq : Nat, unit : Unit \cup {None}]
  BY DEF NoPick
<1>4. \A d \in Dev : phone[d] \in Phone /\ phone[d].seq = 0
  BY <1>1, <1>2, <1>3 DEF Phone
<1>5. phone \in [Dev -> Phone]
  BY <1>2, <1>4
<1>6. Types
  BY <1>1, <1>4, <1>5 DEF Types, Phone, Init
<1>7. MembersAgree
  BY <1>1 DEF MembersAgree, Init
<1>8. OwnEndFound
  BY DEF OwnEndFound, Init, Nothing
<1>9. QED  BY <1>6, <1>7, <1>8, InitPicks DEF Inv

LEMMA TickInv ==
  ASSUME Inv, Tick
  PROVE  Inv'
<1>1. End \in Nat /\ now \in 0..End
  BY Constants DEF Inv, Types
<1>2. Types'
  BY <1>1 DEF Inv, Types, Tick
<1>3. MembersAgree'
  BY DEF Inv, MembersAgree, Tick
<1>4. PicksInOrder'
  <2>1. PicksOK(picks', now')
    BY TickKeeps
  <2>2. \A u \in Unit : picks'[u] \in Seq(Pick)
    BY <2>1 DEF PicksOK, Good
  <2>3. picks' \in [Unit -> Seq(Pick)]
    BY <2>1, <2>2 DEF PicksOK
  <2>4. QED  BY <2>1, <2>3 DEF PicksInOrder
<1>5. OwnEndFound'
  BY NotTold DEF Tick
<1>6. UnitsAssumption'
  BY DEF Inv, UnitsAssumption
<1>7. QED  BY <1>2, <1>3, <1>4, <1>5, <1>6 DEF Inv

LEMMA StatusInv ==
  ASSUME Inv, NEW d \in Dev, Status(d)
  PROVE  Inv'
<1> DEFINE u == phone[d].place
<1>1. u \in Unit
  BY DEF Inv, Types
<1>2. /\ station' = [station EXCEPT ![d] = u]
      /\ members' = [v \in Unit |-> IF v = u THEN members[v] \cup {d}
                                    ELSE IF v = station[d] THEN members[v] \ {d} ELSE members[v]]
      /\ UNCHANGED <<now, phone, picks, deleted, made, moves>> /\ did' = Nothing
  BY DEF Status, UpdateStation
<1> HIDE DEF u
<1>3. station \in [Dev -> Unit \cup {None}] /\ members \in [Unit -> SUBSET Dev]
  BY DEF Inv, Types
<1>4. station' \in [Dev -> Unit \cup {None}] /\ members' \in [Unit -> SUBSET Dev]
  BY <1>1, <1>2, <1>3
<1>5. Types'
  BY <1>2, <1>4 DEF Inv, Types
<1>6. MembersAgree'
  BY <1>1, <1>2, <1>3 DEF Inv, MembersAgree
<1>7. PicksInOrder'
  BY <1>2 DEF Inv, PicksInOrder
<1>8. UnitsAssumption'
  BY DEF Inv, UnitsAssumption
<1>9. QED  BY <1>2, <1>5, <1>6, <1>7, <1>8, NotTold DEF Inv

LEMMA AnnounceInv ==
  ASSUME Inv, NEW d \in Dev, Announce(d)
  PROVE  Inv'
<1>1. MaxPicks \in Nat /\ End \in Nat /\ MaxSessions \in Nat
  BY Constants DEF Inv
<1>2. /\ phone \in [Dev -> Phone] /\ station \in [Dev -> Unit \cup {None}]
      /\ made \in 0..MaxPicks /\ now \in 0..End /\ \A e \in Dev : phone[e].seq <= made
  BY DEF Inv, Types, Phone
<1>3. phone[d].seq \in Nat /\ phone[d].seq <= made /\ phone[d].session \in Nat
  BY <1>1, <1>2 DEF Phone
<1>4. made < MaxPicks /\ made' = made + 1 /\ UNCHANGED <<now, deleted, moves>> /\ did' = Nothing
  BY DEF Announce
<1>5. PICK t \in 0..now, taken \in Unit \cup {None} :
        LET p == [dev |-> d, seq |-> phone[d].seq + 1, t |-> t, session |-> phone[d].session]
        IN  /\ AddPick(p) \/ Lost
            /\ phone' = [phone EXCEPT ![d].seq = @ + 1, ![d].pick = [seq |-> p.seq, unit |-> taken]]
  BY <1>2, Zenon DEF Announce
<1> DEFINE p == [dev |-> d, seq |-> phone[d].seq + 1, t |-> t, session |-> phone[d].session]
<1>6. /\ AddPick(p) \/ Lost
      /\ phone' = [phone EXCEPT ![d].seq = @ + 1, ![d].pick = [seq |-> p.seq, unit |-> taken]]
  BY <1>5
<1>7. p \in Pick /\ p.t = t /\ t \in Nat /\ t <= now
  BY <1>1, <1>2, <1>3 DEF Pick
<1>8. station' = station /\ members' = members
  BY <1>6 DEF AddPick, Lost
<1>9. PicksOK(picks', now)
  <2> HIDE DEF p
  <2>1. CASE AddPick(p)
    BY <1>7, <2>1, AddPickKeeps
  <2>2. CASE Lost
    BY <2>2 DEF Lost, Inv, PicksInOrder
  <2>3. QED  BY <1>6, <2>1, <2>2
<1>10. phone' \in [Dev -> Phone] /\ \A e \in Dev : phone'[e].seq <= made'
  <2> DEFINE q == [phone[d] EXCEPT !.seq = @ + 1, !.pick = [seq |-> p.seq, unit |-> taken]]
  <2>1. [seq |-> p.seq, unit |-> taken] \in [seq : Nat, unit : Unit \cup {None}]
    BY <1>3
  <2>2. phone[d] \in Phone /\ phone[d].seq + 1 \in 0..MaxPicks
    BY <1>1, <1>2, <1>3, <1>4
  <2>3. q \in Phone /\ q.seq = phone[d].seq + 1
    BY <2>1, <2>2 DEF Phone
  <2>4. phone' = [phone EXCEPT ![d] = q]
    BY <1>2, <1>6
  <2> HIDE DEF q
  <2>5. phone' \in [Dev -> Phone]
    BY <1>2, <2>3, <2>4
  <2>6. \A e \in Dev : phone'[e].seq <= made'
    <3> TAKE e \in Dev
    <3>1. CASE e = d
      BY <1>1, <1>2, <1>3, <1>4, <2>3, <2>4, <3>1
    <3>2. CASE e # d
      <4>1. phone'[e] = phone[e] /\ phone[e].seq \in 0..MaxPicks /\ phone[e].seq <= made
        BY <1>2, <2>4, <3>2 DEF Phone
      <4>2. QED  BY <1>1, <1>2, <1>4, <4>1
    <3>3. QED  BY <3>1, <3>2
  <2>7. QED  BY <2>5, <2>6
<1>11. made' \in 0..MaxPicks
  BY <1>1, <1>2, <1>4
<1>12. Types'
  BY <1>4, <1>8, <1>10, <1>11 DEF Inv, Types, Phone
<1>13. MembersAgree'
  BY <1>8 DEF Inv, MembersAgree
<1>14. UnitsAssumption'
  BY DEF Inv, UnitsAssumption
<1>15. QED  BY <1>4, <1>9, <1>12, <1>13, <1>14, NotTold, NewPicks DEF Inv

(* A phone whose pick is over.                                             *)
LEMMA NoPickTypes ==
  ASSUME Inv, NEW d \in Dev, phone' = [phone EXCEPT ![d].pick = NoPick]
  PROVE  phone' \in [Dev -> Phone] /\ \A e \in Dev : phone'[e].seq = phone[e].seq
<1>1. phone \in [Dev -> Phone]
  BY DEF Inv, Types, Phone
<1>2. NoPick \in [seq : Nat, unit : Unit \cup {None}]
  BY DEF NoPick
<1> DEFINE q == [phone[d] EXCEPT !.pick = NoPick]
<1>3. q \in Phone /\ q.seq = phone[d].seq
  BY <1>1, <1>2 DEF Phone
<1>4. phone' = [phone EXCEPT ![d] = q]
  BY <1>1
<1> HIDE DEF q
<1>5. QED  BY <1>1, <1>3, <1>4

LEMMA FinishInv ==
  ASSUME Inv, NEW d \in Dev, Finish(d)
  PROVE  Inv'
<1>1. PICK accepted \in BOOLEAN :
        LET o == phone[d].pick
        IN  /\ phone' = [phone EXCEPT ![d].pick = NoPick]
            /\ \/ /\ EndPick(d, o.seq, accepted)
                  /\ did' = IF accepted THEN Nothing
                            ELSE [kind |-> "withdraw", dev |-> d, pick |-> o,
                                  session |-> phone[d].session, unit |-> station[d]]
               \/ Lost /\ did' = Nothing
            /\ UNCHANGED <<now, deleted, moves, made>>
  BY DEF Finish
<1> DEFINE o == phone[d].pick
<1>2. station' = station /\ members' = members /\ UNCHANGED <<now, deleted, moves, made>>
  BY <1>1 DEF EndPick, Lost
<1>3. phone' \in [Dev -> Phone] /\ \A e \in Dev : phone'[e].seq = phone[e].seq
  BY <1>1, NoPickTypes
<1>4. Types'
  BY <1>2, <1>3 DEF Inv, Types, Phone
<1>5. MembersAgree'
  BY <1>2 DEF Inv, MembersAgree
<1>6. UnitsAssumption'
  BY DEF Inv, UnitsAssumption
<1>7. CASE EndPick(d, o.seq, accepted)
           /\ did' = IF accepted THEN Nothing
                     ELSE [kind |-> "withdraw", dev |-> d, pick |-> o,
                           session |-> phone[d].session, unit |-> station[d]]
  <2>1. /\ PicksOK(picks', now)
        /\ ~accepted /\ station[d] # None =>
             \A q \in Range(picks'[station[d]]) : ~ (q.dev = d /\ q.seq = o.seq)
    BY <1>7, EndPickKeeps
  <2>2. OwnEndFound'
    <3>1. CASE accepted
      BY <1>7, <3>1, NotTold
    <3>2. CASE ~accepted
      <4>1. did'.dev = d /\ did'.pick = o /\ did'.unit = station[d]
        BY <1>7, <3>2
      <4>2. QED  BY <2>1, <3>2, <4>1 DEF OwnEndFound
    <3>3. QED  BY <3>1, <3>2
  <2>3. QED  BY <1>2, <1>4, <1>5, <1>6, <2>1, <2>2, NewPicks DEF Inv
<1>8. CASE Lost /\ did' = Nothing
  <2>1. PicksOK(picks', now)
    BY <1>8 DEF Lost, Inv, PicksInOrder
  <2>2. QED  BY <1>2, <1>4, <1>5, <1>6, <1>8, <2>1, NewPicks, NotTold DEF Inv
<1>9. QED  BY <1>1, <1>7, <1>8

LEMMA HandledInv ==
  ASSUME Inv, NEW d \in Dev, Handled(d)
  PROVE  Inv'
<1>1. MaxPicks \in Nat
  BY Constants DEF Inv
<1>2. /\ phone \in [Dev -> Phone] /\ made \in 0..MaxPicks
      /\ \A e \in Dev : phone[e].seq <= made /\ phone[e].seq \in 0..MaxPicks
  BY DEF Inv, Types, Phone
<1>3. /\ made < MaxPicks /\ made' = made + 1 /\ UNCHANGED <<now, deleted, moves>>
      /\ phone' = [phone EXCEPT ![d].seq = @ + 1]
  BY DEF Handled
<1>4. station' = station /\ members' = members
  BY DEF Handled, EndPick, Lost
<1>5. PicksOK(picks', now)
  <2>1. CASE EndPick(d, phone[d].seq + 1, FALSE)
    BY <2>1, EndPickKeeps
  <2>2. CASE Lost
    BY <2>2 DEF Lost, Inv, PicksInOrder
  <2>3. QED  BY <2>1, <2>2 DEF Handled
<1>6. OwnEndFound'
  <2>1. CASE did' = Nothing
    BY <2>1, NotTold
  <2>2. CASE did'.pick.unit = None
    BY <2>2 DEF OwnEndFound
  <2>3. did' = Nothing \/ did'.pick.unit = None
    <3> DEFINE told == [kind |-> "withdraw", dev |-> d,
                        pick |-> [seq |-> phone[d].seq + 1, unit |-> None],
                        session |-> phone[d].session, unit |-> station[d]]
    <3>1. told.pick.unit = None
      OBVIOUS
    <3> HIDE DEF told
    <3>2. did' = told \/ did' = Nothing
      BY Zenon DEF Handled, told
    <3>3. QED  BY <3>1, <3>2
  <2>4. QED  BY <2>1, <2>2, <2>3
<1>7. phone' \in [Dev -> Phone] /\ \A e \in Dev : phone'[e].seq <= made'
  <2> DEFINE q == [phone[d] EXCEPT !.seq = @ + 1]
  <2>1. phone[d] \in Phone /\ phone[d].seq + 1 \in 0..MaxPicks
    BY <1>1, <1>2, <1>3
  <2>2. q \in Phone /\ q.seq = phone[d].seq + 1
    BY <2>1 DEF Phone
  <2>3. phone' = [phone EXCEPT ![d] = q]
    BY <1>2, <1>3
  <2> HIDE DEF q
  <2>4. phone' \in [Dev -> Phone]
    BY <1>2, <2>2, <2>3
  <2>5. \A e \in Dev : phone'[e].seq = IF e = d THEN phone[d].seq + 1 ELSE phone[e].seq
    BY <1>2, <2>2, <2>3
  <2>6. QED  BY <1>1, <1>2, <1>3, <2>4, <2>5
<1>8. made' \in 0..MaxPicks
  BY <1>1, <1>2, <1>3
<1>9. Types'
  BY <1>3, <1>4, <1>7, <1>8 DEF Inv, Types, Phone
<1>10. MembersAgree'
  BY <1>4 DEF Inv, MembersAgree
<1>11. UnitsAssumption'
  BY DEF Inv, UnitsAssumption
<1>12. QED  BY <1>3, <1>5, <1>6, <1>9, <1>10, <1>11, NewPicks DEF Inv

LEMMA MoveInv ==
  ASSUME Inv, NEW d \in Dev, Move(d)
  PROVE  Inv'
<1>1. MaxMoves \in Nat /\ moves \in 0..MaxMoves
  BY Constants DEF Inv, Types
<1>2. phone \in [Dev -> Phone]
  BY DEF Inv, Types, Phone
<1>3. PICK u \in Unit : phone' = [phone EXCEPT ![d].place = u]
  BY DEF Move
<1>4. /\ moves < MaxMoves /\ moves' = moves + 1 /\ did' = Nothing
      /\ UNCHANGED <<now, station, members, picks, deleted, made>>
  BY DEF Move
<1>5. phone' \in [Dev -> Phone] /\ \A e \in Dev : phone'[e].seq = phone[e].seq
  <2> DEFINE q == [phone[d] EXCEPT !.place = u]
  <2>1. q \in Phone /\ q.seq = phone[d].seq
    BY <1>2 DEF Phone
  <2>2. phone' = [phone EXCEPT ![d] = q]
    BY <1>2, <1>3
  <2> HIDE DEF q
  <2>3. QED  BY <1>2, <2>1, <2>2
<1>6. Types'
  BY <1>1, <1>4, <1>5 DEF Inv, Types, Phone
<1>7. MembersAgree' /\ PicksInOrder' /\ UnitsAssumption'
  BY <1>4 DEF Inv, MembersAgree, PicksInOrder, UnitsAssumption
<1>8. QED  BY <1>4, <1>6, <1>7, NotTold DEF Inv

LEMMA ConnectInv ==
  ASSUME Inv, NEW d \in Dev, Connect(d)
  PROVE  Inv'
<1>1. MaxSessions \in Nat /\ MaxPicks \in Nat
  BY Constants DEF Inv
<1>2. /\ phone \in [Dev -> Phone] /\ made \in 0..MaxPicks
      /\ \A e \in Dev : phone[e].seq <= made
  BY DEF Inv, Types, Phone
<1>3. /\ phone[d].session < MaxSessions /\ did' = Nothing
      /\ phone' = [phone EXCEPT ![d].session = @ + 1, ![d].seq = 0, ![d].pick = NoPick]
      /\ UNCHANGED <<now, station, members, picks, deleted, moves, made>>
  BY DEF Connect
<1>4. phone' \in [Dev -> Phone] /\ \A e \in Dev : phone'[e].seq <= made
  <2> DEFINE q == [phone[d] EXCEPT !.session = @ + 1, !.seq = 0, !.pick = NoPick]
  <2>1. phone[d] \in Phone /\ phone[d].session + 1 \in 0..MaxSessions /\ 0 \in 0..MaxPicks
    BY <1>1, <1>2, <1>3 DEF Phone
  <2>2. NoPick \in [seq : Nat, unit : Unit \cup {None}]
    BY DEF NoPick
  <2>3. q \in Phone /\ q.seq = 0
    BY <2>1, <2>2 DEF Phone
  <2>4. phone' = [phone EXCEPT ![d] = q]
    BY <1>2, <1>3
  <2> HIDE DEF q
  <2>5. QED  BY <1>1, <1>2, <2>3, <2>4
<1>5. Types'
  BY <1>3, <1>4 DEF Inv, Types, Phone
<1>6. MembersAgree' /\ PicksInOrder' /\ UnitsAssumption'
  BY <1>3 DEF Inv, MembersAgree, PicksInOrder, UnitsAssumption
<1>7. QED  BY <1>3, <1>5, <1>6, NotTold DEF Inv

LEMMA DeleteInv ==
  ASSUME Inv, NEW d \in Dev, Delete(d)
  PROVE  Inv'
<1>1. /\ deleted' = deleted \cup {d} /\ UNCHANGED <<now, phone, made>>
      /\ moves' \in 0..MaxMoves
  <2>1. MaxMoves \in Nat /\ moves \in 0..MaxMoves
    BY Constants DEF Inv, Types
  <2>2. QED  BY <2>1 DEF Delete
<1>2. OwnEndFound'
  <2>1. did'.kind # "withdraw"
    BY DEF Delete, Nothing
  <2>2. QED  BY <2>1 DEF OwnEndFound
<1>3. UnitsAssumption'
  BY DEF Inv, UnitsAssumption
<1>4. station \in [Dev -> Unit \cup {None}] /\ members \in [Unit -> SUBSET Dev] /\ None \notin Unit
  BY Constants DEF Inv, Types
<1>5. CASE RemoveStation(d)
  <2>1. PicksOK(picks', now)
    BY <1>5, RemoveStationKeeps
  <2>2. \/ UNCHANGED <<station, members>>
        \/ /\ station[d] # None
           /\ station' = [station EXCEPT ![d] = None]
           /\ members' = [members EXCEPT ![station[d]] = @ \ {d}]
    BY <1>5 DEF RemoveStation
  <2>3. station' \in [Dev -> Unit \cup {None}] /\ members' \in [Unit -> SUBSET Dev]
    BY <1>4, <2>2
  <2>4. Types'
    BY <1>1, <2>3 DEF Inv, Types
  <2>5. MembersAgree'
    BY <1>4, <2>2 DEF Inv, MembersAgree
  <2>6. QED  BY <1>1, <1>2, <1>3, <2>1, <2>4, <2>5, NewPicks DEF Inv
<1>6. CASE Lost
  <2>1. Types'
    BY <1>1, <1>6 DEF Inv, Types, Lost
  <2>2. MembersAgree' /\ PicksInOrder'
    BY <1>1, <1>6 DEF Inv, MembersAgree, PicksInOrder, Lost
  <2>3. QED  BY <1>2, <1>3, <2>1, <2>2 DEF Inv
<1>7. QED  BY <1>5, <1>6 DEF Delete

LEMMA NextInv ==
  ASSUME Inv, [Next]_vars
  PROVE  Inv'
<1>1. CASE Next
  BY <1>1, TickInv, StatusInv, AnnounceInv, FinishInv, HandledInv, MoveInv, ConnectInv, DeleteInv
     DEF Next
<1>2. CASE UNCHANGED vars
  BY <1>2 DEF vars, Inv, Types, MembersAgree, PicksInOrder, OwnEndFound, UnitsAssumption
<1>3. QED  BY <1>1, <1>2

-----------------------------------------------------------------------------
(* The theorems.                                                           *)

LEMMA InvTypes ==
  ASSUME Inv
  PROVE  TypeOK
<1>1. MaxPicks \in Nat /\ made \in 0..MaxPicks
  BY Constants DEF Inv, Types
<1>2. \A d \in Dev : phone[d].seq \in 0..made
  BY <1>1 DEF Inv, Types
<1>3. \A d \in Dev : phone[d].place \in Unit /\ phone[d].session \in 0..MaxSessions
  BY DEF Inv, Types
<1>4. \A u \in Unit : members[u] \subseteq Dev
  BY DEF Inv, Types
<1>5. \A p \in Picks : p.dev \in Dev /\ p.t \in now - Assoc - Grace..now
  <2> TAKE p \in Picks
  <2>1. PICK u \in Unit : p \in Range(picks[u])
    BY DEF Picks
  <2>2. PICK i \in DOMAIN picks[u] : p = picks[u][i]
    BY <2>1 DEF Range
  <2>3. picks[u] \in Seq(Pick) /\ Dated(picks[u], now)
    BY DEF Inv, PicksInOrder, PicksOK
  <2>4. DOMAIN picks[u] = 1..Len(picks[u])
    BY <2>3, LenProperties
  <2>5. p \in Pick
    BY <2>2, <2>3, <2>4, ElementOfSeq
  <2>6. QED  BY <2>2, <2>3, <2>5 DEF Dated, Pick
<1>6. QED  BY <1>2, <1>3, <1>4, <1>5 DEF TypeOK, Inv, Types

(* The inductive invariant holds in every state.                           *)
THEOREM InvHolds == UnitsAssumption /\ Spec => []Inv
<1>1. UnitsAssumption /\ Init => Inv
  BY InitInv
<1>2. Inv /\ [Next]_vars => Inv'
  BY NextInv
<1>3. QED  BY <1>1, <1>2, PTL DEF Spec

(* Every variable has its type, and the picks kept are neither from the    *)
(* future nor older than Tick leaves them (Tick, AddPick).                 *)
THEOREM TypeCorrect == UnitsAssumption /\ Spec => []TypeOK
<1>1. Inv => TypeOK
  BY InvTypes
<1>2. QED  BY <1>1, InvHolds, PTL

(* Whatever is lost between a shard and the engine, a phone is a member of *)
(* the unit of its station only (UpdateStation, RemoveStation).            *)
THEOREM MembersCorrect == UnitsAssumption /\ Spec => []MembersAgree
<1>1. Inv => MembersAgree
  BY DEF Inv
<1>2. QED  BY <1>1, InvHolds, PTL

(* A pick that its own end takes back is not among the picks any more      *)
(* (AddPick, EndPick).                                                     *)
THEOREM OwnEndCorrect == UnitsAssumption /\ Spec => []OwnEndFound
<1>1. Inv => OwnEndFound
  BY DEF Inv
<1>2. QED  BY <1>1, InvHolds, PTL

-----------------------------------------------------------------------------
(* The votes of a unit.                                                    *)

LEMMA Rounding ==
  ASSUME NEW a \in Nat, NEW b \in Nat, NEW P \in Nat \ {0}, b - a > P
  PROVE  a \div P # b \div P
  OBVIOUS

LEMMA Halves ==
  ASSUME NEW n \in Nat \ {0}
  PROVE  (n + 1) \div 2 \in 1..n /\ n \div 2 + 1 \in 1..n
  OBVIOUS

(* The median is not outside the values.                                   *)
LEMMA MedianBetween ==
  ASSUME NEW D, IsFiniteSet(D), D # {}, NEW f, DOMAIN f = D,
         NEW lo \in Nat, NEW hi \in Nat, \A d \in D : f[d] \in lo..hi
  PROVE  Median2(f) \in 2 * lo..2 * hi
<1> DEFINE n     == Cardinality(D)
           S(k)  == {x \in D : Cardinality({y \in D : f[y] <= f[x]}) >= k}
           at(k) == Least({f[d] : d \in S(k)})
<1>1. n \in Nat \ {0}
  BY FS_CardinalityType, FS_EmptySet
<1>2. PICK x \in D : \A y \in D : f[y] <= f[x]
  <2> DEFINE V == {f[d] : d \in D}
  <2>1. V \in SUBSET Nat /\ V # {} /\ \A v \in V : v <= hi
    OBVIOUS
  <2> HIDE DEF V
  <2>2. Largest(V) \in V /\ \A v \in V : v <= Largest(V)
    BY <2>1, LargestIn
  <2>3. PICK x \in D : Largest(V) = f[x]
    BY <2>2 DEF V
  <2>4. \A y \in D : f[y] \in V
    BY DEF V
  <2>5. QED  BY <2>2, <2>3, <2>4
<1>3. {y \in D : f[y] <= f[x]} = D
  BY <1>2
<1>4. ASSUME NEW k \in 1..n PROVE at(k) \in lo..hi
  <2> DEFINE V == {f[d] : d \in S(k)}
  <2>1. x \in S(k)
    BY <1>1, <1>3
  <2>2. V # {}
    BY <2>1
  <2>3. \A v \in V : v \in lo..hi
    OBVIOUS
  <2> HIDE DEF V
  <2>4. V \in SUBSET Nat
    BY <2>3
  <2>5. Least(V) \in V
    BY <2>2, <2>4, LeastIn
  <2>6. QED  BY <2>3, <2>5 DEF V
<1>5. Median2(f) = at((n + 1) \div 2) + at(n \div 2 + 1)
  BY DEF Median2
<1> HIDE DEF at, n
<1>6. at((n + 1) \div 2) \in lo..hi /\ at(n \div 2 + 1) \in lo..hi
  BY <1>1, <1>4, Halves
<1>7. QED  BY <1>5, <1>6

LEMMA ClusterOf ==
  ASSUME Inv, NEW u \in Unit, NEW i \in Starts(u)
  PROVE  /\ Cluster(u, i) \subseteq DOMAIN picks[u] /\ i \in Cluster(u, i)
         /\ IsFiniteSet(Cluster(u, i))
         /\ \A k \in Cluster(u, i) : i <= k
         /\ \A j \in Starts(u) : i < j => \A k \in Cluster(u, i) : k < j
<1> DEFINE n == Len(picks[u])
           E == {j \in i..n : \A k \in i + 1..j : k \notin Starts(u)}
           m == Largest(E)
<1>1. DOMAIN picks[u] = 1..n /\ n \in Nat
  BY LenProperties DEF Inv, PicksInOrder, PicksOK, Good
<1>2. Starts(u) \subseteq 1..n
  BY <1>1 DEF Starts
<1>3. i \in 1..n
  BY <1>2
<1>4. E \in SUBSET Nat /\ i \in E /\ \A j \in E : j <= n
  BY <1>1, <1>3
<1> HIDE DEF E
<1>5. m \in E
  BY <1>1, <1>4, LargestIn
<1>6. Cluster(u, i) = i..m
  BY DEF Cluster, E
<1>7. m \in i..n /\ \A k \in i + 1..m : k \notin Starts(u)
  BY <1>5 DEF E
<1> HIDE DEF m, n
<1>8. i..m \subseteq 1..n /\ i \in i..m /\ \A k \in i..m : i <= k
  BY <1>1, <1>3, <1>7
<1>9. IsFiniteSet(i..m)
  BY <1>1, <1>3, <1>7, FS_Interval
<1>10. \A j \in Starts(u) : i < j => \A k \in i..m : k < j
  BY <1>1, <1>2, <1>3, <1>7
<1>11. QED  BY <1>1, <1>6, <1>8, <1>9, <1>10

LEMMA Onsets ==
  ASSUME Inv, NEW u \in Unit, NEW k \in DOMAIN picks[u]
  PROVE  picks[u][k].t \in Nat /\ picks[u][k].dev \in Dev
<1>1. picks[u] \in Seq(Pick)
  BY DEF Inv, PicksInOrder
<1>2. k \in 1..Len(picks[u])
  BY <1>1, LenProperties
<1>3. picks[u][k] \in Pick
  BY <1>1, <1>2, ElementOfSeq
<1>4. QED  BY <1>3 DEF Pick

(* The first onsets in a cluster are onsets of its picks.                  *)
LEMMA FirstIn ==
  ASSUME Inv, NEW u \in Unit, NEW i \in Starts(u)
  PROVE  /\ DOMAIN First(u, i) = Devices(u, i) /\ IsFiniteSet(Devices(u, i)) /\ Devices(u, i) # {}
         /\ \A d \in Devices(u, i) : \E k \in Cluster(u, i) : First(u, i)[d] = picks[u][k].t
<1> DEFINE C == Cluster(u, i)
           D == Devices(u, i)
<1>1. C \subseteq DOMAIN picks[u] /\ i \in C /\ IsFiniteSet(C)
  BY ClusterOf
<1>2. \A k \in DOMAIN picks[u] : picks[u][k].t \in Nat
  BY Onsets
<1>3. D = {picks[u][k].dev : k \in C}
  BY DEF Devices
<1> HIDE DEF C, D
<1>4. D # {}
  BY <1>1, <1>3
<1>5. IsFiniteSet(D)
  <2>1. D \subseteq Dev
    BY <1>1, <1>3, Onsets
  <2>2. IsFiniteSet(Dev)
    BY DEF Inv, UnitsAssumption
  <2>3. QED  BY <2>1, <2>2, FS_Subset
<1>6. First(u, i) = [d \in D |-> Least({picks[u][k].t : k \in {j \in C : picks[u][j].dev = d}})]
  BY DEF First, C, D
<1>7. ASSUME NEW d \in D
      PROVE  \E k \in C : First(u, i)[d] = picks[u][k].t
  <2> DEFINE V == {picks[u][k].t : k \in {j \in C : picks[u][j].dev = d}}
  <2>1. V \in SUBSET Nat /\ V # {}
    BY <1>1, <1>2, <1>3
  <2> HIDE DEF V
  <2>2. Least(V) \in V
    BY <2>1, LeastIn
  <2>3. First(u, i)[d] = Least(V)
    BY <1>6 DEF V
  <2>4. QED  BY <2>2, <2>3 DEF V
<1>8. DOMAIN First(u, i) = D
  BY <1>6
<1>9. QED  BY <1>4, <1>5, <1>7, <1>8 DEF C, D

LEMMA InvApart ==
  ASSUME Inv
  PROVE  VotesApart
<1> SUFFICES ASSUME NEW u \in Unit, NEW i \in DOMAIN Votes(u), NEW j \in DOMAIN Votes(u), i < j
             PROVE  /\ Votes(u)[j].t2 - Votes(u)[i].t2 > 2 * UnitVote
                    /\ Votes(u)[i].key # Votes(u)[j].key
  BY DEF VotesApart
<1> DEFINE t(k) == picks[u][k].t
<1>1. i \in Starts(u) /\ j \in Starts(u)
  BY DEF Votes
<1>2. DOMAIN picks[u] = 1..Len(picks[u]) /\ Len(picks[u]) \in Nat
  BY LenProperties DEF Inv, PicksInOrder, PicksOK, Good
<1>3. \A k \in DOMAIN picks[u] : t(k) \in Nat
  BY Onsets
<1>4. \A k, l \in DOMAIN picks[u] : k <= l => t(k) <= t(l)
  <2> SUFFICES ASSUME NEW k \in DOMAIN picks[u], NEW l \in DOMAIN picks[u], k <= l
               PROVE  t(k) <= t(l)
    OBVIOUS
  <2>1. k < l \/ k = l
    BY <1>2
  <2>2. QED  BY <1>3, <2>1 DEF Inv, PicksInOrder, PicksOK, Good, Ordered
<1>5. UnitVote \in Nat /\ PerSecond \in Nat \ {0} /\ UnitVote >= PerSecond
  BY Constants DEF Inv
<1>6. i \in DOMAIN picks[u] /\ j \in DOMAIN picks[u] /\ j - 1 \in DOMAIN picks[u] /\ i <= j - 1
  BY <1>1, <1>2 DEF Starts
<1>7. t(j) - t(j - 1) > UnitVote
  BY <1>1, <1>2, <1>6 DEF Starts
<1>8. \A k \in Cluster(u, i) : k \in DOMAIN picks[u] /\ i <= k /\ k <= j - 1
  <2>1. \A k \in Cluster(u, i) : k \in DOMAIN picks[u] /\ i <= k /\ k < j
    BY <1>1, ClusterOf
  <2>2. QED  BY <1>2, <1>6, <2>1
<1>9. \A k \in Cluster(u, j) : k \in DOMAIN picks[u] /\ j <= k
  BY <1>1, ClusterOf
<1>10. Median2(First(u, i)) \in 2 * t(i)..2 * t(j - 1)
  <2>1. /\ DOMAIN First(u, i) = Devices(u, i) /\ IsFiniteSet(Devices(u, i)) /\ Devices(u, i) # {}
        /\ \A d \in Devices(u, i) : \E k \in Cluster(u, i) : First(u, i)[d] = t(k)
    BY <1>1, FirstIn
  <2>2. \A k \in Cluster(u, i) : t(k) \in t(i)..t(j - 1)
    BY <1>3, <1>4, <1>6, <1>8
  <2>3. \A d \in Devices(u, i) : First(u, i)[d] \in t(i)..t(j - 1)
    BY <2>1, <2>2
  <2>4. t(i) \in Nat /\ t(j - 1) \in Nat
    BY <1>3, <1>6
  <2> HIDE DEF t
  <2>5. QED  BY <2>1, <2>3, <2>4, MedianBetween
<1>11. PICK hi \in Nat : Median2(First(u, j)) \in 2 * t(j)..2 * hi
  <2> DEFINE last == t(Len(picks[u]))
  <2>1. /\ DOMAIN First(u, j) = Devices(u, j) /\ IsFiniteSet(Devices(u, j)) /\ Devices(u, j) # {}
        /\ \A d \in Devices(u, j) : \E k \in Cluster(u, j) : First(u, j)[d] = t(k)
    BY <1>1, FirstIn
  <2>2. \A k \in Cluster(u, j) : t(k) \in t(j)..last
    <3> TAKE k \in Cluster(u, j)
    <3>1. k \in DOMAIN picks[u] /\ j <= k /\ k <= Len(picks[u]) /\ Len(picks[u]) \in DOMAIN picks[u]
      BY <1>2, <1>9
    <3>2. t(j) <= t(k) /\ t(k) <= last /\ t(k) \in Nat /\ t(j) \in Nat /\ last \in Nat
      BY <1>3, <1>4, <1>6, <3>1
    <3> HIDE DEF t, last
    <3>3. QED  BY <3>2
  <2>3. \A d \in Devices(u, j) : First(u, j)[d] \in t(j)..last
    BY <2>1, <2>2
  <2>4. t(j) \in Nat /\ last \in Nat
    BY <1>2, <1>3, <1>6
  <2> HIDE DEF t, last
  <2>5. Median2(First(u, j)) \in 2 * t(j)..2 * last
    BY <2>1, <2>3, <2>4, MedianBetween
  <2>6. QED  BY <2>4, <2>5
<1>12. /\ Votes(u)[i].key = t(i) \div PerSecond /\ Votes(u)[i].t2 = Median2(First(u, i))
       /\ Votes(u)[j].key = t(j) \div PerSecond /\ Votes(u)[j].t2 = Median2(First(u, j))
  BY <1>1 DEF Votes
<1>13. t(i) \in Nat /\ t(j) \in Nat /\ t(j - 1) \in Nat /\ t(i) <= t(j - 1)
  BY <1>3, <1>4, <1>6
<1> HIDE DEF t
<1>14. Median2(First(u, j)) - Median2(First(u, i)) > 2 * UnitVote
  BY <1>5, <1>7, <1>10, <1>11, <1>13
<1>15. t(j) - t(i) > PerSecond
  BY <1>5, <1>7, <1>13
<1>16. t(i) \div PerSecond # t(j) \div PerSecond
  BY <1>5, <1>13, <1>15, Rounding
<1>17. QED  BY <1>12, <1>14, <1>16

(* The votes of a unit are more than UnitVoteSec apart and have keys of    *)
(* their own, whatever picks come, go and are forgotten (AddPick, EndPick, *)
(* Tick, unitVotes): Events starts from that.                              *)
THEOREM VotesCorrect == UnitsAssumption /\ Spec => []VotesApart
<1>1. Inv => VotesApart
  BY InvApart
<1>2. QED  BY <1>1, InvHolds, PTL

===============================================================================
