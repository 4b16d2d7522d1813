--------------------------- MODULE PageOrderProofs ---------------------------
(***************************************************************************)
(* What the operators of PageOrder give for any set of numbers, any list   *)
(* and any number of packages.                                             *)
(***************************************************************************)
EXTENDS PageOrder, FiniteSetTheorems, SequenceTheorems, TLAPS

(* A set of numbers has a smallest one. *)
LEMMA SmallestOf ==
  ASSUME NEW S \in SUBSET Nat, S # {}
  PROVE  \E i \in S : \A j \in S : i <= j
<1>. DEFINE R == OpToRel(<, Nat)
<1>1. IsWellFoundedOn(R, Nat)
  BY NatLessThanWellFounded
<1>. HIDE DEF R
<1>2. PICK i \in S : \A j \in S : <<j, i>> \notin R
  BY <1>1, WFMin
<1>3. \A j \in S : ~(j < i)
  BY <1>2 DEF R, OpToRel
<1>. QED BY <1>3

-----------------------------------------------------------------------------
(* Lists without repetition.                                               *)

(* A list with as many different members of S as S has, has them all. *)
LEMMA OrdersCover ==
  ASSUME NEW S, IsFiniteSet(S), NEW s \in Orders(S)
  PROVE  /\ s \in Seq(S) /\ Len(s) = Cardinality(S)
         /\ PagesOf(s) = S
         /\ \A i, j \in DOMAIN s : s[i] = s[j] => i = j
<1>. DEFINE N == Cardinality(S)
<1>1. N \in Nat
  BY FS_CardinalityType
<1>2. s \in [1..N -> S] /\ \A i, j \in 1..N : i # j => s[i] # s[j]
  BY DEF Orders
<1>3. IsFiniteSet(1..N) /\ Cardinality(1..N) = N
  BY <1>1, FS_Interval
<1>4. s \in Injection(1..N, S)
  BY <1>2 DEF Injection, IsInjective
<1>5. s \in Surjection(1..N, S)
  BY <1>3, <1>4, FS_Injection
<1>6. \A x \in S : \E i \in 1..N : s[i] = x
  BY <1>5 DEF Surjection
<1>7. PagesOf(s) = S
  BY <1>2, <1>6 DEF PagesOf
<1>8. s \in Seq(S) /\ Len(s) = N
  BY <1>1, <1>2, SeqDef, LenProperties
<1>. QED BY <1>2, <1>7, <1>8

(* Members of S up to t: the place of t in the order. *)
Rank(S, t) == Cardinality({u \in S : u <= t})

LEMMA RankGrows ==
  ASSUME NEW S \in SUBSET Int, IsFiniteSet(S), NEW t \in S, NEW u \in S, t < u
  PROVE  Rank(S, t) \in 1..Cardinality(S) /\ Rank(S, t) < Rank(S, u)
<1>. DEFINE T == {v \in S : v <= t}
            U == {v \in S : v <= u}
<1>0. t \in Int /\ u \in Int /\ \A v \in S : v \in Int
  OBVIOUS
<1>1. T \subseteq U /\ U \subseteq S /\ T \subseteq S
  <2>1. \A v \in S : v <= t => v <= u
    BY <1>0
  <2>. QED BY <2>1
<1>2. u \in U /\ u \notin T /\ t \in T
  BY <1>0
<1>. HIDE DEF T, U
<1>3. IsFiniteSet(U) /\ IsFiniteSet(T)
  BY <1>1, FS_Subset
<1>4. Cardinality(T) \in Nat /\ Cardinality(U) \in Nat /\ Cardinality(S) \in Nat
  BY <1>3, FS_CardinalityType
<1>5. Cardinality(T) # 0
  BY <1>2, <1>3, FS_EmptySet
<1>6. Cardinality(T) <= Cardinality(S)
  BY <1>1, FS_Subset
<1>7. Cardinality(T) <= Cardinality(U) /\ Cardinality(T) # Cardinality(U)
  BY <1>1, <1>2, <1>3, FS_Subset
<1>8. Rank(S, t) = Cardinality(T) /\ Rank(S, u) = Cardinality(U)
  BY DEF Rank, T, U
<1>. QED BY <1>4, <1>5, <1>6, <1>7, <1>8

(* The rank of the greatest member, which has none above it. *)
LEMMA RankType ==
  ASSUME NEW S \in SUBSET Int, IsFiniteSet(S), NEW t \in S
  PROVE  Rank(S, t) \in 1..Cardinality(S)
<1>. DEFINE T == {v \in S : v <= t}
<1>1. T \in SUBSET S /\ t \in T
  OBVIOUS
<1>. HIDE DEF T
<1>2. IsFiniteSet(T) /\ Cardinality(T) <= Cardinality(S)
  BY <1>1, FS_Subset
<1>3. Cardinality(T) \in Nat /\ Cardinality(S) \in Nat /\ Cardinality(T) # 0
  BY <1>1, <1>2, FS_CardinalityType, FS_EmptySet
<1>4. Rank(S, t) = Cardinality(T)
  BY DEF Rank, T
<1>. QED BY <1>2, <1>3, <1>4

(* Every finite set of numbers can be put in order. *)
LEMMA OrderExists ==
  ASSUME NEW S \in SUBSET Int, IsFiniteSet(S)
  PROVE  \E s \in Orders(S) : Increasing(s)
<1>. DEFINE N == Cardinality(S)
            rank == [t \in S |-> Rank(S, t)]
            s == [i \in 1..N |-> CHOOSE t \in S : rank[t] = i]
<1>1. N \in Nat /\ IsFiniteSet(1..N) /\ Cardinality(1..N) = N
  BY FS_CardinalityType, FS_Interval
<1>2. rank \in [S -> 1..N]
  BY RankType
<1>3. \A t, u \in S : t < u => rank[t] < rank[u]
  BY RankGrows
<1>4. \A t \in S : rank[t] \in Nat
  BY <1>1, <1>2
<1>. HIDE DEF rank
<1>5. \A t, u \in S : rank[t] = rank[u] => t = u
  <2>. SUFFICES ASSUME NEW t \in S, NEW u \in S, rank[t] = rank[u], t # u PROVE FALSE
    OBVIOUS
  <2>1. t < u \/ u < t
    OBVIOUS
  <2>. QED BY <1>3, <1>4, <2>1
<1>6. rank \in Injection(S, 1..N)
  BY <1>2, <1>5 DEF Injection, IsInjective
<1>7. rank \in Surjection(S, 1..N)
  BY <1>1, <1>6, FS_Injection
<1>8. \A i \in 1..N : s[i] \in S /\ rank[s[i]] = i
  BY <1>7 DEF Surjection
<1>9. s \in [1..N -> S]
  BY <1>8
<1>. HIDE DEF s, N
<1>10. ASSUME NEW i \in 1..N, NEW j \in 1..N, i < j PROVE s[i] < s[j]
  <2>1. s[i] \in S /\ s[j] \in S /\ rank[s[i]] = i /\ rank[s[j]] = j
    BY <1>8
  <2>3. i # j /\ ~(j < i)
    BY <1>1, <1>10
  <2>2. ~(s[j] < s[i]) /\ s[i] # s[j] /\ s[i] \in Int /\ s[j] \in Int
    BY <1>3, <2>1, <2>3
  <2>. QED BY <2>2
<1>11. ASSUME NEW i \in 1..N, NEW j \in 1..N, i # j PROVE s[i] # s[j]
  BY <1>8, <1>11
<1>12. DOMAIN s = 1..N
  BY <1>9
<1>13. s \in Orders(S)
  BY <1>9, <1>11, <1>12 DEF Orders, N
<1>. QED BY <1>10, <1>12, <1>13 DEF Increasing

(* What the CHOOSE of Ascending gives. *)
LEMMA AscendingIs ==
  ASSUME NEW S \in SUBSET Int, IsFiniteSet(S)
  PROVE  /\ Ascending(S) \in Seq(S) /\ Len(Ascending(S)) = Cardinality(S)
         /\ PagesOf(Ascending(S)) = S
         /\ Increasing(Ascending(S))
<1>1. Ascending(S) \in Orders(S) /\ Increasing(Ascending(S))
  BY OrderExists DEF Ascending
<1>. QED BY <1>1, OrdersCover

-----------------------------------------------------------------------------
(* How many pages are dealt.                                               *)

LEMMA Times ==
  ASSUME NEW i \in Int, NEW d \in Int
  PROVE  /\ i * d \in Int
         /\ (i + 1) * d = i * d + d
         /\ 0 * d = 0
OBVIOUS

(* Each package gets total \div n pages, or one more. *)
LEMMA DealtNext ==
  ASSUME NEW total \in Nat, NEW n \in Nat \ {0}, NEW i \in Nat
  PROVE  /\ Dealt(total, n, i) \in Nat
         /\ Dealt(total, n, i + 1) - Dealt(total, n, i) \in {total \div n, total \div n + 1}
<1>. DEFINE d == total \div n
            x == total % n
<1>1. d \in Nat /\ x \in 0..n-1
  OBVIOUS
<1>2. Dealt(total, n, i) = i * d + (IF i < x THEN i ELSE x)
  BY DEF Dealt
<1>3. Dealt(total, n, i + 1) = (i + 1) * d + (IF i + 1 < x THEN i + 1 ELSE x)
  BY DEF Dealt
<1>. HIDE DEF d, x
<1>4. (i + 1) * d = i * d + d /\ i * d \in Nat
  BY <1>1, Times
<1>5. PICK m \in Nat : m = i * d
  BY <1>4
<1>6. /\ Dealt(total, n, i) = m + (IF i < x THEN i ELSE x)
      /\ Dealt(total, n, i + 1) = m + d + (IF i + 1 < x THEN i + 1 ELSE x)
  BY <1>2, <1>3, <1>4, <1>5
<1>7. /\ Dealt(total, n, i) \in Nat
      /\ Dealt(total, n, i + 1) - Dealt(total, n, i) \in {d, d + 1}
  BY <1>1, <1>6
<1>. QED BY <1>7 DEF d

(* Nothing before the first package, everything after the last. *)
LEMMA DealtEnds ==
  ASSUME NEW total \in Nat, NEW n \in Nat \ {0}
  PROVE  Dealt(total, n, 0) = 0 /\ Dealt(total, n, n) = total
<1>. DEFINE d == total \div n
            x == total % n
<1>1. d \in Nat /\ x \in 0..n-1 /\ total = n * d + x
  OBVIOUS
<1>2. Dealt(total, n, 0) = 0 * d + (IF 0 < x THEN 0 ELSE x)
  BY DEF Dealt
<1>3. Dealt(total, n, n) = n * d + (IF n < x THEN n ELSE x)
  BY DEF Dealt
<1>. HIDE DEF d, x
<1>. QED BY <1>1, <1>2, <1>3

LEMMA DealtGrows ==
  ASSUME NEW total \in Nat, NEW n \in Nat \ {0}, NEW i \in Nat, NEW j \in Nat, i <= j
  PROVE  Dealt(total, n, i) <= Dealt(total, n, j)
<1>. DEFINE d == total \div n
            x == total % n
<1>1. d \in Nat /\ x \in 0..n-1
  OBVIOUS
<1>2. /\ Dealt(total, n, i) = i * d + (IF i < x THEN i ELSE x)
      /\ Dealt(total, n, j) = j * d + (IF j < x THEN j ELSE x)
  BY DEF Dealt
<1>. HIDE DEF d, x
<1>3. i * d \in Nat /\ j * d \in Nat /\ i * d <= j * d
  <2>1. PICK e \in Nat : j = i + e
    <3>1. j - i \in Nat /\ j = i + (j - i)
      OBVIOUS
    <3>. QED BY <3>1
  <2>2. j * d = i * d + e * d /\ e * d \in Nat /\ i * d \in Nat
    BY <1>1, <2>1
  <2>. QED BY <2>2
<1>. QED BY <1>1, <1>2, <1>3

-----------------------------------------------------------------------------
(* The parts a list is dealt in.                                           *)

Distinct(s) == \A i, j \in DOMAIN s : s[i] = s[j] => i = j

\* The places of the i-th part, as far as they are dealt before and with it.
Before(order, n, i) == Dealt(Len(order), n, i - 1)
With(order, n, i)   == Dealt(Len(order), n, i)
Places(order, n, i) == Before(order, n, i) + 1 .. With(order, n, i)

\* The members of the list at some of its places.
PagesAt(order, P) == {order[k] : k \in P}

\* The list s is that from a + 1 to b.
IsSlice(s, order, a, b) ==
  /\ a \in Nat /\ b \in Nat /\ a <= b /\ b <= Len(order)
  /\ DOMAIN s = 1..b - a
  /\ \A k \in 1..b - a : s[k] = order[a + k]

(* The i-th part is the list from its first to its last place. *)
LEMMA PartIs ==
  ASSUME NEW S, NEW order \in Seq(S), NEW n \in Nat \ {0}, NEW i \in 1..n,
         NEW a, NEW b, a = Before(order, n, i), b = With(order, n, i)
  PROVE  /\ IsSlice(Part(order, n, i), order, a, b)
         /\ Part(order, n, i) \in Seq(S)
         /\ b - a \in {Len(order) \div n, Len(order) \div n + 1}
<1>. DEFINE total == Len(order)
<1>1. total \in Nat
  BY LenProperties
<1>2. PICK h : h = i - 1
  OBVIOUS
<1>3. h \in Nat /\ i = h + 1 /\ n \in Nat /\ i \in Nat /\ i <= n
  BY <1>2
<1>. HIDE DEF total
<1>4. Dealt(total, n, h) \in Nat /\ Dealt(total, n, i) \in Nat
  BY <1>1, <1>3, DealtNext
<1>5. Dealt(total, n, i) - Dealt(total, n, h) \in {total \div n, total \div n + 1}
  BY <1>1, <1>3, DealtNext
<1>6. Dealt(total, n, i) <= total
  <2>1. Dealt(total, n, i) <= Dealt(total, n, n)
    BY <1>1, <1>3, DealtGrows
  <2>. QED BY <1>1, <2>1, DealtEnds
<1>7. Dealt(total, n, h) <= Dealt(total, n, i)
  <2>1. h <= i
    BY <1>3
  <2>. QED BY <1>1, <1>3, <2>1, DealtGrows
<1>8. a = Dealt(total, n, h) /\ b = Dealt(total, n, i)
  BY <1>2 DEF total, Before, With
<1>9. a \in Nat /\ b \in Nat /\ a <= b /\ b <= Len(order)
  BY <1>4, <1>6, <1>7, <1>8 DEF total
<1>10. b - a \in {Len(order) \div n, Len(order) \div n + 1}
  BY <1>5, <1>8 DEF total
<1>11. Part(order, n, i) = SubSeq(order, a + 1, b)
  BY DEF Part, Before, With
<1>12. \A k \in a + 1..b : order[k] \in S
  BY <1>9, ElementOfSeq
<1>13. PICK m \in Nat : m = a + 1
  BY <1>9
<1>14. /\ SubSeq(order, m, b) \in Seq(S)
       /\ Len(SubSeq(order, m, b)) = IF m <= b THEN b - m + 1 ELSE 0
       /\ \A k \in 1..b - m + 1 : SubSeq(order, m, b)[k] = order[m + k - 1]
  BY <1>9, <1>12, <1>13, SubSeqProperties
<1>15. a \in Nat /\ b \in Nat /\ a <= b /\ m = a + 1
  BY <1>9, <1>13
<1>16. (IF m <= b THEN b - m + 1 ELSE 0) = b - a
  BY <1>15
<1>17. ASSUME NEW k \in 1..b - a PROVE SubSeq(order, m, b)[k] = order[a + k]
  <2>1. k \in 1..b - m + 1 /\ m + k - 1 = a + k
    BY <1>15
  <2>. QED BY <1>14, <2>1
<1>18. DOMAIN SubSeq(order, m, b) = 1..b - a
  BY <1>14, <1>16, LenProperties
<1>19. IsSlice(SubSeq(order, m, b), order, a, b)
  BY <1>9, <1>17, <1>18 DEF IsSlice
<1>. QED BY <1>10, <1>11, <1>13, <1>14, <1>19

(* What distribute gives the i-th package: the pages at its places, in     *)
(* their order when they were dealt in order, or have been sorted.         *)
LEMMA ShareIs ==
  ASSUME NEW S \in SUBSET Int, NEW order \in Seq(S), NEW n \in Nat \ {0}, NEW i \in 1..n,
         NEW random \in BOOLEAN
  PROVE  /\ Share(order, n, i, random) \in Seq(S)
         /\ PagesOf(Share(order, n, i, random)) = PagesAt(order, Places(order, n, i))
         /\ Places(order, n, i) \subseteq DOMAIN order
         /\ random \/ Increasing(order) => Increasing(Share(order, n, i, random))
<1>1. PICK a, b : a = Before(order, n, i) /\ b = With(order, n, i)
  OBVIOUS
<1>2. PICK part : part = Part(order, n, i)
  OBVIOUS
<1>14. IsSlice(part, order, a, b) /\ part \in Seq(S)
  BY <1>1, <1>2, PartIs
<1>3. /\ a \in Nat /\ b \in Nat /\ a <= b /\ b <= Len(order)
      /\ \A k \in 1..b - a : part[k] = order[a + k]
  BY <1>14 DEF IsSlice
<1>4. DOMAIN part = 1..b - a /\ DOMAIN order = 1..Len(order) /\ Len(order) \in Nat
  BY <1>14, LenProperties DEF IsSlice
<1>5. Places(order, n, i) = a + 1..b
  BY <1>1 DEF Places
<1>6. a + 1..b \subseteq DOMAIN order
  BY <1>3, <1>4
<1>7. PagesOf(part) = PagesAt(order, a + 1..b)
  <2>1. ASSUME NEW k \in a + 1..b PROVE \E j \in 1..b - a : part[j] = order[k]
    <3>1. k - a \in 1..b - a /\ a + (k - a) = k
      BY <1>3
    <3>. QED BY <1>3, <3>1
  <2>2. ASSUME NEW j \in 1..b - a PROVE \E k \in a + 1..b : part[j] = order[k]
    <3>1. a + j \in a + 1..b
      BY <1>3
    <3>. QED BY <1>3, <3>1
  <2>. QED BY <1>4, <2>1, <2>2 DEF PagesOf, PagesAt
<1>8. Increasing(order) => Increasing(part)
  <2>. SUFFICES ASSUME Increasing(order), NEW j \in 1..b - a, NEW k \in 1..b - a, j < k
                PROVE  part[j] < part[k]
    BY <1>4 DEF Increasing
  <2>1. a + j \in DOMAIN order /\ a + k \in DOMAIN order /\ a + j < a + k
    BY <1>3, <1>4
  <2>. QED BY <1>3, <2>1 DEF Increasing
<1>9. PagesOf(part) \subseteq S /\ IsFiniteSet(PagesOf(part))
  <2>1. PagesOf(part) \subseteq S
    <3>1. part \in [1..Len(part) -> S]
      BY <1>14, LenProperties
    <3>2. \A k \in DOMAIN part : part[k] \in S
      BY <3>1
    <3>. QED BY <3>2 DEF PagesOf
  <2>2. IsFiniteSet(1..b - a)
    BY <1>3, FS_Interval
  <2>3. PICK f : f = [k \in 1..b - a |-> part[k]]
    OBVIOUS
  <2>4. f \in Surjection(1..b - a, PagesOf(part))
    BY <1>4, <2>3 DEF PagesOf, Surjection
  <2>. QED BY <2>1, <2>2, <2>4, FS_Surjection
<1>10. PICK T : T = PagesOf(part)
  OBVIOUS
<1>11. /\ Ascending(T) \in Seq(T) /\ PagesOf(Ascending(T)) = T
       /\ Increasing(Ascending(T))
  <2>1. T \in SUBSET Int /\ IsFiniteSet(T)
    BY <1>9, <1>10
  <2>. QED BY <2>1, AscendingIs
<1>12. Ascending(T) \in Seq(S)
  BY <1>9, <1>10, <1>11, SeqMonotonic
<1>13. Share(order, n, i, random) = IF random THEN Ascending(T) ELSE part
  BY <1>2, <1>10 DEF Share
<1>. QED BY <1>14, <1>5, <1>6, <1>7, <1>8, <1>10, <1>11, <1>12, <1>13

-----------------------------------------------------------------------------
(* What one split makes of a book's pages, in whatever order they are.     *)

(* No page is dealt to two packages. *)
THEOREM SharesDisjoint ==
  ASSUME NEW S \in SUBSET Int, NEW order \in Seq(S), Distinct(order),
         NEW n \in Nat \ {0}, NEW random \in BOOLEAN,
         NEW i \in 1..n, NEW j \in 1..n, i # j
  PROVE  PagesOf(Share(order, n, i, random)) \cap PagesOf(Share(order, n, j, random)) = {}
\* The places of an earlier part come before those of a later one.
<1>1. ASSUME NEW g \in 1..n, NEW h \in 1..n, g < h
      PROVE  With(order, n, g) <= Before(order, n, h)
  <2>1. PICK k : k = h - 1
    OBVIOUS
  <2>2. g \in Nat /\ k \in Nat /\ g <= k /\ Len(order) \in Nat
    BY <1>1, <2>1, LenProperties
  <2>3. Dealt(Len(order), n, g) <= Dealt(Len(order), n, k)
    BY <2>2, DealtGrows
  <2>. QED BY <2>1, <2>3 DEF With, Before
<1>2. \A g \in 1..n : With(order, n, g) \in Nat /\ Before(order, n, g) \in Nat
  BY PartIs DEF IsSlice
<1>3. Places(order, n, i) \cap Places(order, n, j) = {}
  <2>1. i < j \/ j < i
    OBVIOUS
  <2>. QED BY <1>1, <1>2, <2>1 DEF Places
<1>4. /\ PagesOf(Share(order, n, i, random)) = PagesAt(order, Places(order, n, i))
      /\ Places(order, n, i) \subseteq DOMAIN order
  BY ShareIs
<1>5. /\ PagesOf(Share(order, n, j, random)) = PagesAt(order, Places(order, n, j))
      /\ Places(order, n, j) \subseteq DOMAIN order
  BY ShareIs
<1>. HIDE DEF Places
<1>. QED BY <1>3, <1>4, <1>5 DEF Distinct, PagesAt

(* Every package gets total \div n pages, or one more. *)
LEMMA ShareSize ==
  ASSUME NEW S \in SUBSET Int, NEW order \in Seq(S), Distinct(order),
         NEW n \in Nat \ {0}, NEW random \in BOOLEAN, NEW i \in 1..n
  PROVE  LET size == Cardinality(PagesOf(Share(order, n, i, random))) IN
         size \in {Len(order) \div n, Len(order) \div n + 1}
<1>1. PICK a, b : a = Before(order, n, i) /\ b = With(order, n, i)
  OBVIOUS
<1>2. /\ b - a \in {Len(order) \div n, Len(order) \div n + 1}
      /\ a \in Nat /\ b \in Nat /\ a <= b
  BY <1>1, PartIs DEF IsSlice
<1>3. PICK P : P = a + 1..b
  OBVIOUS
<1>4. IsFiniteSet(P) /\ Cardinality(P) = b - a
  <2>1. PICK m \in Int : m = a + 1
    BY <1>2
  <2>3. b \in Int
    BY <1>2
  <2>2. IsFiniteSet(m..b) /\ Cardinality(m..b) = IF m > b THEN 0 ELSE b - m + 1
    BY <2>1, <2>3, FS_Interval
  <2>. QED BY <1>2, <1>3, <2>1, <2>2
<1>5. /\ PagesOf(Share(order, n, i, random)) = PagesAt(order, P)
      /\ P \subseteq DOMAIN order
  BY <1>1, <1>3, ShareIs DEF Places
<1>6. PICK T : T = PagesOf(Share(order, n, i, random))
  OBVIOUS
<1>7. PICK f : f = [k \in P |-> order[k]]
  OBVIOUS
<1>8. f \in Bijection(P, T)
  BY <1>5, <1>6, <1>7 DEF Distinct, PagesAt, Bijection, Injection, Surjection, IsInjective
<1>9. Cardinality(T) = Cardinality(P)
  BY <1>4, <1>8, FS_Bijection DEF ExistsBijection
<1>. QED BY <1>2, <1>4, <1>6, <1>9

(* The packages of a split differ by at most one page. *)
THEOREM SharesEven ==
  ASSUME NEW S \in SUBSET Int, NEW order \in Seq(S), Distinct(order),
         NEW n \in Nat \ {0}, NEW random \in BOOLEAN, NEW i \in 1..n, NEW j \in 1..n
  PROVE  Cardinality(PagesOf(Share(order, n, i, random)))
           <= Cardinality(PagesOf(Share(order, n, j, random))) + 1
<1>1. PICK d : d = Len(order) \div n
  OBVIOUS
<1>2. d \in Int
  BY <1>1, LenProperties
<1>3. Cardinality(PagesOf(Share(order, n, i, random))) \in {d, d + 1}
  BY <1>1, ShareSize
<1>4. Cardinality(PagesOf(Share(order, n, j, random))) \in {d, d + 1}
  BY <1>1, ShareSize
<1>. QED BY <1>2, <1>3, <1>4

(* Every page is dealt to some package. *)
THEOREM SharesCover ==
  ASSUME NEW S \in SUBSET Int, NEW order \in Seq(S),
         NEW n \in Nat \ {0}, NEW random \in BOOLEAN, NEW g \in PagesOf(order)
  PROVE  \E i \in 1..n : g \in PagesOf(Share(order, n, i, random))
<1>1. PICK total : total = Len(order)
  OBVIOUS
<1>2. total \in Nat /\ DOMAIN order = 1..total
  BY <1>1, LenProperties
<1>3. PICK k \in 1..total : g = order[k]
  BY <1>2 DEF PagesOf
\* The least number of packages that place k is dealt to.
<1>. DEFINE enough == {i \in Nat : k <= Dealt(total, n, i)}
<1>4. n \in enough
  BY <1>2, <1>3, DealtEnds
<1>5. PICK i \in enough : \A j \in enough : i <= j
  BY <1>4, SmallestOf
<1>6. i \in Nat /\ i <= n /\ i # 0 /\ k <= Dealt(total, n, i)
  BY <1>2, <1>3, <1>4, <1>5, DealtEnds
<1>7. PICK h \in Nat : h = i - 1
  BY <1>6
<1>8. h \notin enough
  BY <1>5, <1>6, <1>7
<1>9. Dealt(total, n, h) \in Nat /\ Dealt(total, n, i) \in Nat /\ Dealt(total, n, h) < k
  <2>1. Dealt(total, n, h) \in Nat /\ Dealt(total, n, i) \in Nat
    BY <1>2, <1>6, <1>7, DealtNext
  <2>. QED BY <1>3, <1>8, <2>1
<1>10. k \in Places(order, n, i)
  <2>1. Before(order, n, i) = Dealt(total, n, h) /\ With(order, n, i) = Dealt(total, n, i)
    BY <1>1, <1>7 DEF Before, With
  <2>. QED BY <1>3, <1>6, <1>9, <2>1 DEF Places
<1>11. i \in 1..n
  BY <1>6
<1>. QED BY <1>3, <1>10, <1>11, ShareIs DEF PagesAt

-----------------------------------------------------------------------------
(* The links between neighbours.                                           *)

(* In a list that is in order the neighbours of a page are those next to it *)
(* in the order: no page of the list lies between a page and its next one, *)
(* nor between a page and its previous one.                                *)
THEOREM ChainLinks ==
  ASSUME NEW S \in SUBSET Int, NEW s \in Seq(S), Increasing(s)
  PROVE  /\ DOMAIN Chain(s) = PagesOf(s) /\ PagesOf(s) \subseteq S
         /\ Chain(s) \in [PagesOf(s) -> [prev : S, next : S]]
         /\ \A g, h \in PagesOf(s) :
              g < h => /\ g < Chain(s)[g].next /\ Chain(s)[g].next <= h
                       /\ g <= Chain(s)[h].prev /\ Chain(s)[h].prev < h
<1>. DEFINE at(g) == CHOOSE i \in DOMAIN s : s[i] = g
<1>1. Len(s) \in Nat /\ DOMAIN s = 1..Len(s) /\ \A i \in DOMAIN s : s[i] \in S /\ s[i] \in Int
  BY LenProperties, ElementOfSeq
<1>2. \A g \in PagesOf(s) : at(g) \in DOMAIN s /\ s[at(g)] = g
  BY DEF PagesOf
<1>3. PagesOf(s) \subseteq S
  BY <1>1 DEF PagesOf
<1>4. Chain(s) = [g \in PagesOf(s) |->
                    [prev |-> IF at(g) > 1 THEN s[at(g) - 1] ELSE g,
                     next |-> IF at(g) + 1 <= Len(s) THEN s[at(g) + 1] ELSE g]]
  BY DEF Chain
<1>. HIDE DEF at
<1>5. ASSUME NEW g \in PagesOf(s)
      PROVE  /\ Chain(s)[g].prev = IF at(g) > 1 THEN s[at(g) - 1] ELSE g
             /\ Chain(s)[g].next = IF at(g) + 1 <= Len(s) THEN s[at(g) + 1] ELSE g
             /\ Chain(s)[g] \in [prev : S, next : S]
  <2>1. at(g) > 1 => at(g) - 1 \in DOMAIN s
    BY <1>1, <1>2
  <2>2. at(g) + 1 <= Len(s) => at(g) + 1 \in DOMAIN s
    BY <1>1, <1>2
  <2>3. Chain(s)[g] = [prev |-> IF at(g) > 1 THEN s[at(g) - 1] ELSE g,
                       next |-> IF at(g) + 1 <= Len(s) THEN s[at(g) + 1] ELSE g]
    BY <1>4
  <2>. QED BY <1>1, <1>3, <2>1, <2>2, <2>3
<1>6. ASSUME NEW g \in PagesOf(s), NEW h \in PagesOf(s), g < h
      PROVE  /\ g < Chain(s)[g].next /\ Chain(s)[g].next <= h
             /\ g <= Chain(s)[h].prev /\ Chain(s)[h].prev < h
  <2>1. PICK i, j : i = at(g) /\ j = at(h)
    OBVIOUS
  <2>2. i \in 1..Len(s) /\ j \in 1..Len(s) /\ s[i] = g /\ s[j] = h /\ g \in Int /\ h \in Int
    BY <1>1, <1>2, <2>1
  <2>3. i < j
    <3>1. ~(j < i) /\ i # j
      BY <1>1, <1>6, <2>2 DEF Increasing
    <3>. QED BY <1>1, <2>2, <3>1
  <2>4. PICK k, m : k = i + 1 /\ m = j - 1
    OBVIOUS
  <2>5. k \in DOMAIN s /\ m \in DOMAIN s /\ i < k /\ m < j /\ (k = j \/ k < j) /\ (m = i \/ i < m)
    BY <1>1, <2>2, <2>3, <2>4
  <2>6. Chain(s)[g].next = s[k] /\ Chain(s)[h].prev = s[m]
    <3>1. i + 1 <= Len(s) /\ j > 1
      BY <1>1, <2>2, <2>3
    <3>. QED BY <1>5, <2>1, <2>4, <3>1
  <2>7. /\ s[i] < s[k] /\ s[m] < s[j]
        /\ s[k] = s[j] \/ s[k] < s[j]
        /\ s[m] = s[i] \/ s[i] < s[m]
    BY <1>1, <2>2, <2>5 DEF Increasing
  <2>8. s[k] \in Int /\ s[m] \in Int
    BY <1>1, <2>5
  <2>. QED BY <2>2, <2>6, <2>7, <2>8
<1>. QED BY <1>3, <1>4, <1>5, <1>6

=============================================================================
