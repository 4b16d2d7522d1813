------------------------- MODULE ConcordanceProofs --------------------------
(***************************************************************************)
(* What holds of the concordance for any search result, any size of its    *)
(* pages, and any number of requests, clicks, edits and failures.          *)
(***************************************************************************)
EXTENDS Concordance, FiniteSetTheorems, SequenceTheorems, WellFoundedInduction, TLAPS

Requests == [op : {"correct"} \cup Searches, n : Click, token : Match \cup {0},
             text : Texts, page : Int]
Answers  == [req : Requests, status : {"ok", "failed"}, result : Result]

(* TypeOK, and the types it leaves out. *)
TypeInv ==
  /\ TypeOK
  /\ items \in Seq(Int)
  /\ pending \subseteq Requests
  /\ answered \in Seq(Answers)
  /\ clicks \in Nat

-----------------------------------------------------------------------------
(* The search.                                                              *)

(* What a search finds is a part of the matches. *)
LEMMA SearchType ==
  ASSUME NEW skip \in Int
  PROVE  Search(skip) \in Result
<1>1. Uncorrected \subseteq Match
  BY DEF Uncorrected
<1>2. Cardinality(Uncorrected) \in 0..Cardinality(Match)
  <2>1. IsFiniteSet(Match)
    BY ConcordanceAssumption
  <2>2. Cardinality(Match) \in Nat
    BY <2>1, FS_CardinalityType
  <2>3. IsFiniteSet(Uncorrected) /\ Cardinality(Uncorrected) <= Cardinality(Match)
    BY <1>1, <2>1, FS_Subset
  <2>4. Cardinality(Uncorrected) \in Nat
    BY <2>3, FS_CardinalityType
  <2>. QED BY <2>2, <2>3, <2>4
<1>. QED BY <1>1, <1>2 DEF Search, Result

(* A list that is not empty has a page. *)
LEMMA PagesForType ==
  ASSUME NEW total \in Nat
  PROVE  PagesFor(total) \in Nat /\ (total > 0 => PagesFor(total) >= 1)
<1>1. Hits \in Nat \ {0}
  BY ConcordanceAssumption
<1>. QED BY <1>1 DEF PagesFor

-----------------------------------------------------------------------------
(* The list items.                                                          *)

(* A run of page numbers. *)
LEMMA PagesType ==
  ASSUME NEW a \in Int, NEW b \in Int, a <= b + 1
  PROVE  /\ Pages(a, b) \in Seq(Int)
         /\ Len(Pages(a, b)) = b - a + 1
         /\ \A k \in 1..b - a + 1 : Pages(a, b)[k] = a + k - 1
BY DEF Pages

(* Three parts one after the other. *)
LEMMA Joined ==
  ASSUME NEW s \in Seq(Int), NEW t \in Seq(Int), NEW u \in Seq(Int),
         NEW f, f = s \o t \o u
  PROVE  /\ f \in Seq(Int)
         /\ Len(f) = Len(s) + Len(t) + Len(u)
         /\ \A i \in 1..Len(s) : f[i] = s[i]
         /\ \A i \in 1..Len(t) : f[Len(s) + i] = t[i]
         /\ \A i \in 1..Len(u) : f[Len(s) + Len(t) + i] = u[i]
<1>1. Len(s) \in Nat /\ Len(t) \in Nat /\ Len(u) \in Nat
  OBVIOUS
<1>2. /\ s \o t \in Seq(Int) /\ Len(s \o t) = Len(s) + Len(t)
      /\ \A i \in 1..Len(s) + Len(t) : (s \o t)[i] = IF i <= Len(s) THEN s[i] ELSE t[i - Len(s)]
  BY ConcatProperties, Zenon
<1>3. PICK v \in Seq(Int) : v = s \o t
  BY <1>2
<1>4. /\ v \o u \in Seq(Int) /\ Len(v \o u) = Len(v) + Len(u)
      /\ \A i \in 1..Len(v) + Len(u) : (v \o u)[i] = IF i <= Len(v) THEN v[i] ELSE u[i - Len(v)]
  BY ConcatProperties, Zenon
<1>5. f = v \o u /\ Len(v) = Len(s) + Len(t)
  BY <1>2, <1>3
<1>6. \A i \in 1..Len(s) : f[i] = s[i]
  BY <1>1, <1>2, <1>3, <1>4, <1>5
<1>7. \A i \in 1..Len(t) : f[Len(s) + i] = t[i]
  BY <1>1, <1>2, <1>3, <1>4, <1>5
<1>8. ASSUME NEW i \in 1..Len(u) PROVE f[Len(s) + Len(t) + i] = u[i]
  <2>1. PICK n \in Nat, m \in Nat : n = Len(v) /\ m = Len(u)
    BY <1>1, <1>5
  <2>2. PICK j \in Int : j = n + i
    BY <2>1
  <2>3. j \in 1..n + m /\ ~(j <= n) /\ j - n = i
    BY <2>1, <2>2
  <2>4. (v \o u)[j] = u[j - n]
    BY <1>4, <2>1, <2>3, Zenon
  <2>. QED BY <1>5, <2>1, <2>2, <2>3, <2>4, Zenon
<1>. QED BY <1>4, <1>5, <1>6, <1>7, <1>8

(* The layout for few pages: all of them. *)
LEMMA FewItems ==
  ASSUME NEW max \in 1..5,
         NEW its, its = FirstItems(max)
  PROVE  /\ its \in Seq(Int)
         /\ Len(its) = max + 2
         /\ its[1] = Previous
         /\ \A i \in 2..max + 1 : its[i] = i - 1
         /\ its[max + 2] = NextItem
<1>1. PICK P : P = Pages(2, max)
  OBVIOUS
<1>2. 2 \in Int /\ max \in Int /\ 2 <= max + 1
  OBVIOUS
<1>3. P \in Seq(Int) /\ Len(P) = max - 2 + 1 /\ \A k \in 1..max - 2 + 1 : P[k] = 2 + k - 1
  BY <1>1, <1>2, PagesType, Zenon
<1>4. PICK s, u : s = <<Previous, 1>> /\ u = <<NextItem>>
  OBVIOUS
<1>5. /\ s \in Seq(Int) /\ Len(s) = 2 /\ s[1] = Previous /\ s[2] = 1
      /\ u \in Seq(Int) /\ Len(u) = 1 /\ u[1] = NextItem
  BY <1>4 DEF Previous, NextItem
<1>6. PICK f : f = its
  OBVIOUS
<1>7. f = s \o P \o u
  BY <1>1, <1>4, <1>6 DEF FirstItems
<1>8. /\ f \in Seq(Int)
      /\ Len(f) = Len(s) + Len(P) + Len(u)
      /\ \A i \in 1..Len(s) : f[i] = s[i]
      /\ \A i \in 1..Len(P) : f[Len(s) + i] = P[i]
      /\ \A i \in 1..Len(u) : f[Len(s) + Len(P) + i] = u[i]
  <2>1. s \in Seq(Int) /\ P \in Seq(Int) /\ u \in Seq(Int)
    BY <1>3, <1>5
  <2>. QED BY <1>7, <2>1, Joined
<1>9. \A i \in 2..max + 1 : f[i] = i - 1
  <2>1. ASSUME NEW i \in 3..max + 1 PROVE f[i] = i - 1
    <3>1. i - 2 \in 1..Len(P) /\ Len(s) + (i - 2) = i
      BY <1>3, <1>5
    <3>2. f[Len(s) + (i - 2)] = P[i - 2]
      BY <1>8, <3>1, Zenon
    <3>. QED BY <1>3, <3>1, <3>2
  <2>2. f[2] = 1
    BY <1>5, <1>8
  <2>. QED BY <2>1, <2>2
<1>10. f[1] = Previous
  BY <1>5, <1>8
<1>11. f[max + 2] = NextItem
  <2>1. 1 \in 1..Len(u) /\ Len(s) + Len(P) + 1 = max + 2
    BY <1>3, <1>5
  <2>2. f[Len(s) + Len(P) + 1] = u[1]
    BY <1>8, <2>1, Zenon
  <2>. QED BY <1>5, <2>1, <2>2
<1>. QED BY <1>2, <1>3, <1>5, <1>6, <1>8, <1>9, <1>10, <1>11

(* The layout for one of the first pages of many. *)
IsMany(its, max) ==
  /\ its \in Seq(Int)
  /\ Len(its) = 9
  /\ its[1] = Previous
  /\ \A i \in 2..6 : its[i] = i - 1
  /\ its[7] = Dots
  /\ its[8] = max
  /\ its[9] = NextItem

LEMMA ManyItems ==
  ASSUME NEW max \in Nat, max > 5,
         NEW its, its = FirstItems(max)
  PROVE  IsMany(its, max)
<1>1. PICK P : P = Pages(1, 5)
  OBVIOUS
<1>2. 1 \in Int /\ 5 \in Int /\ 1 <= 5 + 1
  OBVIOUS
<1>3. P \in Seq(Int) /\ Len(P) = 5 - 1 + 1 /\ \A k \in 1..5 - 1 + 1 : P[k] = 1 + k - 1
  BY <1>1, <1>2, PagesType, Zenon
<1>4. PICK s, u : s = <<Previous>> /\ u = <<Dots, max, NextItem>>
  OBVIOUS
<1>5. /\ s \in Seq(Int) /\ Len(s) = 1 /\ s[1] = Previous
      /\ u \in Seq(Int) /\ Len(u) = 3 /\ u[1] = Dots /\ u[2] = max /\ u[3] = NextItem
  BY <1>4 DEF Previous, NextItem, Dots
<1>6. PICK f : f = its
  OBVIOUS
<1>7. f = s \o P \o u
  BY <1>1, <1>4, <1>6 DEF FirstItems
<1>8. /\ f \in Seq(Int)
      /\ Len(f) = Len(s) + Len(P) + Len(u)
      /\ \A i \in 1..Len(s) : f[i] = s[i]
      /\ \A i \in 1..Len(P) : f[Len(s) + i] = P[i]
      /\ \A i \in 1..Len(u) : f[Len(s) + Len(P) + i] = u[i]
  <2>1. s \in Seq(Int) /\ P \in Seq(Int) /\ u \in Seq(Int)
    BY <1>3, <1>5
  <2>. QED BY <1>7, <2>1, Joined
<1>9. f[1] = Previous /\ f[2] = 1 /\ f[3] = 2 /\ f[4] = 3 /\ f[5] = 4 /\ f[6] = 5
  BY <1>3, <1>5, <1>8
<1>10. f[7] = Dots /\ f[8] = max /\ f[9] = NextItem
  BY <1>3, <1>5, <1>8
<1>. QED BY <1>3, <1>5, <1>6, <1>8, <1>9, <1>10 DEF IsMany

(* The layout for a page in the middle: it is the sixth item. *)
IsMiddle(its, value, max) ==
  /\ its \in Seq(Int)
  /\ Len(its) = 10
  /\ its[1] = Previous
  /\ its[2] = 1
  /\ its[3] = Dots
  /\ \A i \in 4..7 : its[i] = value + i - 6
  /\ its[8] = Dots
  /\ its[9] = max
  /\ its[10] = NextItem

LEMMA MidItems ==
  ASSUME NEW value \in Int, NEW max \in Int,
         NEW its, its = MiddleItems(value, max)
  PROVE  IsMiddle(its, value, max)
<1>1. PICK P : P = Pages(value - 2, value + 1)
  OBVIOUS
<1>2. PICK a \in Int, b \in Int : a = value - 2 /\ b = value + 1 /\ a <= b + 1
  OBVIOUS
<1>3. P \in Seq(Int) /\ Len(P) = b - a + 1 /\ \A k \in 1..b - a + 1 : P[k] = a + k - 1
  BY <1>1, <1>2, PagesType, Zenon
<1>4. PICK s, u : s = <<Previous, 1, Dots>> /\ u = <<Dots, max, NextItem>>
  OBVIOUS
<1>5. /\ s \in Seq(Int) /\ Len(s) = 3 /\ s[1] = Previous /\ s[2] = 1 /\ s[3] = Dots
      /\ u \in Seq(Int) /\ Len(u) = 3 /\ u[1] = Dots /\ u[2] = max /\ u[3] = NextItem
  BY <1>4 DEF Previous, NextItem, Dots
<1>6. PICK f : f = its
  OBVIOUS
<1>7. f = s \o P \o u
  BY <1>1, <1>4, <1>6 DEF MiddleItems
<1>8. /\ f \in Seq(Int)
      /\ Len(f) = Len(s) + Len(P) + Len(u)
      /\ \A i \in 1..Len(s) : f[i] = s[i]
      /\ \A i \in 1..Len(P) : f[Len(s) + i] = P[i]
      /\ \A i \in 1..Len(u) : f[Len(s) + Len(P) + i] = u[i]
  <2>1. s \in Seq(Int) /\ P \in Seq(Int) /\ u \in Seq(Int)
    BY <1>3, <1>5
  <2>. QED BY <1>7, <2>1, Joined
<1>9. Len(P) = 4 /\ P[1] = value - 2 /\ P[2] = value - 1 /\ P[3] = value /\ P[4] = value + 1
  BY <1>2, <1>3
<1>10. f[1] = Previous /\ f[2] = 1 /\ f[3] = Dots
  BY <1>5, <1>8
<1>11. f[4] = value - 2 /\ f[5] = value - 1 /\ f[6] = value /\ f[7] = value + 1
  BY <1>5, <1>8, <1>9
<1>12. f[8] = Dots /\ f[9] = max /\ f[10] = NextItem
  BY <1>5, <1>8, <1>9
<1>. QED BY <1>5, <1>6, <1>8, <1>9, <1>10, <1>11, <1>12 DEF IsMiddle

(* The layout for one of the last pages: it is the sixth item, too. *)
IsLast(its, value, max) ==
  /\ its \in Seq(Int)
  /\ Len(its) = max - value + 7
  /\ its[1] = Previous
  /\ its[2] = Dots
  /\ \A i \in 3..max - value + 6 : its[i] = value + i - 6
  /\ its[max - value + 7] = NextItem

LEMMA LastItems ==
  ASSUME NEW max \in Int, NEW value \in Int, value <= max,
         NEW its, its = EndItems(value, max)
  PROVE  IsLast(its, value, max)
<1>1. PICK P, Q : P = Pages(value - 3, value - 1) /\ Q = Pages(value, max - 1)
  OBVIOUS
<1>2. PICK a \in Int, b \in Int : a = value - 3 /\ b = value - 1 /\ a <= b + 1
  OBVIOUS
<1>3. P \in Seq(Int) /\ Len(P) = b - a + 1 /\ \A k \in 1..b - a + 1 : P[k] = a + k - 1
  BY <1>1, <1>2, PagesType, Zenon
<1>4. Len(P) = 3 /\ P[1] = value - 3 /\ P[2] = value - 2 /\ P[3] = value - 1
  BY <1>2, <1>3
<1>5. PICK c \in Int : c = max - 1 /\ value <= c + 1
  OBVIOUS
<1>6. Q \in Seq(Int) /\ Len(Q) = c - value + 1 /\ \A k \in 1..c - value + 1 : Q[k] = value + k - 1
  BY <1>1, <1>5, PagesType, Zenon
<1>7. Len(Q) = max - value /\ \A k \in 1..max - value : Q[k] = value + k - 1
  BY <1>5, <1>6
<1>8. PICK s, h : s = <<Previous, Dots>> /\ h = s \o P
  OBVIOUS
<1>9. s \in Seq(Int) /\ Len(s) = 2 /\ s[1] = Previous /\ s[2] = Dots
  BY <1>8 DEF Previous, Dots
<1>10. /\ s \o P \in Seq(Int) /\ Len(s \o P) = Len(s) + Len(P)
       /\ \A i \in 1..Len(s) + Len(P) : (s \o P)[i] = IF i <= Len(s) THEN s[i] ELSE P[i - Len(s)]
  BY <1>3, <1>9, ConcatProperties, Zenon
<1>11. /\ h \in Seq(Int) /\ Len(h) = 5 /\ h[1] = Previous /\ h[2] = Dots
       /\ h[3] = value - 3 /\ h[4] = value - 2 /\ h[5] = value - 1
  BY <1>4, <1>8, <1>9, <1>10
<1>12. PICK u : u = <<max, NextItem>>
  OBVIOUS
<1>13. u \in Seq(Int) /\ Len(u) = 2 /\ u[1] = max /\ u[2] = NextItem
  BY <1>12 DEF NextItem
<1>14. PICK f : f = its
  OBVIOUS
<1>15. f = h \o Q \o u
  BY <1>1, <1>8, <1>12, <1>14 DEF EndItems
<1>16. /\ f \in Seq(Int)
       /\ Len(f) = Len(h) + Len(Q) + Len(u)
       /\ \A i \in 1..Len(h) : f[i] = h[i]
       /\ \A i \in 1..Len(Q) : f[Len(h) + i] = Q[i]
       /\ \A i \in 1..Len(u) : f[Len(h) + Len(Q) + i] = u[i]
  <2>1. h \in Seq(Int) /\ Q \in Seq(Int) /\ u \in Seq(Int)
    BY <1>6, <1>11, <1>13
  <2>. QED BY <1>15, <2>1, Joined
<1>17. f[1] = Previous /\ f[2] = Dots
  BY <1>11, <1>16
<1>18. ASSUME NEW i \in 3..max - value + 6 PROVE f[i] = value + i - 6
  <2>1. CASE i \in 3..5
    <3>1. f[3] = value - 3 /\ f[4] = value - 2 /\ f[5] = value - 1
      <4>1. 3 \in 1..Len(h) /\ 4 \in 1..Len(h) /\ 5 \in 1..Len(h)
        BY <1>11
      <4>. QED BY <1>11, <1>16, <4>1, Zenon
    <3>. QED BY <2>1, <3>1
  <2>2. CASE i \in 6..max - value + 5
    <3>1. i - 5 \in 1..Len(Q) /\ Len(h) + (i - 5) = i
      BY <1>7, <1>11, <2>2
    <3>2. f[Len(h) + (i - 5)] = Q[i - 5]
      BY <1>16, <3>1, Zenon
    <3>. QED BY <1>7, <3>1, <3>2
  <2>3. CASE i = max - value + 6
    <3>1. 1 \in 1..Len(u) /\ Len(h) + Len(Q) + 1 = i
      BY <1>7, <1>11, <1>13, <2>3
    <3>2. f[Len(h) + Len(Q) + 1] = u[1]
      BY <1>16, <3>1, Zenon
    <3>. QED BY <1>13, <2>3, <3>1, <3>2
  <2>. QED BY <2>1, <2>2, <2>3
<1>19. f[max - value + 7] = NextItem
  <2>1. 2 \in 1..Len(u) /\ Len(h) + Len(Q) + 2 = max - value + 7
    BY <1>7, <1>11, <1>13
  <2>2. f[Len(h) + Len(Q) + 2] = u[2]
    BY <1>16, <2>1, Zenon
  <2>. QED BY <1>13, <2>1, <2>2
<1>20. Len(f) = max - value + 7
  BY <1>7, <1>11, <1>13, <1>16
<1>. QED BY <1>14, <1>16, <1>17, <1>18, <1>19, <1>20 DEF IsLast

-----------------------------------------------------------------------------
(* Type correctness.                                                       *)

(* A set of numbers has a smallest one. *)
LEMMA Smallest ==
  ASSUME NEW S \in SUBSET Nat, S # {}
  PROVE  \E i \in S : \A j \in S : i <= j
<1>. DEFINE R == OpToRel(<, Nat)
<1>1. IsWellFoundedOn(R, Nat)
  BY NatLessThanWellFounded
<1>. HIDE DEF R
<1>2. PICK i \in S : \A j \in S : <<j, i>> \notin R
  BY <1>1, WFMin
<1>3. \A j \in S : ~(j < i)
  BY <1>2 DEF R, OpToRel
<1>. QED BY <1>3

LEMMA ItemsType ==
  ASSUME NEW value \in Int, NEW max \in Int, items \in Seq(Int)
  PROVE  /\ FirstItems(max) \in Seq(Int)
         /\ ItemsFor(value, max) \in Seq(Int)
<1>. USE DEF Previous, NextItem, Dots
<1>2. FirstItems(max) \in Seq(Int)
  <2>1. Pages(1, 5) \in Seq(Int) /\ Pages(2, max) \in Seq(Int)
    BY DEF Pages
  <2>. QED BY <2>1 DEF FirstItems
<1>3. EndItems(value, max) \in Seq(Int)
  <2>1. Pages(value - 3, value - 1) \in Seq(Int) /\ Pages(value, max - 1) \in Seq(Int)
    BY DEF Pages
  <2>. QED BY <2>1 DEF EndItems
<1>4. MiddleItems(value, max) \in Seq(Int)
  <2>1. Pages(value - 2, value + 1) \in Seq(Int)
    BY DEF Pages
  <2>. QED BY <2>1 DEF MiddleItems
<1>. QED BY <1>2, <1>3, <1>4 DEF ItemsFor

LEMMA WantedType ==
  ASSUME TypeInv, NEW i \in DOMAIN items
  PROVE  Wanted(i) \in Int
<1>1. ASSUME NEW places \in SUBSET DOMAIN items PROVE FirstValue(places) \in Int
  <2>1. DOMAIN items \subseteq Nat /\ \A j \in DOMAIN items : items[j] \in Int
    BY DEF TypeInv
  <2>2. places # {} => (CHOOSE k \in places : \A j \in places : k <= j) \in places
    BY <2>1, Smallest
  <2>. QED BY <2>1, <2>2 DEF FirstValue, NaN
<1>2. items[i] \in Int
  BY DEF TypeInv
<1>. QED BY <1>1, <1>2 DEF Wanted, Beside

(* A list that is shown, and what is marked in it. *)
LEMMA ShowType ==
  ASSUME NEW result \in Result, Show(result)
  PROVE  /\ list' \in Result
         /\ text' \in [list'.tokens -> Texts]
         /\ marked' \subseteq list'.tokens
BY DEF Show, Texts, Result

LEMMA InitType == Init => TypeInv
<1>. SUFFICES ASSUME Init PROVE TypeInv
  OBVIOUS
<1>. USE DEF Init
<1>1. list \in Result
  BY SearchType
<1>2. MaxPages \in Int
  BY <1>1, PagesForType DEF MaxPages, Result
<1>3. items \in Seq(Int)
  <2>1. <<>> \in Seq(Int)
    OBVIOUS
  <2>2. Pages(1, 5) \in Seq(Int) /\ Pages(2, MaxPages) \in Seq(Int)
    BY <1>2 DEF Pages
  <2>. QED BY <1>2, <2>2 DEF FirstItems, Previous, NextItem, Dots
<1>4. list.tokens \subseteq Match /\ active \subseteq DOMAIN items
  BY <1>1 DEF Result, PlacesOf
<1>5. corrected \in [Match -> Texts \cup {None}] /\ text \in [list.tokens -> Texts]
  BY DEF Texts
<1>6. /\ marked = list.tokens /\ closed = FALSE /\ left = [n \in Click |-> 0]
      /\ pending = {} /\ answered = <<>> /\ clicks = 0 /\ meant = {} /\ races = {}
  BY Zenon
<1>7. left \in [Click -> Int]
  BY <1>6
<1>8. TypeOK
  <2>1. closed \in BOOLEAN
    BY <1>6, Zenon
  <2>. QED BY <1>1, <1>4, <1>5, <1>6, <1>7, <2>1, Zenon DEF TypeOK
<1>9. answered \in Seq(Answers)
  BY <1>6, EmptySeq
<1>. QED BY <1>3, <1>6, <1>8, <1>9 DEF TypeInv

(* The user's requests. *)
LEMMA ClicksType ==
  ASSUME TypeInv, NEW requests, Clicks(requests),
         \A r \in requests : clicks + 1 \in Click => r \in Requests
  PROVE  /\ pending' \subseteq Requests /\ clicks' \in Nat /\ clicks' \in Click
         /\ UNCHANGED <<corrected, failures, edits, answered>>
<1>1. clicks + 1 \in Click /\ clicks' = clicks + 1
  BY ConcordanceAssumption DEF Clicks, TypeInv, Click
<1>. QED BY <1>1 DEF Clicks, TypeInv, serverVars

LEMMA UserType ==
  ASSUME TypeInv, UserStep
  PROVE  TypeInv'
<1>0. /\ list \in Result /\ list.tokens \subseteq Match /\ marked \subseteq list.tokens
      /\ \A t \in list.tokens : text[t] \in Texts
      /\ clicks \in Nat
  BY DEF TypeInv, TypeOK, Result
<1>1. ASSUME NEW i \in DOMAIN items, Paginate(i) PROVE TypeInv'
  <2>1. PICK page \in Int : page = Wanted(i)
    BY WantedType
  <2>2. MaxPages \in Int
    BY <1>0, PagesForType DEF MaxPages, Result
  <2>3. clicks + 1 \in Click => PageSearch(clicks + 1, page) \in Requests
    BY DEF PageSearch, Request, Requests, Searches, Texts
  <2>4. Clicks({PageSearch(clicks + 1, page)}) /\ ShowItems(ItemsFor(page, MaxPages), page)
        /\ UNCHANGED <<list, text, marked, closed, left, meant, races>>
    BY <1>1, <2>1 DEF Paginate
  <2>5. /\ pending' \subseteq Requests /\ clicks' \in Nat
        /\ UNCHANGED <<corrected, failures, edits, answered>>
    BY <2>3, <2>4, ClicksType
  <2>6. items' \in Seq(Int) /\ active' \subseteq DOMAIN items'
    BY <2>2, <2>4, ItemsType DEF ShowItems, PlacesOf, TypeInv
  <2>. QED BY <2>4, <2>5, <2>6 DEF TypeInv, TypeOK, Requests
<1>2. CASE CorrectSelected
  <2>. DEFINE rs == {Correction(clicks + 1, t) : t \in Sent}
  <2>1. \A r \in rs : clicks + 1 \in Click => r \in Requests
    BY <1>0 DEF Sent, Correction, Request, Requests
  <2>2. /\ Clicks(rs) /\ left' = [left EXCEPT ![clicks'] = Cardinality(marked)]
        /\ meant' = meant \cup marked /\ UNCHANGED <<viewVars, races>>
    BY <1>2 DEF CorrectSelected
  <2>. HIDE DEF rs
  <2>3. /\ pending' \subseteq Requests /\ clicks' \in Nat /\ clicks' \in Click
        /\ UNCHANGED <<corrected, failures, edits, answered>>
    BY <2>1, <2>2, ClicksType
  <2>4. Cardinality(marked) \in Int
    <3>1. IsFiniteSet(marked)
      BY <1>0, ConcordanceAssumption, FS_Subset
    <3>. QED BY <3>1, FS_CardinalityType
  <2>. QED BY <1>0, <2>2, <2>3, <2>4 DEF TypeInv, TypeOK, viewVars, Requests
<1>3. ASSUME NEW t \in list.tokens, CorrectOne(t) PROVE TypeInv'
  <2>1. \A r \in {Correction(clicks + 1, t)} : clicks + 1 \in Click => r \in Requests
    BY <1>0 DEF Correction, Request, Requests
  <2>2. /\ Clicks({Correction(clicks + 1, t)}) /\ left' = [left EXCEPT ![clicks'] = 1]
        /\ meant' = meant \cup {t} /\ UNCHANGED <<viewVars, races>>
    BY <1>3 DEF CorrectOne
  <2>3. /\ pending' \subseteq Requests /\ clicks' \in Nat /\ clicks' \in Click
        /\ UNCHANGED <<corrected, failures, edits, answered>>
    BY <2>1, <2>2, ClicksType
  <2>. QED BY <1>0, <2>2, <2>3 DEF TypeInv, TypeOK, viewVars, Requests
\* What the user writes and marks.
<1>4. ASSUME NEW x \in [list.tokens -> Texts], NEW m \in SUBSET list.tokens, Edit(x, m)
      PROVE  TypeInv'
  BY <1>4 DEF Edit, TypeInv, TypeOK, serverVars
<1>5. CASE ToggleSelection \/ \E t \in list.tokens : CorChecked(t)
  BY <1>0, <1>4, <1>5 DEF ToggleSelection, CorChecked, TypeInv, TypeOK
<1>6. ASSUME NEW t \in list.tokens, NEW x \in Text, Write(t, x) PROVE TypeInv'
  <2>1. [text EXCEPT ![t] = x] \in [list.tokens -> Texts]
    BY DEF TypeInv, TypeOK, Texts
  <2>. QED BY <1>0, <1>4, <1>6, <2>1 DEF Write
<1>7. ASSUME NEW x \in Texts, SetCorrection(x) PROVE TypeInv'
  <2>1. [t \in list.tokens |-> IF t \in marked THEN x ELSE text[t]] \in [list.tokens -> Texts]
    BY <1>0
  <2>. QED BY <1>0, <1>4, <1>7, <2>1 DEF SetCorrection
<1>8. CASE Close
  BY <1>8 DEF Close, TypeInv, TypeOK, serverVars, bounds
<1>. QED BY <1>1, <1>2, <1>3, <1>5, <1>6, <1>7, <1>8 DEF UserStep

LEMMA ServerType ==
  ASSUME TypeInv, Serve \/ Mishap
  PROVE  TypeInv'
\* An answer is added.
<1>0. ASSUME NEW r \in pending, NEW status \in {"ok", "failed"}, NEW result \in Result,
             Reply(r, status, result), corrected' \in [Match -> Texts \cup {None}],
             races' \subseteq Races
      PROVE  TypeInv'
  <2>1. Answer(r, status, result) \in Answers
    BY DEF Answer, Answers, TypeInv
  <2>2. answered' \in Seq(Answers) /\ pending' \subseteq pending
    BY <1>0, <2>1 DEF Reply, TypeInv
  <2>. QED BY <1>0, <2>2 DEF Reply, TypeInv, TypeOK, viewVars, bounds
<1>1. NoResult \in Result
  BY ConcordanceAssumption, FS_CardinalityType DEF NoResult, Result
<1>2. ASSUME NEW r \in pending PROVE [corrected EXCEPT ![r.token] = r.text] \in [Match -> Texts \cup {None}]
  BY DEF TypeInv, TypeOK, Requests
<1>3. ASSUME NEW r \in pending, ServeCorrection(r) PROVE TypeInv'
  BY <1>0, <1>1, <1>2, <1>3 DEF ServeCorrection, TypeInv, TypeOK
<1>4. ASSUME NEW r \in pending, ServeSearch(r) PROVE TypeInv'
  <2>1. SkipFor(r.page) \in Int
    BY ConcordanceAssumption DEF SkipFor, TypeInv, Requests
  <2>2. Search(SkipFor(r.page)) \in Result
    BY <2>1, SearchType
  <2>3. corrected' = corrected /\ races' \subseteq Races
    BY <1>4 DEF ServeSearch, TypeInv, TypeOK, Races, serverVars
  <2>. QED BY <1>0, <1>4, <2>2, <2>3 DEF ServeSearch, TypeInv, TypeOK
<1>5. ASSUME NEW r \in pending, Fail(r) PROVE TypeInv'
  <2>1. corrected' \in [Match -> Texts \cup {None}] /\ races' \subseteq Races
    BY <1>2, <1>5 DEF Fail, TypeInv, TypeOK, Races
  <2>. QED BY <1>0, <1>1, <1>5, <2>1 DEF Fail
<1>. QED BY <1>3, <1>4, <1>5 DEF Serve, Mishap

(* An answer that is taken leaves the others. *)
LEMMA WithoutType ==
  ASSUME NEW S, NEW s \in Seq(S), NEW i \in DOMAIN s
  PROVE  Without(s, i) \in Seq(S) /\ s[i] \in S
<1>1. i \in 1..Len(s) /\ Len(s) \in Nat
  BY LenProperties
<1>2. SubSeq(s, 1, i - 1) \in Seq(S)
  BY <1>1, SubSeqProperties, ElementOfSeq
<1>3. SubSeq(s, i + 1, Len(s)) \in Seq(S)
  BY <1>1, SubSeqProperties, ElementOfSeq
<1>. QED BY <1>1, <1>2, <1>3, ConcatProperties, ElementOfSeq DEF Without

LEMMA ReceiveType ==
  ASSUME TypeInv, Receive
  PROVE  TypeInv'
<1>1. PICK i \in DOMAIN answered :
        TokenCorrected(i) \/ PageFound(i) \/ Refreshed(i) \/ Failed(i)
  BY DEF Receive
<1>2. Without(answered, i) \in Seq(Answers) /\ answered[i] \in Answers
  BY WithoutType DEF TypeInv
<1>. USE <1>2
<1>3. CASE TokenCorrected(i)
  <2>1. answered[i].req \in Requests
    BY DEF Answers
  <2>2. /\ left' = [left EXCEPT ![answered[i].req.n] = @ - 1]
        /\ pending' \subseteq pending \cup {Refresh(answered[i].req.n)}
    BY <1>3 DEF TokenCorrected, Done
  <2>3. Refresh(answered[i].req.n) \in Requests
    BY <2>1 DEF Refresh, Request, Requests, Searches, Texts
  <2>. QED BY <1>3, <2>1, <2>2, <2>3
       DEF TokenCorrected, Take, TypeInv, TypeOK, viewVars, serverVars, bounds, Requests
<1>4. CASE PageFound(i)
  <2>1. answered[i].result \in Result
    BY DEF Answers
  <2>2. list' \in Result /\ text' \in [list'.tokens -> Texts] /\ marked' \subseteq list'.tokens
    BY <1>4, <2>1, ShowType DEF PageFound
  <2>3. races' \subseteq Races
    BY <1>4 DEF PageFound, Overtaking, Races, TypeInv, TypeOK
  <2>. QED BY <1>4, <2>2, <2>3 DEF PageFound, Take, TypeInv, TypeOK, serverVars, bounds
<1>5. CASE Refreshed(i)
  <2>1. answered[i].result \in Result
    BY DEF Answers
  <2>2. races' \subseteq Races
    BY <1>5 DEF Refreshed, Overtaking, Races, TypeInv, TypeOK
  <2>3. /\ UNCHANGED <<left, pending, corrected, clicks, meant>>
        /\ answered' \in Seq(Answers)
    BY <1>5 DEF Refreshed, Take, serverVars, bounds
  <2>4. CASE answered[i].result.total = 0
    BY <1>5, <2>2, <2>3, <2>4 DEF Refreshed, TypeInv, TypeOK
  <2>5. CASE answered[i].result.total # 0
    <3>1. /\ Show(answered[i].result) /\ closed' = closed
          /\ ShowItems(FirstItems(PagesFor(answered[i].result.total)), 1)
      BY <1>5, <2>5 DEF Refreshed
    <3>2. list' \in Result /\ text' \in [list'.tokens -> Texts] /\ marked' \subseteq list'.tokens
      BY <2>1, <3>1, ShowType
    <3>3. PagesFor(answered[i].result.total) \in Int
      BY <2>1, PagesForType DEF Result
    <3>4. items' \in Seq(Int) /\ active' \subseteq DOMAIN items'
      BY <3>1, <3>3, ItemsType DEF ShowItems, PlacesOf, TypeInv
    <3>. QED BY <2>2, <2>3, <3>1, <3>2, <3>4 DEF TypeInv, TypeOK
  <2>. QED BY <2>4, <2>5
<1>6. CASE Failed(i)
  BY <1>6 DEF Failed, Take, TypeInv, TypeOK, viewVars, serverVars, bounds
<1>. QED BY <1>1, <1>3, <1>4, <1>5, <1>6

LEMMA StepType ==
  ASSUME TypeInv, [Next]_vars
  PROVE  TypeInv'
<1>1. CASE UNCHANGED vars
  BY <1>1 DEF vars, viewVars, serverVars, bounds, TypeInv, TypeOK
<1>. QED BY <1>1, UserType, ServerType, ReceiveType DEF Next

(* The variables keep their types, and the items are numbers. *)
LEMMA AlwaysTyped == Spec => []TypeInv
BY InitType, StepType, PTL DEF Spec

(* The variables keep their types (the state of the dialog, show_view.js). *)
THEOREM ConcordanceTyped == Spec => []TypeOK
<1>1. TypeInv => TypeOK
  BY DEF TypeInv
<1>. QED BY <1>1, AlwaysTyped, PTL

-----------------------------------------------------------------------------
(* What is corrected.                                                       *)

\* A correction that is sent is of a token in a line that was meant.
SentInv == \A r \in pending : r.op = "correct" => SharesLine(r.token, meant)

CorrectionInv == CorrectedSharesLine /\ SentInv

(* What was meant remains so. *)
LEMMA SharesMore ==
  ASSUME NEW t, NEW S, NEW T, S \subseteq T, SharesLine(t, S)
  PROVE  SharesLine(t, T)
BY DEF SharesLine

LEMMA StepCorrection ==
  ASSUME TypeInv, CorrectionInv, [Next]_vars
  PROVE  CorrectionInv'
<1>. USE DEF CorrectionInv, SentInv, CorrectedSharesLine
<1>t. /\ corrected \in [Match -> Texts \cup {None}]
      /\ \A r \in pending : r.op = "correct" => r.token \in Match \cup {0}
  BY DEF TypeInv, TypeOK, Requests
\* Nothing is corrected, and nothing is sent or what is meant.
<1>0. ASSUME corrected' = corrected, meant \subseteq meant',
             \A r \in pending' : r \in pending \/ (r.op = "correct" => SharesLine(r.token, meant'))
      PROVE  CorrectionInv'
  BY <1>0, SharesMore
\* A correction that was sent is made.
<1>1. ASSUME NEW r \in pending, r.op = "correct", meant' = meant, pending' \subseteq pending,
             corrected' = [corrected EXCEPT ![r.token] = r.text]
      PROVE  CorrectionInv'
  BY <1>t, <1>1
<1>2. ASSUME NEW i \in DOMAIN items, Paginate(i) PROVE CorrectionInv'
  BY <1>2, <1>0 DEF Paginate, Clicks, serverVars, PageSearch, Request
<1>3. CASE CorrectSelected
  <2>1. /\ pending' = pending \cup {Correction(clicks + 1, t) : t \in Sent}
        /\ meant' = meant \cup marked /\ corrected' = corrected
    BY <1>3 DEF CorrectSelected, Clicks, serverVars
  <2>2. \A t \in Sent : SharesLine(t, meant')
    BY <2>1, SharesMore DEF Sent
  <2>3. \A t \in Sent : Correction(clicks + 1, t).token = t
    BY DEF Correction, Request
  <2>4. ASSUME NEW r \in pending', r \notin pending PROVE SharesLine(r.token, meant')
    <3>1. PICK t \in Sent : r = Correction(clicks + 1, t)
      BY <2>1, <2>4
    <3>. QED BY <2>2, <2>3, <3>1, Zenon
  <2>. QED BY <1>0, <2>1, <2>4
<1>4. ASSUME NEW t \in list.tokens, CorrectOne(t) PROVE CorrectionInv'
  <2>1. /\ pending' = pending \cup {Correction(clicks + 1, t)}
        /\ meant' = meant \cup {t} /\ corrected' = corrected
    BY <1>4 DEF CorrectOne, Clicks, serverVars
  <2>2. SharesLine(t, meant')
    BY <2>1 DEF SharesLine
  <2>3. Correction(clicks + 1, t).token = t
    BY DEF Correction, Request
  <2>. QED BY <1>0, <2>1, <2>2, <2>3
<1>5. ASSUME NEW t \in list.tokens, CorChecked(t) \/ \E x \in Text : Write(t, x)
      PROVE  CorrectionInv'
  BY <1>5, <1>0 DEF CorChecked, Write, Edit, serverVars
<1>6. CASE ToggleSelection \/ Close \/ \E x \in Texts : SetCorrection(x)
  BY <1>6, <1>0 DEF ToggleSelection, Close, SetCorrection, Edit, serverVars
<1>7. ASSUME NEW r \in pending, ServeCorrection(r) PROVE CorrectionInv'
  BY <1>7, <1>1 DEF ServeCorrection, Reply
<1>8. ASSUME NEW r \in pending, ServeSearch(r) PROVE CorrectionInv'
  BY <1>8, <1>0 DEF ServeSearch, Reply, serverVars
<1>9. ASSUME NEW r \in pending, Fail(r) PROVE CorrectionInv'
  BY <1>9, <1>0, <1>1 DEF Fail, Reply
<1>10. ASSUME NEW i \in DOMAIN answered, TokenCorrected(i) PROVE CorrectionInv'
  BY <1>10, <1>0 DEF TokenCorrected, Take, Done, serverVars, Refresh, Request
<1>11. ASSUME NEW i \in DOMAIN answered, PageFound(i) \/ Refreshed(i) \/ Failed(i)
       PROVE  CorrectionInv'
  BY <1>11, <1>0 DEF PageFound, Refreshed, Failed, Take, serverVars
<1>12. CASE UNCHANGED vars
  BY <1>12, <1>0 DEF vars, serverVars
<1>. QED
  BY <1>2, <1>3, <1>4, <1>5, <1>6, <1>7, <1>8, <1>9, <1>10, <1>11, <1>12
     DEF Next, UserStep, Serve, Mishap, Receive

(* Only tokens that were marked, or share a line with a marked one, are ever *)
(* corrected, whatever fails or is overtaken.                                *)
THEOREM OnlyMeantLinesCorrected == Spec => []CorrectedSharesLine
<1>1. Init => CorrectionInv
  BY DEF Init, CorrectionInv, SentInv, CorrectedSharesLine
<1>2. CorrectionInv => CorrectedSharesLine
  BY DEF CorrectionInv
<1>. QED BY <1>1, <1>2, StepCorrection, AlwaysTyped, PTL DEF Spec

-----------------------------------------------------------------------------
(* The pages that are asked for.                                            *)

(* The items are those for page v of max pages.  With six pages, "..." can  *)
(* be active.                                                               *)
LaidOut(v, max, its) ==
  \/ /\ its = FirstItems(max)
     /\ max <= 5 => v \in 1..max
     /\ max > 5 => v \in 1..4 \/ (max = 6 /\ v \in {5, Dots})
  \/ its = MiddleItems(v, max) /\ 5 <= v /\ v < max - 1
  \/ its = EndItems(v, max) /\ v > 5 /\ v <= max /\ v + 3 >= max

PagesInv ==
  "resized" \notin races =>
    /\ MaxPages >= 1
    /\ \E v \in Int : active = PlacesOf(v, items) /\ LaidOut(v, MaxPages, items)

\* A page of the list, or the case that is wrong.
Exists(page, max) == page \in 1..max \/ (page = Dots /\ max = 6)

(* In every layout one item is active, and what is beside it is a page, or  *)
(* the end of the list; every item is a page or one of the three others.    *)
OneIsActive(v, max, its) ==
  /\ \E x \in 2..Len(its) - 1 :
       /\ PlacesOf(v, its) = {x}
       /\ x + 1 = Len(its) \/ Exists(its[x + 1], max)
       /\ x - 1 = 1 \/ Exists(its[x - 1], max)
  /\ \A i \in DOMAIN its : its[i] \in {Previous, NextItem, Dots} \cup 1..max

(* To show this, it is enough to know the place. *)
LEMMA ActivePlace ==
  ASSUME NEW v \in Int, NEW max \in Nat, NEW its \in Seq(Int), NEW x \in 2..Len(its) - 1,
         its[x] = v,
         \A i \in 1..Len(its) : its[i] = v => i = x,
         x + 1 = Len(its) \/ Exists(its[x + 1], max),
         x - 1 = 1 \/ Exists(its[x - 1], max),
         \A i \in 1..Len(its) : its[i] \in {Previous, NextItem, Dots} \cup 1..max
  PROVE  OneIsActive(v, max, its)
<1>1. DOMAIN its = 1..Len(its) /\ Len(its) \in Nat /\ x \in 1..Len(its)
  OBVIOUS
<1>2. PlacesOf(v, its) = {x}
  BY <1>1 DEF PlacesOf
<1>. QED BY <1>1, <1>2 DEF OneIsActive

LEMMA ActiveFew ==
  ASSUME NEW max \in 1..5, NEW v \in 1..max, NEW its, its = FirstItems(max)
  PROVE  OneIsActive(v, max, its)
<1>. USE DEF Previous, NextItem, Dots, Exists
<1>1. /\ its \in Seq(Int)
      /\ Len(its) = max + 2
      /\ its[1] = Previous
      /\ \A i \in 2..max + 1 : its[i] = i - 1
      /\ its[max + 2] = NextItem
  BY FewItems, Zenon
<1>2. PICK x \in 2..Len(its) - 1 : x = v + 1
  BY <1>1
<1>3. its[x] = v /\ \A i \in 1..Len(its) : its[i] = v => i = x
  <2>1. x \in 2..max + 1 /\ \A i \in 1..Len(its) : i \in 2..max + 1 \/ i \in {1, max + 2}
    BY <1>1, <1>2
  <2>2. its[x] = v
    BY <1>1, <1>2, <2>1
  <2>3. its[1] # v /\ its[max + 2] # v
    BY <1>1
  <2>4. \A i \in 2..max + 1 : its[i] = v => i = x
    BY <1>1, <1>2
  <2>. QED BY <2>1, <2>2, <2>3, <2>4
<1>4. x + 1 = Len(its) \/ Exists(its[x + 1], max)
  BY <1>1, <1>2
<1>5. x - 1 = 1 \/ Exists(its[x - 1], max)
  BY <1>1, <1>2
<1>6. \A i \in 1..Len(its) : its[i] \in {Previous, NextItem, Dots} \cup 1..max
  BY <1>1
<1>7. max \in Nat /\ v \in Int
  OBVIOUS
<1>. HIDE DEF Previous, NextItem, Dots, Exists
<1>. QED BY <1>1, <1>3, <1>4, <1>5, <1>6, <1>7, ActivePlace

LEMMA ActiveMany ==
  ASSUME NEW max \in Nat, max > 5, NEW v \in Int, v \in 1..4 \/ (max = 6 /\ v \in {5, Dots}),
         NEW its, its = FirstItems(max)
  PROVE  OneIsActive(v, max, its)
<1>0. IsMany(its, max)
  BY ManyItems, Zenon
<1>1. /\ its \in Seq(Int)
      /\ Len(its) = 9
      /\ its[1] = Previous
      /\ \A i \in 2..6 : its[i] = i - 1
      /\ its[7] = Dots
      /\ its[8] = max
      /\ its[9] = NextItem
  BY <1>0 DEF IsMany
<1>. USE DEF Previous, NextItem, Dots, Exists
<1>2. PICK x \in 2..Len(its) - 1 : x = IF v = Dots THEN 7 ELSE v + 1
  BY <1>1
<1>3. \A i \in 1..9 : i \in 2..6 \/ i \in {1, 7, 8, 9}
  OBVIOUS
<1>4. its[x] = v /\ \A i \in 1..Len(its) : its[i] = v => i = x
  <2>1. its[x] = v
    BY <1>1, <1>2
  <2>2. its[1] # v /\ its[8] # v /\ its[9] # v /\ (its[7] = v => x = 7)
    BY <1>1, <1>2
  <2>3. \A i \in 2..6 : its[i] = v => i = x
    BY <1>1, <1>2
  <2>. QED BY <1>1, <1>3, <2>1, <2>2, <2>3
<1>5. Exists(its[x + 1], max)
  <2>1. CASE v \in 1..4
    <3>1. x + 1 \in 2..6 /\ x + 1 - 1 \in 1..max
      BY <1>2, <2>1
    <3>2. its[x + 1] = x + 1 - 1
      BY <1>1, <3>1
    <3>. QED BY <3>1, <3>2
  <2>2. CASE max = 6 /\ v = 5
    <3>1. x + 1 = 7
      BY <1>2, <2>2
    <3>. QED BY <1>1, <2>2, <3>1
  <2>3. CASE max = 6 /\ v = Dots
    <3>1. x + 1 = 8
      BY <1>2, <2>3
    <3>. QED BY <1>1, <2>3, <3>1
  <2>. QED BY <2>1, <2>2, <2>3
<1>6. x - 1 = 1 \/ Exists(its[x - 1], max)
  <2>1. x - 1 = 1 \/ x - 1 \in 2..6
    BY <1>2
  <2>2. \A i \in 2..6 : its[i] \in 1..max
    BY <1>1
  <2>. QED BY <2>1, <2>2
<1>7. \A i \in 1..Len(its) : its[i] \in {Previous, NextItem, Dots} \cup 1..max
  <2>1. \A i \in 2..6 : its[i] \in 1..max
    BY <1>1
  <2>. QED BY <1>1, <1>3, <2>1
<1>8. x + 1 = Len(its) \/ Exists(its[x + 1], max)
  BY <1>5
<1>. HIDE DEF Previous, NextItem, Dots, Exists
<1>. QED BY <1>1, <1>4, <1>6, <1>7, <1>8, ActivePlace

LEMMA ActiveMiddle ==
  ASSUME NEW max \in Nat, NEW v \in Int, 5 <= v, v < max - 1,
         NEW its, its = MiddleItems(v, max)
  PROVE  OneIsActive(v, max, its)
<1>0. IsMiddle(its, v, max)
  <2>1. max \in Int
    OBVIOUS
  <2>. QED BY <2>1, MidItems, Zenon
<1>1. /\ its \in Seq(Int)
      /\ Len(its) = 10
      /\ its[1] = Previous
      /\ its[2] = 1
      /\ its[3] = Dots
      /\ \A i \in 4..7 : its[i] = v + i - 6
      /\ its[8] = Dots
      /\ its[9] = max
      /\ its[10] = NextItem
  BY <1>0 DEF IsMiddle
<1>. USE DEF Previous, NextItem, Dots, Exists
<1>2. its[4] = v - 2 /\ its[5] = v - 1 /\ its[6] = v /\ its[7] = v + 1
  BY <1>1
<1>3. \A i \in 1..10 : i \in {1, 2, 3, 4, 5, 6, 7, 8, 9, 10}
  OBVIOUS
<1>4. \A i \in 1..Len(its) : its[i] = v => i = 6
  BY <1>1, <1>2, <1>3
<1>5. Exists(its[7], max) /\ Exists(its[5], max)
  BY <1>2
<1>6. \A i \in 1..Len(its) : its[i] \in {Previous, NextItem, Dots} \cup 1..max
  <2>1. {its[2], its[4], its[5], its[6], its[7], its[9]} \subseteq 1..max
    BY <1>1, <1>2
  <2>. QED BY <1>1, <1>3, <2>1
<1>7. PICK x \in 2..Len(its) - 1 : x = 6
  BY <1>1
<1>8. its[x] = v /\ Exists(its[x + 1], max) /\ Exists(its[x - 1], max)
  BY <1>2, <1>5, <1>7
<1>. HIDE DEF Previous, NextItem, Dots, Exists
<1>. QED BY <1>1, <1>4, <1>6, <1>7, <1>8, ActivePlace

LEMMA ActiveLast ==
  ASSUME NEW max \in Nat, NEW v \in Int, v > 5, v <= max,
         NEW its, its = EndItems(v, max)
  PROVE  OneIsActive(v, max, its)
<1>0. IsLast(its, v, max)
  <2>1. max \in Int
    OBVIOUS
  <2>. QED BY <2>1, LastItems, Zenon
<1>1. /\ its \in Seq(Int)
      /\ Len(its) = max - v + 7
      /\ its[1] = Previous
      /\ its[2] = Dots
      /\ \A i \in 3..max - v + 6 : its[i] = v + i - 6
      /\ its[max - v + 7] = NextItem
  BY <1>0 DEF IsLast
<1>. USE DEF Previous, NextItem, Dots, Exists
<1>2. \A i \in 1..Len(its) : i \in 3..max - v + 6 \/ i \in {1, 2, max - v + 7}
  BY <1>1
<1>3. \A i \in 1..Len(its) : its[i] = v => i = 6
  BY <1>1, <1>2
<1>4. its[5] = v - 1 /\ its[6] = v /\ (v < max => its[7] = v + 1)
  BY <1>1
<1>5. Exists(its[5], max) /\ (7 = Len(its) \/ Exists(its[7], max))
  <2>1. its[5] \in 1..max
    BY <1>4
  <2>2. CASE v = max
    BY <1>1, <2>1, <2>2
  <2>3. CASE v < max
    <3>1. its[7] \in 1..max
      BY <1>4, <2>3
    <3>. QED BY <2>1, <3>1
  <2>. QED BY <2>2, <2>3
<1>6. \A i \in 1..Len(its) : its[i] \in {Previous, NextItem, Dots} \cup 1..max
  <2>1. \A i \in 3..max - v + 6 : its[i] \in 1..max
    BY <1>1
  <2>. QED BY <1>1, <1>2, <2>1
<1>7. PICK x \in 2..Len(its) - 1 : x = 6
  BY <1>1
<1>8. its[x] = v /\ (x + 1 = Len(its) \/ Exists(its[x + 1], max)) /\ Exists(its[x - 1], max)
  BY <1>4, <1>5, <1>7
<1>. HIDE DEF Previous, NextItem, Dots, Exists
<1>. QED BY <1>1, <1>3, <1>6, <1>7, <1>8, ActivePlace

LEMMA OneActive ==
  ASSUME NEW max \in Nat, max >= 1, NEW v \in Int, NEW its, LaidOut(v, max, its)
  PROVE  OneIsActive(v, max, its)
<1>1. CASE its = FirstItems(max) /\ max <= 5
  BY <1>1, ActiveFew, ActiveMiddle, ActiveLast DEF LaidOut
<1>2. CASE its = FirstItems(max) /\ max > 5 /\ (v \in 1..4 \/ (max = 6 /\ v \in {5, Dots}))
  BY <1>2, ActiveMany
<1>3. CASE its = MiddleItems(v, max) /\ 5 <= v /\ v < max - 1
  BY <1>3, ActiveMiddle
<1>4. CASE its = EndItems(v, max) /\ v > 5 /\ v <= max
  BY <1>4, ActiveLast
<1>. QED BY <1>1, <1>2, <1>3, <1>4 DEF LaidOut

(* A click on an item that is one asks for a page that exists. *)
LEMMA WantedExists ==
  ASSUME TypeInv, NEW max \in Nat, max >= 1, NEW v \in Int,
         active = PlacesOf(v, items), LaidOut(v, max, items),
         NEW i \in DOMAIN items, ~NoPage(i)
  PROVE  Exists(Wanted(i), max)
<1>0. items \in Seq(Int) /\ DOMAIN items = 1..Len(items) /\ Len(items) \in Nat
  BY DEF TypeInv
<1>1. PICK x \in 2..Len(items) - 1 :
        /\ active = {x}
        /\ x + 1 = Len(items) \/ Exists(items[x + 1], max)
        /\ x - 1 = 1 \/ Exists(items[x - 1], max)
  BY OneActive DEF OneIsActive
<1>2. Beside(1) = {x + 1} /\ Beside(-1) = {x - 1}
  <2>1. x + 1 \in DOMAIN items /\ x + (-1) \in DOMAIN items /\ x + (-1) = x - 1
    BY <1>0
  <2>2. {j + 1 : j \in active} = {x + 1} /\ {j + (-1) : j \in active} = {x + (-1)}
    BY <1>1
  <2>. QED BY <2>1, <2>2 DEF Beside
<1>3. ASSUME NEW y \in Nat PROVE FirstValue({y}) = items[y]
  <2>1. (CHOOSE k \in {y} : \A j \in {y} : k <= j) = y
    OBVIOUS
  <2>. QED BY <2>1 DEF FirstValue
<1>4. FirstValue(Beside(1)) = items[x + 1] /\ FirstValue(Beside(-1)) = items[x - 1]
  <2>1. x + 1 \in Nat /\ x - 1 \in Nat
    BY <1>0
  <2>. QED BY <1>2, <1>3, <2>1
<1>5. items[i] \in {Previous, NextItem, Dots} \cup 1..max
  BY OneActive DEF OneIsActive
<1>6. CASE items[i] = NextItem
  <2>1. x + 1 # Len(items)
    BY <1>2, <1>6 DEF NoPage
  <2>2. Wanted(i) = items[x + 1]
    BY <1>4, <1>6 DEF Wanted, Previous, NextItem
  <2>. QED BY <1>1, <2>1, <2>2
<1>7. CASE items[i] = Previous
  <2>1. x - 1 # 1
    BY <1>2, <1>7 DEF NoPage
  <2>. QED BY <1>1, <1>4, <1>7, <2>1 DEF Wanted, Previous, NextItem
<1>8. CASE items[i] \in 1..max
  BY <1>8 DEF Wanted, Previous, NextItem, Exists
<1>. QED BY <1>5, <1>6, <1>7, <1>8 DEF NoPage

(* The items that a click lays out are those for the page it asks for. *)
LEMMA ItemsLaidOut ==
  ASSUME NEW max \in Nat, NEW v \in Int, LaidOut(v, max, items),
         NEW page \in Int, Exists(page, max)
  PROVE  LaidOut(page, max, ItemsFor(page, max))
<1>. USE DEF Exists, Dots, NaN
<1>1. CASE AtTheEnd(page, max)
  <2>1. ItemsFor(page, max) = EndItems(page, max)
    BY <1>1 DEF ItemsFor, AtTheEnd
  <2>. QED BY <1>1, <2>1 DEF AtTheEnd, LaidOut
<1>2. CASE ~AtTheEnd(page, max) /\ InTheMiddle(page, max)
  <2>1. ItemsFor(page, max) = MiddleItems(page, max)
    BY <1>2 DEF ItemsFor
  <2>. QED BY <1>2, <2>1 DEF InTheMiddle, LaidOut
<1>3. CASE ~AtTheEnd(page, max) /\ ~InTheMiddle(page, max) /\ page <= 5 /\ max > 5
  <2>1. ItemsFor(page, max) = FirstItems(max)
    BY <1>3 DEF ItemsFor
  <2>2. page \in 1..4 \/ (max = 6 /\ page \in {5, Dots})
    BY <1>3 DEF InTheMiddle
  <2>. QED BY <1>3, <2>1, <2>2 DEF LaidOut
<1>4. CASE ~AtTheEnd(page, max) /\ ~InTheMiddle(page, max) /\ ~(page <= 5 /\ max > 5)
  <2>1. max <= 5
    BY <1>4 DEF AtTheEnd, InTheMiddle
  <2>2. items = FirstItems(max)
    BY <2>1 DEF LaidOut
  <2>3. ItemsFor(page, max) = items
    BY <1>4 DEF ItemsFor
  <2>. QED BY <2>1, <2>2, <2>3 DEF LaidOut
<1>. QED BY <1>1, <1>2, <1>3, <1>4

(* The first page of a list. *)
LEMMA FirstLaidOut ==
  ASSUME NEW max \in Nat, max >= 1
  PROVE  LaidOut(1, max, FirstItems(max))
BY DEF LaidOut

LEMMA InitPages == Init => PagesInv
<1>. SUFFICES ASSUME Init PROVE PagesInv
  OBVIOUS
<1>1. TypeInv
  BY InitType
<1>2. MaxPages \in Nat /\ MaxPages >= 1
  <2>1. list.total = Cardinality(Match) /\ Uncorrected = Match
    BY DEF Init, Search, Uncorrected
  <2>2. Cardinality(Match) \in Nat /\ Cardinality(Match) # 0
    BY ConcordanceAssumption, FS_CardinalityType, FS_EmptySet
  <2>. QED BY <2>1, <2>2, PagesForType DEF MaxPages
<1>3. items = FirstItems(MaxPages) /\ active = PlacesOf(1, items)
  BY Zenon DEF Init
<1>. QED BY <1>2, <1>3, FirstLaidOut DEF PagesInv

LEMMA StepPages ==
  ASSUME TypeInv, PagesInv, [Next]_vars
  PROVE  PagesInv'
<1>t. MaxPages \in Nat
  BY PagesForType DEF TypeInv, TypeOK, Result, MaxPages
<1>0. ASSUME MaxPages' = MaxPages, items' = items, active' = active, races \subseteq races'
      PROVE  PagesInv'
  BY <1>0 DEF PagesInv
<1>1. ASSUME NEW i \in DOMAIN items, Paginate(i) PROVE PagesInv'
  <2>1. /\ ~NoPage(i) /\ races' = races /\ list' = list
        /\ items' = ItemsFor(Wanted(i), MaxPages) /\ active' = PlacesOf(Wanted(i), items')
    BY <1>1 DEF Paginate, ShowItems
  <2>2. MaxPages' = MaxPages
    BY <2>1 DEF MaxPages
  <2>. SUFFICES ASSUME "resized" \notin races PROVE PagesInv'
    BY <2>1 DEF PagesInv
  <2>3. PICK v \in Int : active = PlacesOf(v, items) /\ LaidOut(v, MaxPages, items)
    BY DEF PagesInv
  <2>4. MaxPages >= 1
    BY DEF PagesInv
  <2>5. PICK page \in Int, max \in Nat : page = Wanted(i) /\ max = MaxPages
    BY <1>t, WantedType
  <2>6. Exists(page, max)
    BY <2>1, <2>3, <2>4, <2>5, WantedExists
  <2>7. LaidOut(page, max, items')
    BY <2>1, <2>3, <2>5, <2>6, ItemsLaidOut
  <2>. QED BY <2>1, <2>2, <2>4, <2>5, <2>7 DEF PagesInv
<1>2. ASSUME NEW i \in DOMAIN answered, PageFound(i) PROVE PagesInv'
  <2>1. list' = answered[i].result /\ items' = items /\ active' = active /\ races \subseteq races'
    BY <1>2 DEF PageFound, Show
  <2>2. CASE PagesFor(answered[i].result.total) # MaxPages
    <3>1. "resized" \in races'
      BY <1>2, <2>2 DEF PageFound
    <3>. QED BY <3>1 DEF PagesInv
  <2>3. CASE PagesFor(answered[i].result.total) = MaxPages
    <3>1. MaxPages' = MaxPages
      BY <2>1, <2>3 DEF MaxPages
    <3>. QED BY <1>0, <2>1, <3>1
  <2>. QED BY <2>2, <2>3
<1>3. ASSUME NEW i \in DOMAIN answered, Refreshed(i) PROVE PagesInv'
  <2>1. races \subseteq races'
    BY <1>3 DEF Refreshed
  <2>2. CASE answered[i].result.total = 0
    <3>1. UNCHANGED <<list, items, active>>
      BY <1>3, <2>2 DEF Refreshed
    <3>. QED BY <1>0, <2>1, <3>1 DEF MaxPages
  <2>3. CASE answered[i].result.total # 0
    <3>1. PICK max : max = PagesFor(answered[i].result.total)
      OBVIOUS
    <3>2. /\ list' = answered[i].result /\ items' = FirstItems(max)
          /\ active' = PlacesOf(1, items')
      BY <1>3, <2>3, <3>1 DEF Refreshed, Show, ShowItems
    <3>3. answered[i].result.total \in Nat /\ answered[i].result.total > 0
      <4>1. answered \in Seq(Answers)
        BY DEF TypeInv
      <4>2. answered[i] \in Answers
        BY <4>1, WithoutType
      <4>3. answered[i].result \in Result
        BY <4>2 DEF Answers
      <4>. QED BY <2>3, <4>3 DEF Result
    <3>4. MaxPages' = max /\ max \in Nat /\ max >= 1
      BY <3>1, <3>2, <3>3, PagesForType DEF MaxPages
    <3>5. LaidOut(1, max, items')
      BY <3>2, <3>4, FirstLaidOut
    <3>. QED BY <3>2, <3>4, <3>5 DEF PagesInv
  <2>. QED BY <2>2, <2>3
<1>4. CASE \/ CorrectSelected \/ ToggleSelection \/ Close
           \/ \E t \in list.tokens : CorrectOne(t) \/ CorChecked(t)
           \/ \E t \in list.tokens, x \in Text : Write(t, x)
           \/ \E x \in Texts : SetCorrection(x)
  BY <1>0, <1>4 DEF CorrectSelected, CorrectOne, CorChecked, Write, SetCorrection, ToggleSelection,
                    Close, Edit, viewVars, MaxPages
<1>5. CASE Serve \/ Mishap
  BY <1>0, <1>5 DEF Serve, Mishap, ServeCorrection, ServeSearch, Fail, Reply, viewVars, MaxPages
<1>6. ASSUME NEW i \in DOMAIN answered, TokenCorrected(i) \/ Failed(i) PROVE PagesInv'
  BY <1>0, <1>6 DEF TokenCorrected, Failed, viewVars, MaxPages
<1>7. CASE UNCHANGED vars
  BY <1>0, <1>7 DEF vars, viewVars, MaxPages
<1>. QED BY <1>1, <1>2, <1>3, <1>4, <1>5, <1>6, <1>7 DEF Next, UserStep, Receive

\* Requests for pages come from clicks on the list items.
AsksForPages == \A r \in pending' \ pending :
                  r.op = "page" /\ "resized" \notin races =>
                    r.page \in 1..MaxPages \/ (r.page = Dots /\ MaxPages = 6)

LEMMA StepAsks ==
  ASSUME TypeInv, PagesInv, [Next]_vars
  PROVE  AsksForPages
<1>t. MaxPages \in Nat
  BY PagesForType DEF TypeInv, TypeOK, Result, MaxPages
<1>1. ASSUME NEW i \in DOMAIN items, Paginate(i), "resized" \notin races,
             NEW r \in pending' \ pending
      PROVE  Exists(r.page, MaxPages)
  <2>1. r.page = Wanted(i) /\ ~NoPage(i)
    BY <1>1 DEF Paginate, Clicks, PageSearch, Request
  <2>2. PICK v \in Int : active = PlacesOf(v, items) /\ LaidOut(v, MaxPages, items)
    BY <1>1 DEF PagesInv
  <2>3. MaxPages >= 1
    BY <1>1 DEF PagesInv
  <2>. QED BY <1>t, <2>1, <2>2, <2>3, WantedExists
<1>2. ASSUME ~\E i \in DOMAIN items : Paginate(i), NEW r \in pending' \ pending
      PROVE  r.op # "page"
  <2>1. CASE CorrectSelected \/ \E t \in list.tokens : CorrectOne(t)
    <3>1. \E t : r = Correction(clicks + 1, t)
      BY <1>2, <2>1 DEF CorrectSelected, CorrectOne, Clicks
    <3>. QED BY <3>1 DEF Correction, Request
  <2>0. CASE \/ ToggleSelection \/ Close
             \/ \E t \in list.tokens : CorChecked(t)
             \/ \E t \in list.tokens, x \in Text : Write(t, x)
             \/ \E x \in Texts : SetCorrection(x)
    BY <1>2, <2>0 DEF CorChecked, Write, SetCorrection, ToggleSelection, Close, Edit
  <2>2. CASE Serve \/ Mishap
    BY <1>2, <2>2 DEF Serve, Mishap, ServeCorrection, ServeSearch, Fail, Reply
  <2>3. CASE Receive
    BY <1>2, <2>3 DEF Receive, TokenCorrected, PageFound, Refreshed, Failed, Done, Refresh, Request
  <2>4. CASE UNCHANGED vars
    BY <1>2, <2>4 DEF vars
  <2>. QED BY <1>2, <2>0, <2>1, <2>2, <2>3, <2>4 DEF Next, UserStep
<1>. QED BY <1>1, <1>2 DEF AsksForPages, Exists

(* The pages that are asked for exist, for a list of any length: the three  *)
(* layouts fit together but for the case of six pages, as long as the list  *)
(* keeps the number of pages its items were laid out for.                   *)
THEOREM PagesAskedForExist == Spec => PagesExist
<1>1. Init => TypeInv /\ PagesInv
  BY InitType, InitPages
<1>2. TypeInv /\ PagesInv /\ [Next]_vars => (TypeInv /\ PagesInv)' /\ AsksForPages
  BY StepType, StepPages, StepAsks
<1>3. AsksForPages => [AsksForPages]_vars
  OBVIOUS
<1>. QED BY <1>1, <1>2, PTL DEF Spec, PagesExist, AsksForPages

-----------------------------------------------------------------------------
(* The list is what the search finds.  The races that ListIsCurrent excepts *)
(* have not happened (Clean).  Then a list that is not current is going to  *)
(* be fetched anew: some click has corrections that count down to its       *)
(* refresh (Awaited), and enough of them are under way (Counted); or the    *)
(* refresh is, and the last one that was served has read what is there now  *)
(* (LastIsCurrent).  When neither is the case nothing is corrected any more *)
(* (Promised), and the list is current but for the page the user has asked  *)
(* for last (Settled).                                                      *)

Clean == races \cap {"failed", "early", "overtaken", "reset"} = {}

\* The search, when the tokens are corrected as in c.
UncorrectedIn(c) == {t \in Match : c[t] = None}

Found(c, skip) ==
  LET place(t) == Cardinality({u \in UncorrectedIn(c) : u <= t})
  IN  [total  |-> Cardinality(UncorrectedIn(c)),
       skip   |-> skip,
       tokens |-> {t \in UncorrectedIn(c) : skip < place(t) /\ place(t) <=
                                              (IF skip > 0 THEN skip ELSE 0) + Hits}]

\* The requests under way; the corrections of one click, and the pages, in A.
Asked       == pending \cup {answered[i].req : i \in DOMAIN answered}
Batch(A, n) == {r \in A : r.op = "correct" /\ r.n = n}
PagesIn(A)  == {r \in A : r.op = "page"}

IsLastPage(q, A) == q \in PagesIn(A) /\ \A p \in PagesIn(A) : p.n <= q.n

IsRefresh(i) == answered[i].req.op = "refresh"

(* A request is under way once, but for a refresh, of which one may be      *)
(* asked for and another one answered.                                      *)
AskedInv ==
  /\ IsFiniteSet(pending)
  /\ \A r \in Asked : r.n <= clicks /\ (r.op = "refresh" => r = Refresh(r.n))
  /\ \A i, j \in DOMAIN answered : answered[i].req = answered[j].req /\ ~IsRefresh(i) => i = j
  /\ \A i \in DOMAIN answered : ~IsRefresh(i) => answered[i].req \notin pending
  /\ \A p, q \in PagesIn(Asked) : p.n = q.n => p = q

Awaited(n) == Refresh(n) \in pending \/ left[n] > 0
Idle       == \A n \in Click : ~Awaited(n)
NoRefresh  == \A i \in DOMAIN answered : ~IsRefresh(i)

AllGood  == \A i \in DOMAIN answered : answered[i].status = "ok"
Counted  == \A n \in Click : left[n] <= Cardinality(Batch(Asked, n))
Promised == \A r \in pending : r.op = "correct" => Awaited(r.n)

IsLastRefresh(i) == IsRefresh(i) /\ \A j \in DOMAIN answered : j > i => ~IsRefresh(j)
LastIsCurrent ==
  Idle => \A i \in DOMAIN answered : IsLastRefresh(i) => answered[i].result = Found(corrected, 0)

\* The answers with pages are those of the list, of which v is the last page
\* that was asked for.
PagesFound ==
  \A i \in DOMAIN answered : answered[i].req.op = "page" =>
    answered[i].result = Found(corrected, SkipFor(answered[i].req.page))

ShownIs(v) ==
  /\ active = PlacesOf(v, items) /\ LaidOut(v, PagesFor(list.total), items)
  /\ \A q \in Asked : IsLastPage(q, Asked) => v = q.page
  /\ PagesIn(Asked) = {} => list = Found(corrected, SkipFor(v))

Settled ==
  /\ list.total = Cardinality(UncorrectedIn(corrected)) /\ list.total >= 1
  /\ PagesFound
  /\ \E v \in Int : ShownIs(v)

ListInv ==
  Clean => /\ AllGood /\ Counted /\ Promised /\ LastIsCurrent
           /\ ~closed /\ Idle /\ NoRefresh => Settled

LEMMA SearchIs ==
  ASSUME NEW skip
  PROVE  Search(skip) = Found(corrected, skip)
BY DEF Search, Found, Uncorrected, UncorrectedIn

-----------------------------------------------------------------------------
(* What is under way after an answer, and after its arrival.                *)

LEMMA WithoutIs ==
  ASSUME NEW s \in Seq(Answers), NEW i \in DOMAIN s, NEW t, t = Without(s, i)
  PROVE  /\ Len(s) \in Nat /\ DOMAIN s = 1..Len(s) /\ i \in 1..Len(s)
         /\ t \in Seq(Answers) /\ DOMAIN t = 1..Len(s) - 1
         /\ \A k \in 1..Len(s) - 1 : t[k] = IF k < i THEN s[k] ELSE s[k + 1]
<1>1. Len(s) \in Nat /\ DOMAIN s = 1..Len(s) /\ i \in 1..Len(s)
  BY LenProperties
<1>2. PICK u, v : u = SubSeq(s, 1, i - 1) /\ v = SubSeq(s, i + 1, Len(s))
  OBVIOUS
<1>3. u \in Seq(Answers) /\ Len(u) = i - 1 /\ \A k \in 1..i - 1 : u[k] = s[k]
  BY <1>1, <1>2
<1>4. v \in Seq(Answers) /\ Len(v) = Len(s) - i /\ \A k \in 1..Len(s) - i : v[k] = s[i + k]
  <2>1. PICK a, b : a = i + 1 /\ b = Len(s)
    OBVIOUS
  <2>2. a \in Int /\ b \in Int /\ a \in 1..Len(s) + 1 /\ b \in a - 1..Len(s)
    BY <1>1, <2>1
  <2>3. /\ SubSeq(s, a, b) \in Seq(Answers)
        /\ Len(SubSeq(s, a, b)) = b - a + 1
        /\ \A k \in 1..b - a + 1 : SubSeq(s, a, b)[k] = s[a + k - 1]
    BY <1>1, <2>1, <2>2
  <2>4. v = SubSeq(s, a, b)
    BY <1>2, <2>1
  <2>5. b - a + 1 = Len(s) - i /\ \A k \in 1..Len(s) - i : a + k - 1 = i + k
    BY <1>1, <2>1
  <2>. QED BY <2>3, <2>4, <2>5
<1>5. t = u \o v /\ t \in Seq(Answers) /\ Len(t) = Len(s) - 1
  <2>1. t = u \o v
    BY <1>2 DEF Without
  <2>2. u \o v \in Seq(Answers) /\ Len(u \o v) = Len(u) + Len(v)
    BY <1>3, <1>4, ConcatProperties, Zenon
  <2>. QED BY <1>1, <1>3, <1>4, <2>1, <2>2
<1>6. ASSUME NEW k \in 1..Len(s) - 1 PROVE t[k] = IF k < i THEN s[k] ELSE s[k + 1]
  <2>1. t[k] = IF k <= Len(u) THEN u[k] ELSE v[k - Len(u)]
    <3>1. k \in 1..Len(u) + Len(v)
      BY <1>1, <1>3, <1>4
    <3>2. \A j \in 1..Len(u) + Len(v) : (u \o v)[j] = IF j <= Len(u) THEN u[j] ELSE v[j - Len(u)]
      BY <1>3, <1>4, ConcatProperties, Zenon
    <3>. QED BY <1>5, <3>1, <3>2, Zenon
  <2>2. CASE k < i
    BY <1>1, <1>3, <2>1, <2>2
  <2>3. CASE ~(k < i)
    <3>1. PICK m \in Int : m = k - Len(u)
      BY <1>1, <1>3
    <3>2. m \in 1..Len(s) - i /\ i + m = k + 1 /\ ~(k <= Len(u))
      BY <1>1, <1>3, <2>3, <3>1
    <3>. QED BY <1>4, <2>1, <2>3, <3>1, <3>2
  <2>. QED BY <2>2, <2>3
<1>. QED BY <1>1, <1>5, <1>6, LenProperties

\* The place an answer has before the one at i is taken.
Before(i, k) == IF k < i THEN k ELSE k + 1

(* Every other answer is still there, and none is new. *)
LEMMA AnswersLeft ==
  ASSUME TypeInv, NEW i \in DOMAIN answered, answered' = Without(answered, i)
  PROVE  /\ DOMAIN answered \subseteq Nat
         /\ \A k \in DOMAIN answered' :
              /\ k \in Nat /\ Before(i, k) \in DOMAIN answered /\ Before(i, k) # i
              /\ answered'[k] = answered[Before(i, k)]
         /\ \A j \in DOMAIN answered : j # i =>
              \E k \in DOMAIN answered' : j = Before(i, k)
         /\ \A k, m \in DOMAIN answered' : k < m <=> Before(i, k) < Before(i, m)
<1>1. PICK t : t = answered'
  OBVIOUS
<1>2. /\ Len(answered) \in Nat /\ DOMAIN answered = 1..Len(answered) /\ i \in 1..Len(answered)
      /\ DOMAIN t = 1..Len(answered) - 1
      /\ \A k \in 1..Len(answered) - 1 : t[k] = IF k < i THEN answered[k] ELSE answered[k + 1]
  <2>1. answered \in Seq(Answers) /\ t = Without(answered, i)
    BY <1>1 DEF TypeInv
  <2>2. /\ Len(answered) \in Nat /\ DOMAIN answered = 1..Len(answered) /\ i \in 1..Len(answered)
        /\ t \in Seq(Answers) /\ DOMAIN t = 1..Len(answered) - 1
        /\ \A k \in 1..Len(answered) - 1 : t[k] = IF k < i THEN answered[k] ELSE answered[k + 1]
    BY <2>1, WithoutIs, Zenon
  <2>. QED BY <2>2
<1>3. ASSUME NEW j \in DOMAIN answered, j # i PROVE \E k \in DOMAIN t : j = Before(i, k)
  <2>1. CASE j < i
    BY <1>2, <2>1 DEF Before
  <2>2. CASE ~(j < i)
    <3>1. j - 1 \in 1..Len(answered) - 1 /\ ~(j - 1 < i)
      BY <1>2, <1>3, <2>2
    <3>. QED BY <1>2, <3>1 DEF Before
  <2>. QED BY <2>1, <2>2
<1>. QED BY <1>1, <1>2, <1>3 DEF Before

LEMMA AskedType ==
  ASSUME TypeInv
  PROVE  /\ Asked \subseteq Requests
         /\ \A r \in Asked : r.n \in Click /\ r.n \in Nat
         /\ DOMAIN answered \subseteq Nat
         /\ \A i \in DOMAIN answered : answered[i] \in Answers /\ answered[i].req \in Asked
<1>1. \A i \in DOMAIN answered : answered[i] \in Answers
  BY WithoutType DEF TypeInv
<1>. QED BY <1>1 DEF TypeInv, Asked, Answers, Requests, Click

(* The server answers r: the same requests are under way. *)
LEMMA ReplyAsked ==
  ASSUME TypeInv, NEW r \in pending, NEW status, NEW result, Reply(r, status, result)
  PROVE  /\ Asked' = Asked /\ pending' = pending \ {r}
         /\ Len(answered) \in Nat /\ DOMAIN answered = 1..Len(answered)
         /\ DOMAIN answered' = 1..Len(answered) + 1
         /\ \A i \in DOMAIN answered : answered'[i] = answered[i]
         /\ answered'[Len(answered) + 1] = Answer(r, status, result)
<1>1. PICK a : a = Answer(r, status, result)
  OBVIOUS
<1>2. answered' = Append(answered, a) /\ pending' = pending \ {r} /\ a.req = r
  BY <1>1 DEF Reply, Answer
<1>3. /\ Len(answered) \in Nat /\ DOMAIN answered = 1..Len(answered)
      /\ DOMAIN answered' = 1..Len(answered) + 1
      /\ \A i \in DOMAIN answered : answered'[i] = answered[i]
      /\ answered'[Len(answered) + 1] = a
  BY <1>2, AppendProperties, LenProperties DEF TypeInv
<1>4. Asked' = Asked
  <2>1. \A q \in Asked' : q \in Asked
    BY <1>2, <1>3 DEF Asked
  <2>2. \A q \in Asked : q \in Asked'
    BY <1>2, <1>3 DEF Asked
  <2>. QED BY <2>1, <2>2
<1>. QED BY <1>1, <1>2, <1>3, <1>4

(* The answer at i arrives: its request is not under way any more, unless   *)
(* it was a refresh.                                                        *)
LEMMA TakeAsked ==
  ASSUME TypeInv, AskedInv, NEW i \in DOMAIN answered, answered' = Without(answered, i),
         pending' = pending
  PROVE  /\ Asked' \subseteq Asked
         /\ Asked \ {answered[i].req} \subseteq Asked'
         /\ ~IsRefresh(i) => Asked' = Asked \ {answered[i].req}
<1>1. Asked' \subseteq Asked
  BY AnswersLeft DEF Asked
<1>2. Asked \ {answered[i].req} \subseteq Asked'
  <2>1. ASSUME NEW j \in DOMAIN answered, j # i PROVE answered[j].req \in Asked'
    BY <2>1, AnswersLeft DEF Asked
  <2>. QED BY <2>1 DEF Asked
<1>3. ~IsRefresh(i) => answered[i].req \notin Asked'
  BY AnswersLeft DEF Asked, AskedInv
<1>. QED BY <1>1, <1>2, <1>3

-----------------------------------------------------------------------------
(* Requests are under way once.                                             *)

\* A click sends the requests R.
Sends(R) ==
  /\ IsFiniteSet(R) /\ R \subseteq Requests
  /\ \A r \in R : r.n = clicks + 1 /\ r.op # "refresh"
  /\ \A p, q \in R : p.op = "page" /\ q.op = "page" => p = q
  /\ pending' = pending \cup R /\ answered' = answered
  /\ clicks' = clicks + 1 /\ clicks' \in Click

LEMMA SendAsked ==
  ASSUME TypeInv, AskedInv, NEW R, Sends(R)
  PROVE  AskedInv' /\ Asked' = Asked \cup R
<1>1. Asked' = Asked \cup R
  BY DEF Asked, Sends
<1>2. /\ IsFiniteSet(pending')
      /\ \A r \in Asked : r.n <= clicks /\ r.n \in Int
      /\ clicks \in Int
  <2>1. IsFiniteSet(pending) /\ IsFiniteSet(R) /\ pending' = pending \cup R
    BY DEF AskedInv, Sends
  <2>2. IsFiniteSet(pending')
    BY <2>1, FS_Union, Zenon
  <2>. QED BY <2>2, AskedType DEF AskedInv, TypeInv
<1>3. \A r \in R : \A q \in Asked : r.n # q.n /\ r # q
  BY <1>2 DEF Sends
<1>4. \A r \in Asked' : r.n <= clicks' /\ (r.op = "refresh" => r = Refresh(r.n))
  BY <1>1, <1>2 DEF Sends, AskedInv
<1>5. \A p, q \in PagesIn(Asked') : p.n = q.n => p = q
  BY <1>1, <1>3 DEF Sends, AskedInv, PagesIn
<1>6. \A i \in DOMAIN answered : answered[i].req \in Asked
  BY DEF Asked
<1>7. \A i \in DOMAIN answered' : ~IsRefresh(i)' => answered'[i].req \notin pending'
  BY <1>3, <1>6 DEF Sends, AskedInv, IsRefresh
<1>8. \A i, j \in DOMAIN answered' : answered'[i].req = answered'[j].req /\ ~IsRefresh(i)' => i = j
  BY DEF Sends, AskedInv, IsRefresh
<1>. QED BY <1>1, <1>2, <1>4, <1>5, <1>7, <1>8 DEF AskedInv

LEMMA AnswerAsked ==
  ASSUME TypeInv, AskedInv, NEW r \in pending, NEW status, NEW result, Reply(r, status, result)
  PROVE  AskedInv'
<1>1. /\ Asked' = Asked /\ pending' = pending \ {r}
      /\ Len(answered) \in Nat /\ DOMAIN answered = 1..Len(answered)
      /\ DOMAIN answered' = 1..Len(answered) + 1
      /\ \A i \in DOMAIN answered : answered'[i] = answered[i]
      /\ answered'[Len(answered) + 1].req = r
  <2>1. PICK a : a = Answer(r, status, result)
    OBVIOUS
  <2>2. a.req = r
    BY <2>1 DEF Answer
  <2>. QED BY <2>1, <2>2, ReplyAsked, Zenon
<1>2. clicks' = clicks
  BY DEF Reply, bounds
<1>3. IsFiniteSet(pending')
  BY <1>1, FS_RemoveElement DEF AskedInv
<1>4. \A i \in DOMAIN answered' : i \in DOMAIN answered \/ i = Len(answered) + 1
  BY <1>1
<1>5. \A i \in DOMAIN answered' : ~IsRefresh(i)' => answered'[i].req \notin pending'
  BY <1>1, <1>4 DEF AskedInv, IsRefresh
<1>6. \A i, j \in DOMAIN answered' : answered'[i].req = answered'[j].req /\ ~IsRefresh(i)' => i = j
  BY <1>1, <1>4 DEF AskedInv, IsRefresh
<1>. QED BY <1>1, <1>2, <1>3, <1>5, <1>6 DEF AskedInv

LEMMA TakenAsked ==
  ASSUME TypeInv, AskedInv, NEW i \in DOMAIN answered, answered' = Without(answered, i),
         clicks' = clicks,
         pending' = pending \/ pending' = pending \cup {Refresh(answered[i].req.n)}
  PROVE  AskedInv'
<1>1. IsFiniteSet(pending')
  BY FS_AddElement DEF AskedInv
<1>2. PICK q : q = Refresh(answered[i].req.n)
  OBVIOUS
<1>3. q.op = "refresh" /\ q.n = answered[i].req.n /\ q = Refresh(q.n) /\ q.n <= clicks
  BY <1>2, AskedType DEF Refresh, Request, AskedInv
<1>4. \A r \in Asked' : r \in Asked \/ r = q
  BY <1>2, AnswersLeft DEF Asked
<1>5. \A r \in Asked' : r.n <= clicks' /\ (r.op = "refresh" => r = Refresh(r.n))
  BY <1>3, <1>4 DEF AskedInv
<1>6. \A p, r \in PagesIn(Asked') : p.n = r.n => p = r
  BY <1>3, <1>4 DEF PagesIn, AskedInv
<1>7. \A k \in DOMAIN answered' : ~IsRefresh(k)' => answered'[k].req \notin pending'
  BY <1>2, <1>3, AnswersLeft DEF AskedInv, IsRefresh
<1>8. \A j, k \in DOMAIN answered' : answered'[j].req = answered'[k].req /\ ~IsRefresh(j)' => j = k
  <2>1. ASSUME NEW j \in DOMAIN answered', NEW k \in DOMAIN answered',
               answered'[j].req = answered'[k].req, ~IsRefresh(j)'
        PROVE  j = k
    <3>1. Before(i, j) = Before(i, k)
      BY <2>1, AnswersLeft DEF AskedInv, IsRefresh
    <3>2. j \in Nat /\ k \in Nat
      BY AnswersLeft
    <3>. QED BY <3>1, <3>2, AnswersLeft DEF Before
  <2>. QED BY <2>1
<1>. QED BY <1>1, <1>5, <1>6, <1>7, <1>8 DEF AskedInv

LEMMA PageSends ==
  ASSUME TypeInv, NEW i \in DOMAIN items, Paginate(i),
         NEW q, q = PageSearch(clicks + 1, Wanted(i))
  PROVE  /\ Sends({q}) /\ q.op = "page" /\ q.n = clicks + 1 /\ q.page = Wanted(i)
         /\ UNCHANGED <<list, left, corrected, races, closed>>
<1>1. /\ Clicks({q}) /\ UNCHANGED <<list, left, races, closed>>
  BY DEF Paginate
<1>2. q.op = "page" /\ q.n = clicks + 1 /\ q.page = Wanted(i) /\ q.token = 0 /\ q.text = Own
  BY DEF PageSearch, Request
<1>3. clicks' = clicks + 1 /\ clicks' \in Click /\ pending' = pending \cup {q}
      /\ answered' = answered /\ corrected' = corrected
  BY <1>1, ConcordanceAssumption DEF Clicks, TypeInv, Click, serverVars
<1>4. q \in Requests
  <2>1. Wanted(i) \in Int
    BY WantedType
  <2>. QED BY <1>3, <2>1 DEF Requests, PageSearch, Request, Searches, Texts
<1>. QED BY <1>1, <1>2, <1>3, <1>4, FS_Singleton DEF Sends

\* As many requests as tokens.
LEMMA CorrectionsSent ==
  ASSUME TypeInv, NEW T \in SUBSET list.tokens,
         NEW R, R = {Correction(clicks + 1, t) : t \in T}, Clicks(R)
  PROVE  /\ Sends(R) /\ \A r \in R : r.op = "correct"
         /\ corrected' = corrected
         /\ Cardinality(T) \in Nat /\ Cardinality(R) \in Nat /\ Cardinality(T) <= Cardinality(R)
<1>1. /\ clicks' = clicks + 1 /\ clicks' \in Click /\ pending' = pending \cup R
      /\ answered' = answered /\ corrected' = corrected
  BY ConcordanceAssumption DEF Clicks, TypeInv, Click, serverVars
<1>2. IsFiniteSet(T) /\ T \subseteq Match /\ \A t \in T : text[t] \in Texts
  <2>1. T \subseteq Match
    BY DEF TypeInv, TypeOK, Result
  <2>. QED BY <2>1, ConcordanceAssumption, FS_Subset DEF TypeInv, TypeOK
<1>3. \A r \in R : \E t \in T : r = Correction(clicks + 1, t)
  OBVIOUS
<1>4. \A t \in T : LET r == Correction(clicks + 1, t) IN
        r \in Requests /\ r.token = t /\ r.op = "correct" /\ r.n = clicks + 1
  BY <1>1, <1>2 DEF Correction, Request, Requests
<1>5. PICK f : f = [t \in T |-> Correction(clicks + 1, t)]
  OBVIOUS
<1>6. f \in Surjection(T, R) /\ f \in Injection(T, R)
  <2>1. f \in [T -> R] /\ \A t \in T : f[t].token = t
    BY <1>4, <1>5
  <2>2. \A r \in R : \E t \in T : f[t] = r
    BY <1>3, <1>5
  <2>3. \A t, u \in T : f[t] = f[u] => t = u
    BY <2>1, Zenon
  <2>. QED BY <2>1, <2>2, <2>3 DEF Surjection, Injection, IsInjective
<1>7. IsFiniteSet(R)
  BY <1>2, <1>6, FS_Surjection
<1>8. Cardinality(T) <= Cardinality(R)
  BY <1>6, <1>7, FS_Injection
<1>9. \A r \in R : r \in Requests /\ r.op = "correct" /\ r.n = clicks + 1
  BY <1>3, <1>4
<1>. QED BY <1>1, <1>2, <1>7, <1>8, <1>9, FS_CardinalityType DEF Sends

\* The corrections of a click: what it counts is no more than what it sends.
Corrects(R, k) ==
  /\ Sends(R) /\ \A r \in R : r.op = "correct"
  /\ k \in Nat /\ k >= 1 /\ k <= Cardinality(R)
  /\ left' = [left EXCEPT ![clicks'] = k]
  /\ UNCHANGED <<list, items, active, corrected, races, closed>>

LEMMA SelectedAreSent ==
  ASSUME TypeInv, CorrectSelected
  PROVE  \E R, k : Corrects(R, k)
<1>1. PICK R : R = {Correction(clicks + 1, t) : t \in Sent}
  OBVIOUS
<1>2. /\ Clicks(R) /\ left' = [left EXCEPT ![clicks'] = Cardinality(marked)]
      /\ UNCHANGED <<list, items, active, races, closed>>
  BY <1>1 DEF CorrectSelected, viewVars
<1>3. Sent \in SUBSET list.tokens
  BY DEF Sent
<1>4. /\ Sends(R) /\ \A r \in R : r.op = "correct"
      /\ corrected' = corrected
      /\ Cardinality(Sent) \in Nat /\ Cardinality(R) \in Nat /\ Cardinality(Sent) <= Cardinality(R)
  BY <1>1, <1>2, <1>3, CorrectionsSent
<1>5. IsFiniteSet(Sent)
  BY <1>3, ConcordanceAssumption, FS_Subset DEF TypeInv, TypeOK, Result
<1>6. marked \subseteq Sent
  BY DEF Sent, SharesLine, TypeInv, TypeOK
<1>7. marked # {}
  BY DEF CorrectSelected, Sent, SharesLine
<1>8. IsFiniteSet(marked) /\ Cardinality(marked) <= Cardinality(Sent)
  BY <1>5, <1>6, FS_Subset
<1>9. Cardinality(marked) \in Nat /\ Cardinality(marked) # 0
  BY <1>7, <1>8, FS_CardinalityType, FS_EmptySet
<1>10. PICK k : k = Cardinality(marked)
  OBVIOUS
<1>11. /\ left' = [left EXCEPT ![clicks'] = k] /\ k \in Nat /\ k >= 1 /\ k <= Cardinality(R)
  BY <1>2, <1>4, <1>8, <1>9, <1>10
<1>12. Corrects(R, k)
  BY <1>2, <1>4, <1>11 DEF Corrects
<1>. QED BY <1>12

LEMMA OneIsSent ==
  ASSUME TypeInv, NEW t \in list.tokens, CorrectOne(t)
  PROVE  \E R, k : Corrects(R, k)
<1>1. PICK R : R = {Correction(clicks + 1, u) : u \in {t}}
  OBVIOUS
<1>2. /\ Clicks(R) /\ left' = [left EXCEPT ![clicks'] = 1]
      /\ UNCHANGED <<list, items, active, races, closed>>
  <2>1. R = {Correction(clicks + 1, t)}
    BY <1>1
  <2>. QED BY <2>1 DEF CorrectOne, viewVars
<1>3. /\ Sends(R) /\ \A r \in R : r.op = "correct"
      /\ corrected' = corrected
      /\ Cardinality({t}) \in Nat /\ Cardinality(R) \in Nat /\ Cardinality({t}) <= Cardinality(R)
  BY <1>1, <1>2, CorrectionsSent
<1>4. Cardinality({t}) = 1
  BY FS_Singleton
<1>5. Corrects(R, 1)
  BY <1>2, <1>3, <1>4 DEF Corrects
<1>. QED BY <1>5

LEMMA StepAsked ==
  ASSUME TypeInv, AskedInv, [Next]_vars
  PROVE  AskedInv'
<1>0. ASSUME UNCHANGED <<pending, answered, clicks>> PROVE AskedInv'
  BY <1>0 DEF AskedInv, Asked, IsRefresh, PagesIn
<1>1. ASSUME NEW i \in DOMAIN items, Paginate(i) PROVE AskedInv'
  <2>1. PICK q : q = PageSearch(clicks + 1, Wanted(i))
    OBVIOUS
  <2>. QED BY <1>1, <2>1, PageSends, SendAsked
<1>2. CASE CorrectSelected \/ \E t \in list.tokens : CorrectOne(t)
  <2>1. PICK R, k : Corrects(R, k)
    BY <1>2, SelectedAreSent, OneIsSent
  <2>. QED BY <2>1, SendAsked DEF Corrects
<1>3. CASE \/ ToggleSelection \/ Close
           \/ \E t \in list.tokens : CorChecked(t)
           \/ \E t \in list.tokens, x \in Text : Write(t, x)
           \/ \E x \in Texts : SetCorrection(x)
  BY <1>0, <1>3 DEF CorChecked, Write, SetCorrection, ToggleSelection, Close, Edit, bounds
<1>4. CASE Serve \/ Mishap
  <2>1. PICK r, status, result : r \in pending /\ Reply(r, status, result)
    BY <1>4, Zenon DEF Serve, Mishap, ServeCorrection, ServeSearch, Fail
  <2>. QED BY <2>1, AnswerAsked
<1>5. CASE Receive
  <2>1. PICK i \in DOMAIN answered : TokenCorrected(i) \/ PageFound(i) \/ Refreshed(i) \/ Failed(i)
    BY <1>5 DEF Receive
  <2>2. /\ answered' = Without(answered, i) /\ clicks' = clicks
        /\ pending' = pending \/ pending' = pending \cup {Refresh(answered[i].req.n)}
    BY <2>1 DEF TokenCorrected, PageFound, Refreshed, Failed, Take, Done, bounds
  <2>. QED BY <2>2, TakenAsked
<1>6. CASE UNCHANGED vars
  BY <1>0, <1>6 DEF vars, bounds
<1>. QED BY <1>1, <1>2, <1>3, <1>4, <1>5, <1>6 DEF Next, UserStep

-----------------------------------------------------------------------------
(* What each step leaves of ListInv.                                        *)

\* The parts, when the races do not come in the way.
Parts == /\ AllGood /\ Counted /\ Promised /\ LastIsCurrent
         /\ ~closed /\ Idle /\ NoRefresh => Settled

LEMMA ListParts ==
  ASSUME ListInv, races \subseteq races', Clean /\ Clean' /\ Parts => Parts'
  PROVE  ListInv'
<1>1. Clean' => Clean
  BY DEF Clean
<1>. QED BY <1>1 DEF ListInv, Parts

\* Whatever the user marks and writes.
LEMMA EditList ==
  ASSUME ListInv, UNCHANGED <<corrected, list, items, active, left, pending, answered, races>>,
         closed' = closed \/ closed' = TRUE
  PROVE  ListInv'
<1>1. Asked' = Asked
  BY DEF Asked
<1>2. Parts => Parts'
  BY <1>1 DEF Parts, AllGood, Counted, Promised, LastIsCurrent, Idle, NoRefresh, Awaited,
              IsLastRefresh, IsRefresh, Settled, PagesFound, ShownIs
<1>. QED BY <1>2, ListParts

\* The user asks for a page.
LEMMA PaginateList ==
  ASSUME TypeInv, AskedInv, ListInv, NEW i \in DOMAIN items, Paginate(i)
  PROVE  ListInv'
<1>. SUFFICES ASSUME Parts PROVE Parts'
  <2>1. races \subseteq races'
    BY DEF Paginate
  <2>. QED BY <2>1, ListParts
<1>1. PICK q : q = PageSearch(clicks + 1, Wanted(i))
  OBVIOUS
<1>2. /\ Sends({q}) /\ q.op = "page" /\ q.n = clicks + 1 /\ q.page = Wanted(i)
      /\ UNCHANGED <<list, left, corrected, races, closed>>
  BY <1>1, PageSends
<1>3. /\ Asked' = Asked \cup {q} /\ pending' = pending \cup {q} /\ answered' = answered
      /\ clicks \in Nat /\ \A r \in Asked : r.n <= clicks /\ r.n \in Nat
  BY <1>2, SendAsked, AskedType DEF Sends, AskedInv, TypeInv
<1>4. \A n : Refresh(n) # q /\ Refresh(n).op = "refresh"
  BY <1>2 DEF Refresh, Request
<1>5. \A n \in Click : Awaited(n)' <=> Awaited(n)
  BY <1>2, <1>3, <1>4 DEF Awaited
<1>6. Idle' <=> Idle
  BY <1>5 DEF Idle
<1>7. AllGood' /\ (NoRefresh' <=> NoRefresh)
  BY <1>3 DEF Parts, AllGood, NoRefresh, IsRefresh
<1>8. Counted'
  <2>1. \A n \in Click : Batch(Asked', n) = Batch(Asked, n)
    BY <1>2, <1>3 DEF Batch
  <2>. QED BY <1>2, <2>1 DEF Parts, Counted
<1>9. Promised'
  BY <1>2, <1>3, <1>5, AskedType DEF Parts, Promised, Asked
<1>10. LastIsCurrent'
  BY <1>2, <1>3, <1>6 DEF Parts, LastIsCurrent, IsLastRefresh, IsRefresh
<1>11. ASSUME Settled PROVE Settled'
  <2>1. /\ list'.total = Cardinality(UncorrectedIn(corrected')) /\ list'.total >= 1
        /\ PagesFound'
    BY <1>2, <1>3, <1>11 DEF Settled, PagesFound
  <2>2. PICK v \in Int : ShownIs(v)
    BY <1>11 DEF Settled
  <2>3. PICK max \in Nat, page \in Int :
          max = PagesFor(list.total) /\ max >= 1 /\ page = Wanted(i)
    <3>1. list.total \in Nat /\ list.total > 0
      BY <1>11 DEF Settled, TypeInv, TypeOK, Result
    <3>. QED BY <3>1, PagesForType, WantedType
  <2>4. /\ ~NoPage(i) /\ items' = ItemsFor(page, max) /\ active' = PlacesOf(page, items')
    BY <2>3 DEF Paginate, ShowItems, MaxPages
  <2>5. active = PlacesOf(v, items) /\ LaidOut(v, max, items)
    BY <2>2, <2>3 DEF ShownIs
  <2>6. Exists(page, max)
    BY <2>3, <2>4, <2>5, WantedExists
  <2>7. LaidOut(page, max, items')
    BY <2>4, <2>5, <2>6, ItemsLaidOut
  <2>8. \A r \in Asked' : IsLastPage(r, Asked') => page = r.page
    <3>1. q \in PagesIn(Asked') /\ \A r \in Asked' : r = q \/ ~(clicks + 1 <= r.n)
      BY <1>2, <1>3 DEF PagesIn
    <3>. QED BY <1>2, <2>3, <3>1 DEF IsLastPage
  <2>9. PagesIn(Asked') # {}
    BY <1>2, <1>3 DEF PagesIn
  <2>10. ShownIs(page)'
    BY <1>2, <2>3, <2>4, <2>7, <2>8, <2>9 DEF ShownIs
  <2>. QED BY <2>1, <2>3, <2>10 DEF Settled
<1>. QED BY <1>2, <1>6, <1>7, <1>8, <1>9, <1>10, <1>11 DEF Parts

\* The user corrects: the list is going to be fetched anew.
LEMMA CorrectList ==
  ASSUME TypeInv, AskedInv, ListInv, NEW R, NEW k, Corrects(R, k)
  PROVE  ListInv'
<1>. SUFFICES ASSUME Parts PROVE Parts'
  <2>1. races \subseteq races'
    BY DEF Corrects
  <2>. QED BY <2>1, ListParts
<1>0. PICK c : c = clicks'
  OBVIOUS
<1>1. /\ Sends(R) /\ \A r \in R : r.op = "correct"
      /\ k \in Nat /\ k >= 1 /\ k <= Cardinality(R)
      /\ left' = [left EXCEPT ![c] = k]
  BY <1>0 DEF Corrects
<1>2. /\ Asked' = Asked \cup R /\ pending' = pending \cup R /\ answered' = answered
      /\ c \in Click /\ \A r \in R : r.n = c
      /\ \A r \in Asked : r.n \in Click /\ r.n # c
  <2>1. Asked' = Asked \cup R /\ pending' = pending \cup R /\ answered' = answered
    BY <1>1, SendAsked DEF Sends
  <2>2. c \in Click /\ c = clicks + 1 /\ \A r \in R : r.n = c
    BY <1>0, <1>1 DEF Sends
  <2>3. \A r \in Asked : r.n <= clicks /\ r.n \in Click /\ r.n \in Nat
    BY AskedType DEF AskedInv
  <2>4. clicks \in Nat
    BY DEF TypeInv
  <2>. QED BY <2>1, <2>2, <2>3, <2>4
<1>3. left'[c] = k /\ \A n \in Click : n # c => left'[n] = left[n]
  BY <1>1, <1>2 DEF TypeInv, TypeOK
<1>4. Awaited(c)'
  BY <1>1, <1>3 DEF Awaited
<1>5. ~Idle'
  BY <1>2, <1>4 DEF Idle
<1>6. AllGood'
  BY <1>2 DEF Parts, AllGood
<1>7. Counted'
  <2>1. ASSUME NEW n \in Click, n # c PROVE Batch(Asked', n) = Batch(Asked, n)
    BY <1>2, <2>1 DEF Batch
  <2>2. Batch(Asked', c) = R
    BY <1>1, <1>2 DEF Batch
  <2>. QED BY <1>1, <1>3, <2>1, <2>2 DEF Parts, Counted
<1>8. Promised'
  <2>1. ASSUME NEW r \in pending, r.op = "correct" PROVE Awaited(r.n)'
    <3>1. Awaited(r.n) /\ r \in Asked
      BY <2>1 DEF Parts, Promised, Asked
    <3>2. left'[r.n] = left[r.n]
      BY <1>2, <1>3, <3>1
    <3>. QED BY <1>2, <3>1, <3>2 DEF Awaited
  <2>2. \A r \in R : Awaited(r.n)'
    BY <1>2, <1>4, Zenon
  <2>. QED BY <1>2, <2>1, <2>2 DEF Promised
<1>. QED BY <1>5, <1>6, <1>7, <1>8 DEF Parts, LastIsCurrent

\* A correction is made: the click it belongs to still waits for its list.
LEMMA MadeList ==
  ASSUME TypeInv, AskedInv, ListInv, NEW r \in pending, ServeCorrection(r)
  PROVE  ListInv'
<1>. SUFFICES ASSUME Parts PROVE Parts'
  <2>1. races \subseteq races'
    BY DEF ServeCorrection
  <2>. QED BY <2>1, ListParts
<1>1. r.op = "correct" /\ Reply(r, "ok", NoResult) /\ left' = left
  BY DEF ServeCorrection, Reply
<1>2. PICK a : a = Answer(r, "ok", NoResult)
  OBVIOUS
<1>3. a.status = "ok"
  BY <1>2 DEF Answer
<1>4. /\ Asked' = Asked /\ pending' = pending \ {r}
      /\ Len(answered) \in Nat /\ DOMAIN answered = 1..Len(answered)
      /\ DOMAIN answered' = 1..Len(answered) + 1
      /\ \A i \in DOMAIN answered : answered'[i] = answered[i]
      /\ answered'[Len(answered) + 1] = a
  BY <1>1, <1>2, ReplyAsked, Zenon
<1>5. \A n : Refresh(n) # r
  BY <1>1 DEF Refresh, Request
<1>6. \A n \in Click : Awaited(n)' <=> Awaited(n)
  BY <1>1, <1>4, <1>5 DEF Awaited
<1>7. r.n \in Click /\ \A q \in pending : q.n \in Click
  BY AskedType DEF Asked
<1>8. ~Idle'
  BY <1>1, <1>6, <1>7 DEF Parts, Promised, Idle
<1>9. AllGood'
  BY <1>3, <1>4 DEF Parts, AllGood
<1>10. Counted'
  BY <1>1, <1>4 DEF Parts, Counted
<1>11. Promised'
  BY <1>4, <1>6, <1>7 DEF Parts, Promised
<1>. QED BY <1>8, <1>9, <1>10, <1>11 DEF Parts, LastIsCurrent

\* A page is found: it is what the list has there now.
LEMMA PageList ==
  ASSUME TypeInv, AskedInv, ListInv, NEW r \in pending, r.op = "page", ServeSearch(r)
  PROVE  ListInv'
<1>. SUFFICES ASSUME Parts PROVE Parts'
  <2>1. races \subseteq races'
    BY DEF ServeSearch
  <2>. QED BY <2>1, ListParts
<1>1. PICK result : result = Search(SkipFor(r.page))
  OBVIOUS
<1>2. /\ Reply(r, "ok", result)
      /\ UNCHANGED <<left, corrected, list, items, active, closed>>
  BY <1>1 DEF ServeSearch, Reply, serverVars, viewVars
<1>3. PICK a : a = Answer(r, "ok", result)
  OBVIOUS
<1>4. a.status = "ok" /\ a.req = r /\ a.result = Found(corrected, SkipFor(r.page))
  BY <1>1, <1>3, SearchIs DEF Answer
<1>5. /\ Asked' = Asked /\ pending' = pending \ {r}
      /\ Len(answered) \in Nat /\ DOMAIN answered = 1..Len(answered)
      /\ DOMAIN answered' = 1..Len(answered) + 1
      /\ \A i \in DOMAIN answered : answered'[i] = answered[i]
      /\ answered'[Len(answered) + 1] = a
  BY <1>2, <1>3, ReplyAsked, Zenon
<1>6. \A n : Refresh(n) # r
  BY DEF Refresh, Request
<1>7. \A n \in Click : Awaited(n)' <=> Awaited(n)
  BY <1>2, <1>5, <1>6 DEF Awaited
<1>8. Idle' <=> Idle
  BY <1>7 DEF Idle
<1>9. AllGood'
  BY <1>4, <1>5 DEF Parts, AllGood
<1>10. Counted'
  BY <1>2, <1>5 DEF Parts, Counted
<1>11. \A q \in pending : q.n \in Click
  BY AskedType DEF Asked
<1>12. Promised'
  BY <1>5, <1>7, <1>11 DEF Parts, Promised
<1>13. /\ \A i \in DOMAIN answered : i \in DOMAIN answered' /\ (IsRefresh(i)' <=> IsRefresh(i))
       /\ ~(a.req.op = "refresh")
  BY <1>4, <1>5 DEF IsRefresh
<1>14. LastIsCurrent'
  <2>1. ASSUME Idle, NEW i \in DOMAIN answered', IsLastRefresh(i)'
        PROVE  answered'[i].result = Found(corrected, 0)
    <3>1. i \in DOMAIN answered
      BY <1>5, <1>13, <2>1 DEF IsLastRefresh, IsRefresh
    <3>2. IsLastRefresh(i)
      BY <1>13, <2>1, <3>1 DEF IsLastRefresh
    <3>. QED BY <1>5, <2>1, <3>1, <3>2 DEF Parts, LastIsCurrent
  <2>. QED BY <1>2, <1>8, <2>1 DEF LastIsCurrent
<1>15. NoRefresh' => NoRefresh
  BY <1>13 DEF NoRefresh
<1>16. ASSUME Settled PROVE Settled'
  <2>1. PagesFound'
    <3>1. ASSUME NEW i \in DOMAIN answered', answered'[i].req.op = "page"
          PROVE  answered'[i].result = Found(corrected, SkipFor(answered'[i].req.page))
      <4>1. CASE i \in DOMAIN answered
        BY <1>5, <1>16, <3>1, <4>1 DEF Settled, PagesFound
      <4>2. CASE i = Len(answered) + 1
        BY <1>4, <1>5, <4>2
      <4>. QED BY <1>5, <4>1, <4>2
    <3>. QED BY <1>2, <3>1 DEF PagesFound
  <2>2. ASSUME NEW v \in Int, ShownIs(v) PROVE ShownIs(v)'
    BY <1>2, <1>5, <2>2 DEF ShownIs
  <2>. QED BY <1>2, <1>16, <2>1, <2>2 DEF Settled
<1>. QED BY <1>2, <1>8, <1>9, <1>10, <1>12, <1>14, <1>15, <1>16 DEF Parts

\* A list is fetched anew: it is the last one, and what is there now.
LEMMA RefreshList ==
  ASSUME TypeInv, AskedInv, ListInv, NEW r \in pending, r.op = "refresh", ServeSearch(r)
  PROVE  ListInv'
<1>. SUFFICES ASSUME Parts, Clean' PROVE Parts'
  <2>1. races \subseteq races'
    BY DEF ServeSearch
  <2>. QED BY <2>1, ListParts
<1>1. PICK result : result = Search(SkipFor(r.page))
  OBVIOUS
<1>2. /\ Reply(r, "ok", result)
      /\ UNCHANGED <<left, corrected, list, items, active, closed>>
  BY <1>1 DEF ServeSearch, Reply, serverVars, viewVars
<1>3. PICK a : a = Answer(r, "ok", result)
  OBVIOUS
<1>4. r = Refresh(r.n) /\ SkipFor(r.page) = 0
  <2>1. r = Refresh(r.n)
    BY DEF AskedInv, Asked
  <2>2. r.page = 1
    BY <2>1 DEF Refresh, Request
  <2>. QED BY <2>1, <2>2, ConcordanceAssumption DEF SkipFor
<1>5. a.status = "ok" /\ a.req = r /\ a.result = Found(corrected, 0)
  BY <1>1, <1>3, <1>4, SearchIs DEF Answer
<1>6. /\ Asked' = Asked /\ pending' = pending \ {r}
      /\ Len(answered) \in Nat /\ DOMAIN answered = 1..Len(answered)
      /\ DOMAIN answered' = 1..Len(answered) + 1
      /\ \A i \in DOMAIN answered : answered'[i] = answered[i]
      /\ answered'[Len(answered) + 1] = a
  BY <1>2, <1>3, ReplyAsked, Zenon
<1>7. \A c \in pending : c.op = "correct" => c.n # r.n
  BY DEF ServeSearch, Clean
<1>8. \A n : n # r.n => Refresh(n) # r
  BY <1>4 DEF Refresh, Request
<1>9. \A n \in Click : n # r.n => (Awaited(n)' <=> Awaited(n))
  BY <1>2, <1>6, <1>8 DEF Awaited
<1>10. AllGood'
  BY <1>5, <1>6 DEF Parts, AllGood
<1>11. Counted'
  BY <1>2, <1>6 DEF Parts, Counted
<1>12. \A q \in pending : q.n \in Click
  BY AskedType DEF Asked
<1>13. Promised'
  BY <1>6, <1>7, <1>9, <1>12 DEF Parts, Promised
<1>14. PICK last \in Nat : last = Len(answered) + 1
  BY <1>6
<1>15. IsRefresh(last)' /\ last \in DOMAIN answered' /\ answered'[last] = a
  BY <1>5, <1>6, <1>14 DEF IsRefresh
<1>16. \A i \in DOMAIN answered' : IsLastRefresh(i)' => i = last
  <2>1. \A i \in DOMAIN answered' : i # last => last > i
    BY <1>6, <1>14
  <2>. QED BY <1>15, <2>1 DEF IsLastRefresh
<1>17. LastIsCurrent'
  BY <1>2, <1>5, <1>15, <1>16 DEF LastIsCurrent
<1>18. ~NoRefresh'
  BY <1>15 DEF NoRefresh
<1>. QED BY <1>10, <1>11, <1>13, <1>17, <1>18 DEF Parts

\* What holds of the other answers when one arrives that is not a list.
LEMMA OthersLeft ==
  ASSUME TypeInv, Parts, NEW i \in DOMAIN answered, answered' = Without(answered, i),
         ~IsRefresh(i), corrected' = corrected, Idle' => Idle
  PROVE  AllGood' /\ LastIsCurrent' /\ (NoRefresh' => NoRefresh) /\ (PagesFound => PagesFound')
<1>1. AllGood'
  BY AnswersLeft DEF Parts, AllGood
<1>2. \A k \in DOMAIN answered' : IsRefresh(k)' <=> IsRefresh(Before(i, k))
  BY AnswersLeft DEF IsRefresh
<1>3. ASSUME NEW j \in DOMAIN answered, IsRefresh(j)
      PROVE  \E k \in DOMAIN answered' : j = Before(i, k) /\ IsRefresh(k)'
  <2>1. PICK k \in DOMAIN answered' : j = Before(i, k)
    BY <1>3, AnswersLeft
  <2>. QED BY <1>2, <1>3, <2>1
<1>4. NoRefresh' => NoRefresh
  BY <1>3 DEF NoRefresh
<1>5. ASSUME NEW k \in DOMAIN answered', IsLastRefresh(k)', Idle
      PROVE  answered'[k].result = Found(corrected, 0)
  <2>1. PICK m : m = Before(i, k)
    OBVIOUS
  <2>2. m \in DOMAIN answered /\ IsRefresh(m) /\ answered'[k] = answered[m]
    BY <1>2, <1>5, <2>1, AnswersLeft DEF IsLastRefresh
  <2>3. ASSUME NEW j \in DOMAIN answered, j > m, IsRefresh(j) PROVE FALSE
    <3>1. PICK l \in DOMAIN answered' : j = Before(i, l) /\ IsRefresh(l)'
      BY <1>3, <2>3
    <3>2. k < l <=> m < j
      BY <2>1, <3>1, AnswersLeft
    <3>3. k \in Nat /\ l \in Nat /\ m \in Nat /\ j \in Nat
      BY <2>2, AnswersLeft
    <3>4. l > k
      BY <2>3, <3>2, <3>3
    <3>. QED BY <1>5, <3>1, <3>4 DEF IsLastRefresh
  <2>4. IsLastRefresh(m)
    BY <2>2, <2>3 DEF IsLastRefresh
  <2>. QED BY <1>5, <2>2, <2>4 DEF Parts, LastIsCurrent
<1>6. LastIsCurrent'
  BY <1>5 DEF LastIsCurrent
<1>7. PagesFound => PagesFound'
  BY AnswersLeft DEF PagesFound
<1>. QED BY <1>1, <1>4, <1>6, <1>7

\* A correction arrives: one less of the click is under way, and if it was
\* the last one, the list is going to be fetched.
LEMMA CorrectedList ==
  ASSUME TypeInv, AskedInv, ListInv, NEW i \in DOMAIN answered, TokenCorrected(i)
  PROVE  ListInv'
<1>. SUFFICES ASSUME Parts PROVE Parts'
  <2>1. races \subseteq races'
    BY DEF TokenCorrected
  <2>. QED BY <2>1, ListParts
<1>1. PICK r, n, f : r = answered[i].req /\ n = r.n /\ f = Refresh(n)
  OBVIOUS
<1>2. /\ r.op = "correct" /\ ~IsRefresh(i) /\ answered' = Without(answered, i)
      /\ left' = [left EXCEPT ![n] = @ - 1]
      /\ pending' = IF left'[n] = 0 THEN pending \cup {f} ELSE pending
      /\ UNCHANGED <<corrected, list, items, active, closed, races>>
  BY <1>1 DEF TokenCorrected, Take, Done, IsRefresh, viewVars, serverVars
<1>3. /\ r \in Asked /\ n \in Click /\ f.op = "refresh" /\ r \notin pending
      /\ \A q \in pending : q.n \in Click
  BY <1>1, <1>2, AskedType DEF AskedInv, Refresh, Request, Asked
<1>4. /\ \A m \in Click : left[m] \in Int
      /\ left'[n] = left[n] - 1 /\ \A m \in Click : m # n => left'[m] = left[m]
  BY <1>2, <1>3 DEF TypeInv, TypeOK
<1>5. Asked' = (Asked \ {r}) \cup {q \in {f} : left'[n] = 0}
  <2>1. PICK D : D = {answered[j].req : j \in DOMAIN answered}
    OBVIOUS
  <2>2. {answered'[k].req : k \in DOMAIN answered'} = D \ {r}
    <3>1. \A k \in DOMAIN answered' : answered'[k].req \in D \ {r}
      <4>1. ASSUME NEW k \in DOMAIN answered' PROVE answered'[k].req # r
        BY <1>1, <1>2, AnswersLeft DEF AskedInv
      <4>. QED BY <1>2, <2>1, <4>1, AnswersLeft
    <3>2. ASSUME NEW q \in D \ {r} PROVE \E k \in DOMAIN answered' : q = answered'[k].req
      <4>1. PICK j \in DOMAIN answered : q = answered[j].req /\ j # i
        BY <1>1, <2>1
      <4>. QED BY <1>2, <4>1, AnswersLeft
    <3>. QED BY <3>1, <3>2
  <2>3. Asked = pending \cup D
    BY <2>1 DEF Asked
  <2>4. Asked' = pending' \cup (D \ {r})
    BY <2>2 DEF Asked
  <2>. QED BY <1>2, <1>3, <2>3, <2>4
<1>6. ASSUME NEW m \in Click, Awaited(m) PROVE Awaited(m)'
  <2>1. CASE m # n
    BY <1>2, <1>4, <1>6, <2>1 DEF Awaited
  <2>2. CASE m = n
    <3>1. left'[n] = 0 => f \in pending'
      BY <1>2
    <3>2. left[n] > 0 => left'[n] = 0 \/ left'[n] > 0
      BY <1>3, <1>4
    <3>3. pending \subseteq pending'
      BY <1>2
    <3>. QED BY <1>1, <1>6, <2>2, <3>1, <3>2, <3>3 DEF Awaited
  <2>. QED BY <2>1, <2>2
<1>7. Idle' => Idle
  BY <1>6 DEF Idle
<1>8. AllGood' /\ LastIsCurrent' /\ (NoRefresh' => NoRefresh) /\ (PagesFound => PagesFound')
  BY <1>2, <1>7, OthersLeft
<1>9. Counted'
  <2>1. ASSUME NEW m \in Click, m # n PROVE Batch(Asked', m) = Batch(Asked, m)
    BY <1>1, <1>3, <1>5, <2>1 DEF Batch
  <2>2. PICK B : B = Batch(Asked, n)
    OBVIOUS
  <2>3. Batch(Asked', n) = B \ {r} /\ r \in B
    BY <1>1, <1>2, <1>3, <1>5, <2>2 DEF Batch
  <2>4. IsFiniteSet(B)
    <3>1. PICK D : D = {answered[j].req : j \in DOMAIN answered}
      OBVIOUS
    <3>2. IsFiniteSet(D)
      <4>1. PICK len \in Nat : DOMAIN answered = 1..len
        BY LenProperties DEF TypeInv
      <4>2. PICK g : g = [j \in 1..len |-> answered[j].req]
        OBVIOUS
      <4>3. g \in Surjection(1..len, D)
        BY <3>1, <4>1, <4>2 DEF Surjection
      <4>4. IsFiniteSet(1..len)
        BY FS_Interval
      <4>. QED BY <4>3, <4>4, FS_Surjection
    <3>3. IsFiniteSet(Asked)
      <4>1. Asked = pending \cup D
        BY <3>1 DEF Asked
      <4>2. IsFiniteSet(pending)
        BY DEF AskedInv
      <4>. QED BY <3>2, <4>1, <4>2, FS_Union
    <3>4. B \subseteq Asked
      BY <2>2 DEF Batch
    <3>. QED BY <3>3, <3>4, FS_Subset
  <2>5. Cardinality(B) \in Nat /\ Cardinality(B \ {r}) = Cardinality(B) - 1
    BY <2>3, <2>4, FS_RemoveElement, FS_CardinalityType
  <2>6. left[n] <= Cardinality(B)
    BY <1>3, <2>2 DEF Parts, Counted
  <2>7. left'[n] <= Cardinality(Batch(Asked', n))
    BY <1>3, <1>4, <2>3, <2>5, <2>6
  <2>8. ASSUME NEW m \in Click PROVE left'[m] <= Cardinality(Batch(Asked', m))
    BY <1>4, <2>1, <2>7 DEF Parts, Counted
  <2>. QED BY <2>8 DEF Counted
<1>10. Promised'
  BY <1>2, <1>3, <1>6 DEF Parts, Promised
<1>11. ASSUME Settled PROVE Settled'
  <2>1. PagesIn(Asked') = PagesIn(Asked)
    BY <1>2, <1>3, <1>5 DEF PagesIn
  <2>2. ASSUME NEW v \in Int, ShownIs(v) PROVE ShownIs(v)'
    BY <1>2, <2>1, <2>2 DEF ShownIs, IsLastPage, PagesIn
  <2>. QED BY <1>2, <1>8, <1>11, <2>2 DEF Settled
<1>. QED BY <1>2, <1>7, <1>8, <1>9, <1>10, <1>11 DEF Parts

\* A page arrives.  It has not overtaken the one that was asked for last.
LEMMA FoundList ==
  ASSUME TypeInv, AskedInv, ListInv, NEW i \in DOMAIN answered, PageFound(i)
  PROVE  ListInv'
<1>. SUFFICES ASSUME Parts, Clean' PROVE Parts'
  <2>1. races \subseteq races'
    BY DEF PageFound
  <2>. QED BY <2>1, ListParts
<1>1. PICK r : r = answered[i].req
  OBVIOUS
<1>2. /\ r.op = "page" /\ ~IsRefresh(i) /\ answered' = Without(answered, i)
      /\ list' = answered[i].result
      /\ UNCHANGED <<corrected, items, active, closed, left, pending>>
  BY <1>1 DEF PageFound, Take, Show, IsRefresh, serverVars
<1>3. r \in Asked /\ Asked' = Asked \ {r}
  BY <1>1, <1>2, AskedType, TakeAsked
<1>4. \A m \in Click : Batch(Asked', m) = Batch(Asked, m) /\ (Awaited(m)' <=> Awaited(m))
  BY <1>2, <1>3 DEF Batch, Awaited
<1>5. Idle' <=> Idle
  BY <1>4 DEF Idle
<1>6. AllGood' /\ LastIsCurrent' /\ (NoRefresh' => NoRefresh) /\ (PagesFound => PagesFound')
  BY <1>2, <1>5, OthersLeft
<1>7. Counted'
  BY <1>2, <1>4 DEF Parts, Counted
<1>8. Promised'
  <2>1. \A q \in pending : q.n \in Click
    BY AskedType DEF Asked
  <2>. QED BY <1>2, <1>4, <2>1 DEF Parts, Promised
<1>9. \A q \in PagesIn(Asked) : r.n <= q.n
  <2>1. ASSUME NEW q \in PagesIn(Asked), q.n < r.n PROVE FALSE
    <3>1. q \in UnderWay({"page"})
      BY <2>1 DEF PagesIn, UnderWay, Asked
    <3>2. "overtaken" \in Overtaking(i)
      BY <1>1, <1>2, <2>1, <3>1 DEF Overtaking
    <3>. QED BY <3>2 DEF PageFound, Clean
  <2>2. \A q \in PagesIn(Asked) : q.n \in Nat
    BY AskedType DEF PagesIn
  <2>3. r.n \in Nat
    BY <1>3, AskedType
  <2>. QED BY <2>1, <2>2, <2>3
<1>10. ASSUME Settled PROVE Settled'
  <2>1. list' = Found(corrected, SkipFor(r.page))
    BY <1>1, <1>2, <1>10 DEF Settled, PagesFound
  <2>2. list'.total = list.total /\ PagesFound'
    BY <1>6, <1>10, <2>1 DEF Settled, Found
  <2>3. PICK v \in Int : ShownIs(v)
    BY <1>10 DEF Settled
  <2>4. ASSUME NEW q, IsLastPage(q, Asked') PROVE v = q.page
    <3>1. IsLastPage(q, Asked)
      BY <1>3, <1>9, <2>4 DEF IsLastPage, PagesIn
    <3>2. q \in Asked
      BY <3>1 DEF IsLastPage, PagesIn
    <3>. QED BY <2>3, <3>1, <3>2 DEF ShownIs
  <2>5. ASSUME PagesIn(Asked') = {} PROVE v = r.page
    <3>1. \A q \in PagesIn(Asked) : q = r
      BY <1>3, <2>5 DEF PagesIn
    <3>2. r \in PagesIn(Asked) /\ r.n <= r.n
      BY <1>2, <1>3, <1>9 DEF PagesIn
    <3>3. IsLastPage(r, Asked)
      BY <3>1, <3>2 DEF IsLastPage
    <3>. QED BY <1>3, <2>3, <3>3 DEF ShownIs
  <2>6. ShownIs(v)'
    <3>1. active' = PlacesOf(v, items') /\ LaidOut(v, PagesFor(list'.total), items')
      BY <1>2, <2>2, <2>3 DEF ShownIs
    <3>2. PagesIn(Asked') = {} => list' = Found(corrected', SkipFor(v))
      BY <1>2, <2>1, <2>5
    <3>. QED BY <2>4, <3>1, <3>2 DEF ShownIs
  <2>. QED BY <1>2, <1>10, <2>2, <2>6 DEF Settled
<1>. QED BY <1>2, <1>5, <1>6, <1>7, <1>8, <1>10 DEF Parts

\* The list arrives that was fetched anew.  No page is under way, and no list
\* that was read before.
LEMMA RefreshedList ==
  ASSUME TypeInv, AskedInv, ListInv, NEW i \in DOMAIN answered, Refreshed(i)
  PROVE  ListInv'
<1>. SUFFICES ASSUME Parts, Clean' PROVE Parts'
  <2>1. races \subseteq races'
    BY DEF Refreshed
  <2>. QED BY <2>1, ListParts
<1>1. PICK r, result : r = answered[i].req /\ result = answered[i].result
  OBVIOUS
<1>2. /\ r.op = "refresh" /\ IsRefresh(i) /\ answered' = Without(answered, i)
      /\ UNCHANGED <<corrected, left, pending>>
  BY <1>1 DEF Refreshed, Take, IsRefresh, serverVars
<1>3. r \in Asked /\ Asked' \subseteq Asked /\ Asked \ {r} \subseteq Asked'
  BY <1>1, <1>2, AskedType, TakeAsked
<1>4. \A m \in Click : Batch(Asked', m) = Batch(Asked, m) /\ (Awaited(m)' <=> Awaited(m))
  BY <1>2, <1>3 DEF Batch, Awaited
<1>5. Idle' <=> Idle
  BY <1>4 DEF Idle
<1>6. PagesIn(Asked) = {} /\ PagesIn(Asked') = {}
  <2>1. UnderWay({"page"}) = {}
    BY DEF Refreshed, Clean
  <2>2. PagesIn(Asked) \subseteq UnderWay({"page"})
    BY DEF PagesIn, UnderWay, Asked
  <2>. QED BY <1>3, <2>1, <2>2 DEF PagesIn
<1>7. \A j \in DOMAIN answered : j < i => ~IsRefresh(j)
  <2>1. ASSUME NEW j \in DOMAIN answered, j < i, IsRefresh(j) PROVE FALSE
    <3>1. j \in 1..i - 1
      <4>1. DOMAIN answered = 1..Len(answered) /\ Len(answered) \in Nat
        BY LenProperties DEF TypeInv
      <4>. QED BY <2>1, <4>1
    <3>2. "overtaken" \in Overtaking(i)
      BY <1>1, <1>2, <2>1, <3>1 DEF Overtaking, IsRefresh
    <3>. QED BY <3>2 DEF Refreshed, Clean
  <2>. QED BY <2>1
<1>8. AllGood'
  BY <1>2, AnswersLeft DEF Parts, AllGood
<1>9. Counted'
  BY <1>2, <1>4 DEF Parts, Counted
<1>10. Promised'
  <2>1. \A q \in pending : q.n \in Click
    BY AskedType DEF Asked
  <2>. QED BY <1>2, <1>4, <2>1 DEF Parts, Promised
\* The lists that are still under way were read later.
<1>11. ASSUME NEW j \in DOMAIN answered, j # i, IsRefresh(j)
       PROVE  \E k \in DOMAIN answered' : j = Before(i, k) /\ IsRefresh(k)'
  <2>1. PICK k \in DOMAIN answered' : j = Before(i, k) /\ answered'[k] = answered[j]
    BY <1>2, <1>11, AnswersLeft
  <2>. QED BY <1>11, <2>1 DEF IsRefresh
<1>12. ASSUME NEW k \in DOMAIN answered', IsLastRefresh(k)', Idle
       PROVE  answered'[k].result = Found(corrected, 0)
  <2>1. PICK m : m = Before(i, k)
    OBVIOUS
  <2>2. m \in DOMAIN answered /\ IsRefresh(m) /\ answered'[k] = answered[m] /\ m # i
    BY <1>2, <1>12, <2>1, AnswersLeft DEF IsLastRefresh, IsRefresh
  <2>3. ASSUME NEW j \in DOMAIN answered, j > m, IsRefresh(j) PROVE FALSE
    <3>1. m \in Nat /\ i \in Nat /\ j \in Nat
      BY <1>2, <2>2, AnswersLeft
    <3>2. ~(m < i)
      BY <1>7, <2>2
    <3>3. j # i
      BY <2>2, <2>3, <3>1, <3>2
    <3>4. PICK l \in DOMAIN answered' : j = Before(i, l) /\ IsRefresh(l)'
      BY <1>11, <2>3, <3>3
    <3>5. k < l <=> m < j
      BY <1>2, <2>1, <3>4, AnswersLeft
    <3>6. k \in Nat /\ l \in Nat
      BY <1>2, AnswersLeft
    <3>7. l > k
      BY <2>3, <3>1, <3>5, <3>6
    <3>. QED BY <1>12, <3>4, <3>7 DEF IsLastRefresh
  <2>4. IsLastRefresh(m)
    BY <2>2, <2>3 DEF IsLastRefresh
  <2>. QED BY <1>12, <2>2, <2>4 DEF Parts, LastIsCurrent
<1>13. LastIsCurrent'
  BY <1>2, <1>5, <1>12 DEF LastIsCurrent
<1>14. ASSUME ~closed', Idle', NoRefresh' PROVE Settled'
  <2>1. \A j \in DOMAIN answered : IsRefresh(j) => j = i
    BY <1>11, <1>14 DEF NoRefresh
  <2>2. IsLastRefresh(i)
    <3>1. \A j \in DOMAIN answered : j > i => j # i
      BY AnswersLeft, <1>2
    <3>. QED BY <1>2, <2>1, <3>1 DEF IsLastRefresh
  <2>3. result = Found(corrected, 0)
    BY <1>1, <1>5, <1>14, <2>2 DEF Parts, LastIsCurrent
  <2>4. result.total \in Nat /\ result.total # 0
    <3>1. result \in Result
      BY <1>1, AskedType DEF Answers
    <3>2. result.total # 0
      BY <1>1, <1>14 DEF Refreshed
    <3>. QED BY <3>1, <3>2 DEF Result
  <2>5. PICK max \in Nat : max = PagesFor(result.total) /\ max >= 1
    BY <2>4, PagesForType
  <2>6. list' = result /\ items' = FirstItems(max) /\ active' = PlacesOf(1, items')
    BY <1>1, <2>4, <2>5 DEF Refreshed, Show, ShowItems
  <2>7. LaidOut(1, max, items')
    BY <2>5, <2>6, FirstLaidOut
  <2>8. PagesFound'
    <3>1. \A k \in DOMAIN answered' : answered'[k].req \in Asked'
      BY DEF Asked
    <3>. QED BY <1>6, <3>1 DEF PagesFound, PagesIn
  <2>9. SkipFor(1) = 0
    BY ConcordanceAssumption DEF SkipFor
  <2>10. list'.total = Cardinality(UncorrectedIn(corrected')) /\ list'.total >= 1
    BY <1>2, <2>3, <2>4, <2>6 DEF Found
  <2>11. ShownIs(1)'
    BY <1>2, <1>6, <2>3, <2>5, <2>6, <2>7, <2>9 DEF ShownIs, IsLastPage
  <2>. QED BY <2>8, <2>10, <2>11 DEF Settled
<1>. QED BY <1>8, <1>9, <1>10, <1>13, <1>14 DEF Parts

LEMMA InitList == Init => AskedInv /\ ListInv
<1>. SUFFICES ASSUME Init PROVE AskedInv /\ ListInv
  OBVIOUS
<1>1. /\ closed = FALSE /\ left = [n \in Click |-> 0] /\ pending = {} /\ answered = <<>>
      /\ list = Search(0) /\ active = PlacesOf(1, items) /\ items = FirstItems(MaxPages)
  BY Zenon DEF Init
<1>2. DOMAIN answered = {} /\ Asked = {}
  BY <1>1 DEF Asked
<1>3. AskedInv
  BY <1>1, <1>2, FS_EmptySet DEF AskedInv, PagesIn
<1>4. \A n : Batch(Asked, n) = {}
  BY <1>2 DEF Batch
<1>5. AllGood /\ Counted /\ Promised /\ LastIsCurrent
  <2>1. \A n \in Click : left[n] = 0 /\ Cardinality(Batch(Asked, n)) = 0
    BY <1>1, <1>4, FS_EmptySet
  <2>2. Counted
    BY <2>1 DEF Counted
  <2>. QED BY <1>1, <1>2, <2>2 DEF AllGood, Promised, LastIsCurrent
<1>6. list = Found(corrected, 0)
  BY <1>1, SearchIs
<1>7. list.total = Cardinality(UncorrectedIn(corrected)) /\ list.total >= 1
  <2>1. UncorrectedIn(corrected) = Match
    BY DEF Init, UncorrectedIn
  <2>2. Cardinality(Match) \in Nat /\ Cardinality(Match) # 0
    BY ConcordanceAssumption, FS_CardinalityType, FS_EmptySet
  <2>. QED BY <1>6, <2>1, <2>2 DEF Found
<1>8. PICK max \in Nat : max = PagesFor(list.total) /\ max >= 1
  <2>1. list.total \in Nat /\ list.total > 0
    BY <1>7, InitType DEF TypeInv, TypeOK, Result
  <2>. QED BY <2>1, PagesForType
<1>9. LaidOut(1, max, items)
  BY <1>1, <1>8, FirstLaidOut DEF MaxPages
<1>10. SkipFor(1) = 0
  BY ConcordanceAssumption DEF SkipFor
<1>11. ShownIs(1)
  BY <1>1, <1>2, <1>6, <1>8, <1>9, <1>10 DEF ShownIs, IsLastPage, PagesIn
<1>12. Settled
  BY <1>2, <1>7, <1>11 DEF Settled, PagesFound
<1>. QED BY <1>3, <1>5, <1>12 DEF ListInv

LEMMA StepList ==
  ASSUME TypeInv, AskedInv, ListInv, [Next]_vars
  PROVE  ListInv'
<1>1. CASE \E i \in DOMAIN items : Paginate(i)
  BY <1>1, PaginateList
<1>2. CASE CorrectSelected \/ \E t \in list.tokens : CorrectOne(t)
  BY <1>2, SelectedAreSent, OneIsSent, CorrectList
<1>3. CASE \/ ToggleSelection \/ Close
           \/ \E t \in list.tokens : CorChecked(t)
           \/ \E t \in list.tokens, x \in Text : Write(t, x)
           \/ \E x \in Texts : SetCorrection(x)
  BY <1>3, EditList DEF CorChecked, Write, SetCorrection, ToggleSelection, Close, Edit, serverVars
<1>4. CASE Serve
  <2>1. PICK r \in pending : ServeCorrection(r) \/ ServeSearch(r)
    BY <1>4 DEF Serve
  <2>2. ServeSearch(r) => r.op \in {"page", "refresh"}
    BY DEF ServeSearch, Searches
  <2>. QED BY <2>1, <2>2, MadeList, PageList, RefreshList
<1>5. CASE Mishap
  <2>1. "failed" \in races'
    BY <1>5 DEF Mishap, Fail
  <2>. QED BY <2>1 DEF ListInv, Clean
<1>6. ASSUME NEW i \in DOMAIN answered, Failed(i) PROVE ListInv'
  <2>1. ~AllGood /\ races' = races
    BY <1>6 DEF Failed, Good, AllGood
  <2>. QED BY <2>1 DEF ListInv, Clean
<1>7. CASE \E i \in DOMAIN answered : TokenCorrected(i) \/ PageFound(i) \/ Refreshed(i)
  BY <1>7, CorrectedList, FoundList, RefreshedList
<1>8. CASE UNCHANGED vars
  BY <1>8, EditList DEF vars, viewVars, serverVars
<1>. QED BY <1>1, <1>2, <1>3, <1>4, <1>5, <1>6, <1>7, <1>8 DEF Next, UserStep, Receive

\* What is active is the page that is shown.
LEMMA ActiveValue ==
  ASSUME NEW max \in Nat, max >= 1, NEW v \in Int, active = PlacesOf(v, items),
         LaidOut(v, max, items)
  PROVE  FirstValue(active) = v
<1>1. PICK x \in Int : PlacesOf(v, items) = {x}
  BY OneActive DEF OneIsActive
<1>2. items[x] = v
  BY <1>1 DEF PlacesOf
<1>3. (CHOOSE i \in {x} : \A j \in {x} : i <= j) = x
  OBVIOUS
<1>. QED BY <1>1, <1>2, <1>3 DEF FirstValue

LEMMA ListSettled ==
  ASSUME TypeInv, ListInv
  PROVE  ListIsCurrent
<1>. SUFFICES ASSUME Quiet, Clean PROVE list = Search(SkipFor(FirstValue(active)))
  BY DEF ListIsCurrent, Clean
<1>1. pending = {} /\ DOMAIN answered = {} /\ Asked = {} /\ ~closed
  BY DEF Quiet, Asked
<1>2. \A n \in Click : ~Awaited(n)
  <2>1. \A n \in Click : left[n] <= 0
    <3>1. \A n : Batch(Asked, n) = {}
      BY <1>1 DEF Batch
    <3>. QED BY <3>1, FS_EmptySet DEF ListInv, Counted
  <2>2. \A n \in Click : left[n] \in Int
    BY DEF TypeInv, TypeOK
  <2>. QED BY <1>1, <2>1, <2>2 DEF Awaited
<1>3. Settled
  BY <1>1, <1>2 DEF ListInv, Idle, NoRefresh
<1>4. PICK v \in Int : ShownIs(v)
  BY <1>3 DEF Settled
<1>5. list = Found(corrected, SkipFor(v))
  BY <1>1, <1>4 DEF ShownIs, PagesIn
<1>6. PICK max \in Nat : max = PagesFor(list.total) /\ max >= 1
  <2>1. list.total \in Nat /\ list.total > 0
    BY <1>3 DEF Settled, TypeInv, TypeOK, Result
  <2>. QED BY <2>1, PagesForType
<1>7. FirstValue(active) = v
  BY <1>4, <1>6, ActiveValue DEF ShownIs
<1>. QED BY <1>5, <1>7, SearchIs

(* When nothing is under way the dialog shows what the search finds now on  *)
(* the page that is active: whatever the user has clicked, however many     *)
(* corrections and searches were under way and in whatever order they came, *)
(* unless one of the four races has happened that the property names.       *)
THEOREM ListIsCurrentWhenQuiet == Spec => []ListIsCurrent
<1>1. Init => TypeInv /\ AskedInv /\ ListInv
  BY InitType, InitList
<1>2. TypeInv /\ AskedInv /\ ListInv /\ [Next]_vars => (AskedInv /\ ListInv)'
  BY StepAsked, StepList
<1>3. TypeInv /\ ListInv => ListIsCurrent
  BY ListSettled
<1>. QED BY <1>1, <1>2, <1>3, AlwaysTyped, PTL DEF Spec

=============================================================================
