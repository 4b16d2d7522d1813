---------------------------- MODULE DbLineProofs ----------------------------
(***************************************************************************)
(* What the characters of a line keep through corrections, resets and OCR  *)
(* updates, for any alphabet and any lengths, and what the alignment of    *)
(* two strings gives.                                                      *)
(***************************************************************************)
EXTENDS DbLine, FiniteSetTheorems, SequenceTheorems, TLAPS

-----------------------------------------------------------------------------
(* Induction, over sets of numbers and of lists.                           *)

(* A set of numbers has a smallest one. *)
LEMMA LeastOf ==
  ASSUME NEW S \in SUBSET Nat, S # {}
  PROVE  \E i \in S : \A j \in S : i <= j
<1>. DEFINE R == OpToRel(<, Nat)
<1>1. IsWellFoundedOn(R, Nat)
  BY NatLessThanWellFounded
<1>. HIDE DEF R
<1>2. PICK i \in S : \A j \in S : <<j, i>> \notin R
  BY <1>1, WFMin
<1>3. \A j \in S : ~(j < i)
  BY <1>2 DEF R, OpToRel
<1>. QED BY <1>3

(* Min is this smallest one. *)
LEMMA MinOf ==
  ASSUME NEW S \in SUBSET Nat, S # {}
  PROVE  /\ Min(S) \in S /\ Min(S) \in Nat
         /\ \A j \in S : Min(S) <= j
<1>1. PICK i \in S : \A j \in S : i <= j
  BY LeastOf
<1>2. Min(S) \in S /\ \A j \in S : Min(S) <= j
  BY <1>1 DEF Min
<1>. QED BY <1>2

(* A set that holds 0 and with each number the next holds all of them. *)
LEMMA NumberInduction ==
  ASSUME NEW S \in SUBSET Nat, 0 \in S, \A n \in S : n + 1 \in S
  PROVE  S = Nat
<1>. SUFFICES ASSUME Nat \ S # {} PROVE FALSE
  OBVIOUS
<1>1. PICK i \in Nat \ S : \A j \in Nat \ S : i <= j
  BY LeastOf
<1>2. i # 0 /\ i - 1 \in Nat /\ i - 1 \in S
  BY <1>1
<1>. QED BY <1>1, <1>2

(* The operations on lists by names of their own: the provers see in them  *)
(* what the lemmas say and no more.                                        *)
Add(s, e) == Append(s, e)
Cat(s, t) == s \o t

LEMMA AddIs ==
  ASSUME NEW S, NEW s \in Seq(S), NEW e \in S
  PROVE  /\ Add(s, e) \in Seq(S)
         /\ Len(s) \in Nat
         /\ Len(Add(s, e)) = Len(s) + 1
         /\ \A i \in 1..Len(s) : Add(s, e)[i] = s[i]
         /\ Add(s, e)[Len(s) + 1] = e
BY DEF Add

LEMMA CatIs ==
  ASSUME NEW S, NEW s \in Seq(S), NEW t \in Seq(S)
  PROVE  /\ Cat(s, t) \in Seq(S)
         /\ Len(s) \in Nat /\ Len(t) \in Nat
         /\ Len(Cat(s, t)) = Len(s) + Len(t)
         /\ \A i \in 1..Len(s) : Cat(s, t)[i] = s[i]
         /\ \A i \in 1..Len(t) : Cat(s, t)[Len(s) + i] = t[i]
BY DEF Cat

LEMMA EmptyIs ==
  ASSUME NEW S
  PROVE  /\ <<>> \in Seq(S) /\ Len(<<>>) = 0
         /\ \A s \in Seq(S) : Len(s) = 0 => s = <<>>
OBVIOUS

LEMMA CatEmpty ==
  ASSUME NEW S, NEW s \in Seq(S)
  PROVE  Cat(s, <<>>) = s /\ Cat(<<>>, s) = s
BY ConcatEmptySeq DEF Cat

LEMMA CatAdd ==
  ASSUME NEW S, NEW s \in Seq(S), NEW t \in Seq(S), NEW e \in S
  PROVE  Cat(s, Add(t, e)) = Add(Cat(s, t), e)
BY DEF Cat, Add

(* A set that holds <<>> and with each list the longer ones holds all. *)
LEMMA ListInduction ==
  ASSUME NEW S, NEW A \in SUBSET Seq(S), <<>> \in A,
         \A s \in A, e \in S : Add(s, e) \in A
  PROVE  A = Seq(S)
<1>. DEFINE N == {n \in Nat : \A s \in Seq(S) : Len(s) = n => s \in A}
<1>1. 0 \in N
  BY EmptySeq
<1>2. ASSUME NEW n \in N
      PROVE  n + 1 \in N
  <2>1. SUFFICES ASSUME NEW s \in Seq(S), Len(s) = n + 1
                 PROVE  s \in A
    OBVIOUS
  <2>2. s # <<>>
    BY <2>1
  <2>3. PICK t \in Seq(S), e \in S : s = Add(t, e)
    BY <2>2, SequenceEmptyOrAppend DEF Add
  <2>4. Len(t) = n
    BY <2>1, <2>3, AddIs
  <2>. QED BY <2>3, <2>4
<1>. HIDE DEF N
<1>3. N = Nat
  BY <1>1, <1>2, NumberInduction DEF N
<1>. QED BY <1>3, LenProperties DEF N

-----------------------------------------------------------------------------
(* Those: the filter.                                                      *)

\* One step of the filter.
Sieved(f, s, C, i) ==
  CASE i = 0               -> <<>>
    [] i > 0 /\ s[i] \in C -> Append(f[i-1], s[i])
    [] OTHER               -> f[i-1]

(* The recursive function of Those exists. *)
LEMMA SieveExists ==
  ASSUME NEW s, NEW C, NEW n \in Nat
  PROVE  \E f : f = [i \in 0..n |-> Sieved(f, s, C, i)]
<1>. DEFINE N == {m \in Nat : \E f : f = [i \in 0..m |-> Sieved(f, s, C, i)]}
<1>1. 0 \in N
  <2>. DEFINE f == [i \in 0..0 |-> <<>>]
  <2>1. f = [i \in 0..0 |-> Sieved(f, s, C, i)]
    BY DEF Sieved
  <2>. QED BY <2>1
<1>2. ASSUME NEW m \in N
      PROVE  m + 1 \in N
  <2>1. PICK f : f = [i \in 0..m |-> Sieved(f, s, C, i)]
    OBVIOUS
  <2>. DEFINE g == [i \in 0..m+1 |-> IF i <= m THEN f[i] ELSE Sieved(f, s, C, i)]
  <2>2. ASSUME NEW i \in 0..m+1
        PROVE  g[i] = Sieved(g, s, C, i)
    <3>1. i # 0 => g[i-1] = f[i-1]
      OBVIOUS
    <3>2. Sieved(g, s, C, i) = Sieved(f, s, C, i)
      BY <3>1 DEF Sieved
    <3>3. i <= m => f[i] = Sieved(f, s, C, i)
      BY <2>1
    <3>. QED BY <3>2, <3>3
  <2>3. g = [i \in 0..m+1 |-> Sieved(g, s, C, i)]
    BY <2>2
  <2>. HIDE DEF g
  <2>4. \E h : h = [i \in 0..m+1 |-> Sieved(h, s, C, i)]
    BY <2>3
  <2>. QED BY <2>4
<1>. HIDE DEF N
<1>3. N = Nat
  BY <1>1, <1>2, NumberInduction DEF N
<1>. QED BY <1>3 DEF N

(* The function f of Those. *)
LEMMA ThoseDef ==
  ASSUME NEW s, Len(s) \in Nat, NEW C
  PROVE  \E f : /\ f[0] = <<>>
                /\ \A i \in 1..Len(s) :
                     f[i] = IF s[i] \in C THEN Append(f[i-1], s[i]) ELSE f[i-1]
                /\ Those(s, C) = f[Len(s)]
<1>1. \E f : f = [i \in 0..Len(s) |-> Sieved(f, s, C, i)]
  BY SieveExists
<1>2. Those(s, C) = (CHOOSE f : f = [i \in 0..Len(s) |-> Sieved(f, s, C, i)])[Len(s)]
  BY DEF Those, Sieved
<1>3. PICK f : /\ f = [i \in 0..Len(s) |-> Sieved(f, s, C, i)]
               /\ Those(s, C) = f[Len(s)]
  BY <1>1, <1>2
<1>4. \A i \in 0..Len(s) : f[i] = Sieved(f, s, C, i)
  BY <1>3
<1>5. f[0] = <<>>
  BY <1>4 DEF Sieved
<1>6. ASSUME NEW i \in 1..Len(s)
      PROVE  f[i] = IF s[i] \in C THEN Append(f[i-1], s[i]) ELSE f[i-1]
  BY <1>4 DEF Sieved
<1>. QED BY <1>3, <1>5, <1>6

LEMMA ThoseEmpty ==
  ASSUME NEW C
  PROVE  Those(<<>>, C) = <<>>
<1>1. Len(<<>>) = 0
  OBVIOUS
<1>. QED BY <1>1, ThoseDef

(* What comes last is added last, if it is one of C. *)
LEMMA ThoseAdd ==
  ASSUME NEW S, NEW s \in Seq(S), NEW e \in S, NEW C
  PROVE  Those(Add(s, e), C) = IF e \in C THEN Add(Those(s, C), e) ELSE Those(s, C)
<1>1. PICK t : t = Add(s, e)
  OBVIOUS
<1>2. PICK n : n = Len(s)
  OBVIOUS
<1>3. /\ n \in Nat /\ Len(t) = n + 1
      /\ \A i \in 1..n : t[i] = s[i]
      /\ t[n + 1] = e
  <2>1. /\ Len(s) \in Nat
        /\ Len(Add(s, e)) = Len(s) + 1
        /\ \A i \in 1..Len(s) : Add(s, e)[i] = s[i]
        /\ Add(s, e)[Len(s) + 1] = e
    BY AddIs
  <2>. QED BY <1>1, <1>2, <2>1, Zenon
<1>4. PICK f : /\ f[0] = <<>>
               /\ \A i \in 1..n : f[i] = IF s[i] \in C THEN Append(f[i-1], s[i]) ELSE f[i-1]
               /\ Those(s, C) = f[n]
  <2>1. Len(s) \in Nat
    BY <1>2, <1>3
  <2>2. PICK f : /\ f[0] = <<>>
                 /\ \A i \in 1..Len(s) :
                      f[i] = IF s[i] \in C THEN Append(f[i-1], s[i]) ELSE f[i-1]
                 /\ Those(s, C) = f[Len(s)]
    BY <2>1, ThoseDef
  <2>. QED BY <1>2, <2>2, Zenon
<1>5. PICK g : /\ g[0] = <<>>
               /\ \A i \in 1..n+1 : g[i] = IF t[i] \in C THEN Append(g[i-1], t[i]) ELSE g[i-1]
               /\ Those(t, C) = g[n + 1]
  <2>1. Len(t) \in Nat
    BY <1>3
  <2>2. PICK g : /\ g[0] = <<>>
                 /\ \A i \in 1..Len(t) :
                      g[i] = IF t[i] \in C THEN Append(g[i-1], t[i]) ELSE g[i-1]
                 /\ Those(t, C) = g[Len(t)]
    BY <2>1, ThoseDef
  <2>. QED BY <1>3, <2>2
<1>. DEFINE N == {i \in Nat : i <= n => f[i] = g[i]}
<1>6. 0 \in N
  BY <1>4, <1>5
<1>7. ASSUME NEW i \in N
      PROVE  i + 1 \in N
  <2>1. SUFFICES ASSUME i + 1 <= n
                 PROVE  f[i + 1] = g[i + 1]
    OBVIOUS
  <2>2. f[i] = g[i] /\ (i + 1) - 1 = i /\ t[i + 1] = s[i + 1]
    BY <1>3, <2>1
  <2>3. i + 1 \in 1..n /\ i + 1 \in 1..n+1
    BY <1>3, <2>1
  <2>. QED BY <1>4, <1>5, <2>2, <2>3
<1>. HIDE DEF N
<1>8. N = Nat
  BY <1>6, <1>7, NumberInduction DEF N
<1>9. f[n] = g[n]
  BY <1>3, <1>8 DEF N
<1>10. n + 1 \in 1..n+1 /\ (n + 1) - 1 = n
  BY <1>3
<1>11. Those(t, C) = IF e \in C THEN Append(g[n], e) ELSE g[n]
  BY <1>3, <1>5, <1>10
<1>. QED BY <1>1, <1>4, <1>9, <1>11 DEF Add

(* What is kept is a list of members of C. *)
LEMMA ThoseType ==
  ASSUME NEW S, NEW C, NEW s \in Seq(S)
  PROVE  Those(s, C) \in Seq(S \cap C) /\ Those(s, C) \in Seq(S)
<1>. DEFINE A == {t \in Seq(S) : Those(t, C) \in Seq(S \cap C)}
<1>1. <<>> \in A
  BY ThoseEmpty, EmptyIs
<1>2. ASSUME NEW t \in A, NEW e \in S
      PROVE  Add(t, e) \in A
  <2>1. Add(t, e) \in Seq(S)
    BY AddIs
  <2>2. Those(Add(t, e), C) = IF e \in C THEN Add(Those(t, C), e) ELSE Those(t, C)
    BY ThoseAdd
  <2>3. e \in C => Add(Those(t, C), e) \in Seq(S \cap C)
    BY AddIs
  <2>. QED BY <2>1, <2>2, <2>3
<1>. HIDE DEF A
<1>3. A = Seq(S)
  BY <1>1, <1>2, ListInduction DEF A
<1>4. Those(s, C) \in Seq(S \cap C)
  BY <1>3 DEF A
<1>. QED BY <1>4, SeqMonotonic

(* The filter of a list in two parts is in two parts. *)
LEMMA ThoseCat ==
  ASSUME NEW S, NEW C, NEW r \in Seq(S), NEW s \in Seq(S)
  PROVE  Those(Cat(r, s), C) = Cat(Those(r, C), Those(s, C))
<1>. DEFINE A == {t \in Seq(S) : Those(Cat(r, t), C) = Cat(Those(r, C), Those(t, C))}
<1>0. Those(r, C) \in Seq(S)
  BY ThoseType
<1>1. <<>> \in A
  BY <1>0, CatEmpty, EmptyIs, ThoseEmpty
<1>2. ASSUME NEW t \in A, NEW e \in S
      PROVE  Add(t, e) \in A
  <2>1. Add(t, e) \in Seq(S) /\ Cat(r, t) \in Seq(S)
    BY AddIs, CatIs
  <2>2. Cat(r, Add(t, e)) = Add(Cat(r, t), e)
    BY CatAdd
  <2>3. Those(Add(Cat(r, t), e), C) =
          IF e \in C THEN Add(Those(Cat(r, t), C), e) ELSE Those(Cat(r, t), C)
    BY <2>1, ThoseAdd
  <2>4. Those(Add(t, e), C) = IF e \in C THEN Add(Those(t, C), e) ELSE Those(t, C)
    BY ThoseAdd
  <2>5. Those(t, C) \in Seq(S)
    BY ThoseType
  <2>6. Add(Cat(Those(r, C), Those(t, C)), e) = Cat(Those(r, C), Add(Those(t, C), e))
    BY <1>0, <2>5, CatAdd
  <2>. QED BY <2>1, <2>2, <2>3, <2>4, <2>6
<1>. HIDE DEF A
<1>3. A = Seq(S)
  BY <1>1, <1>2, ListInduction DEF A
<1>. QED BY <1>3 DEF A

-----------------------------------------------------------------------------
(* Map: what every member of a list is taken to.                           *)

Map(l, g) == [i \in DOMAIN l |-> g[l[i]]]

LEMMA MapIs ==
  ASSUME NEW S, NEW T, NEW g \in [S -> T], NEW l \in Seq(S)
  PROVE  /\ Map(l, g) \in Seq(T) /\ Len(Map(l, g)) = Len(l)
         /\ DOMAIN Map(l, g) = 1..Len(l)
         /\ \A i \in 1..Len(l) : Map(l, g)[i] = g[l[i]]
<1>1. Len(l) \in Nat /\ DOMAIN l = 1..Len(l) /\ \A i \in 1..Len(l) : l[i] \in S
  OBVIOUS
<1>. QED BY <1>1 DEF Map

LEMMA MapEmpty ==
  ASSUME NEW g
  PROVE  Map(<<>>, g) = <<>>
BY DEF Map

(* Lists are the same if they have the same members. *)
LEMMA SameList ==
  ASSUME NEW S, NEW s \in Seq(S), NEW t \in Seq(S),
         Len(s) = Len(t), \A i \in 1..Len(s) : s[i] = t[i]
  PROVE  s = t
OBVIOUS

LEMMA MapAdd ==
  ASSUME NEW S, NEW T, NEW g \in [S -> T], NEW l \in Seq(S), NEW e \in S
  PROVE  Map(Add(l, e), g) = Add(Map(l, g), g[e])
<1>1. PICK y \in T : y = g[e]
  OBVIOUS
<1>2. PICK m \in Seq(T) : m = Map(l, g)
  BY MapIs
<1>3. Len(m) = Len(l) /\ \A i \in 1..Len(l) : m[i] = g[l[i]]
  BY <1>2, MapIs
<1>4. /\ Add(l, e) \in Seq(S) /\ Len(l) \in Nat /\ Len(Add(l, e)) = Len(l) + 1
      /\ \A i \in 1..Len(l) : Add(l, e)[i] = l[i]
      /\ Add(l, e)[Len(l) + 1] = e
  BY AddIs
<1>5. /\ Add(m, y) \in Seq(T) /\ Len(Add(m, y)) = Len(m) + 1
      /\ \A i \in 1..Len(m) : Add(m, y)[i] = m[i]
      /\ Add(m, y)[Len(m) + 1] = y
  BY AddIs
<1>6. /\ Map(Add(l, e), g) \in Seq(T)
      /\ Len(Map(Add(l, e), g)) = Len(Add(l, e))
      /\ \A i \in 1..Len(Add(l, e)) : Map(Add(l, e), g)[i] = g[Add(l, e)[i]]
  BY <1>4, MapIs
<1>7. ASSUME NEW i \in 1..Len(Add(l, e))
      PROVE  Map(Add(l, e), g)[i] = Add(m, y)[i]
  <2>1. CASE i = Len(l) + 1
    BY <1>1, <1>3, <1>4, <1>5, <1>6, <2>1
  <2>2. CASE i \in 1..Len(l)
    BY <1>3, <1>4, <1>5, <1>6, <2>2
  <2>. QED BY <1>4, <2>1, <2>2
<1>8. Map(Add(l, e), g) = Add(m, y)
  BY <1>3, <1>4, <1>5, <1>6, <1>7, SameList
<1>. QED BY <1>1, <1>2, <1>8

(* A map of two lists, one after the other. *)
LEMMA MapCat ==
  ASSUME NEW S, NEW T, NEW g \in [S -> T], NEW r \in Seq(S), NEW s \in Seq(S)
  PROVE  Map(Cat(r, s), g) = Cat(Map(r, g), Map(s, g))
<1>. DEFINE A == {t \in Seq(S) : Map(Cat(r, t), g) = Cat(Map(r, g), Map(t, g))}
<1>0. Map(r, g) \in Seq(T)
  BY MapIs
<1>1. <<>> \in A
  BY <1>0, CatEmpty, EmptyIs, MapEmpty
<1>2. ASSUME NEW t \in A, NEW e \in S
      PROVE  Add(t, e) \in A
  <2>1. Add(t, e) \in Seq(S) /\ Cat(r, t) \in Seq(S) /\ g[e] \in T
    BY AddIs, CatIs
  <2>2. Map(Cat(r, Add(t, e)), g) = Map(Add(Cat(r, t), e), g)
    BY CatAdd
  <2>3. Map(Add(Cat(r, t), e), g) = Add(Map(Cat(r, t), g), g[e])
    BY <2>1, MapAdd
  <2>4. Map(Add(t, e), g) = Add(Map(t, g), g[e])
    BY MapAdd
  <2>5. Map(t, g) \in Seq(T)
    BY MapIs
  <2>6. Add(Cat(Map(r, g), Map(t, g)), g[e]) = Cat(Map(r, g), Add(Map(t, g), g[e]))
    BY <1>0, <2>1, <2>5, CatAdd
  <2>. QED BY <2>1, <2>2, <2>3, <2>4, <2>6
<1>. HIDE DEF A
<1>3. A = Seq(S)
  BY <1>1, <1>2, ListInduction DEF A
<1>. QED BY <1>3 DEF A

(* A filter of what the members are taken to.                              *)
Sift(l, g, C) == Those(Map(l, g), C)

LEMMA SiftIs ==
  ASSUME NEW S, NEW T, NEW g \in [S -> T], NEW C, NEW l \in Seq(S)
  PROVE  Sift(l, g, C) \in Seq(T \cap C) /\ Sift(l, g, C) \in Seq(T)
<1>1. Map(l, g) \in Seq(T)
  BY MapIs
<1>. QED BY <1>1, ThoseType DEF Sift

LEMMA SiftEmpty ==
  ASSUME NEW g, NEW C
  PROVE  Sift(<<>>, g, C) = <<>>
BY MapEmpty, ThoseEmpty DEF Sift

LEMMA SiftAdd ==
  ASSUME NEW S, NEW T, NEW g \in [S -> T], NEW C, NEW l \in Seq(S), NEW e \in S
  PROVE  Sift(Add(l, e), g, C) = IF g[e] \in C THEN Add(Sift(l, g, C), g[e]) ELSE Sift(l, g, C)
<1>1. Map(l, g) \in Seq(T) /\ g[e] \in T
  BY MapIs
<1>2. Map(Add(l, e), g) = Add(Map(l, g), g[e])
  BY MapAdd
<1>. QED BY <1>1, <1>2, ThoseAdd DEF Sift

(* What g and C leave of two lists, one after the other. *)
LEMMA SiftCat ==
  ASSUME NEW T, NEW g \in [DbChar -> T], NEW C, NEW r \in Seq(DbChar), NEW s \in Seq(DbChar)
  PROVE  Sift(Cat(r, s), g, C) = Cat(Sift(r, g, C), Sift(s, g, C))
<1>1. Map(r, g) \in Seq(T) /\ Map(s, g) \in Seq(T)
  BY MapIs
<1>2. Map(Cat(r, s), g) = Cat(Map(r, g), Map(s, g))
  BY MapCat
<1>3. Those(Cat(Map(r, g), Map(s, g)), C) = Cat(Those(Map(r, g), C), Those(Map(s, g), C))
  BY <1>1, ThoseCat
<1>. QED BY <1>2, <1>3 DEF Sift

-----------------------------------------------------------------------------
(* The alignment.                                                          *)

\* The cells up to the n-th diagonal.
UpTo(ocr, gt, n) == {p \in Cells(ocr, gt) : p[1] + p[2] <= n}

LEMMA CellsAre ==
  ASSUME NEW ocr, NEW gt, Len(ocr) \in Nat, Len(gt) \in Nat
  PROVE  /\ \A p \in Cells(ocr, gt) : /\ p = <<p[1], p[2]>>
                                      /\ p[1] \in 0..Len(ocr) /\ p[2] \in 0..Len(gt)
         /\ \A i \in 0..Len(ocr), j \in 0..Len(gt) : <<i, j>> \in Cells(ocr, gt)
         /\ \A i \in 0..Len(ocr), j \in 0..Len(gt) : <<i, j>>[1] = i /\ <<i, j>>[2] = j
BY DEF Cells

LEMMA UpToIs ==
  ASSUME NEW ocr, NEW gt, Len(ocr) \in Nat, Len(gt) \in Nat
  PROVE  /\ UpTo(ocr, gt, 0) = {<<0, 0>>}
         /\ UpTo(ocr, gt, Len(ocr) + Len(gt)) = Cells(ocr, gt)
<1>1. ASSUME NEW p \in Cells(ocr, gt)
      PROVE  /\ p[1] + p[2] <= 0 <=> p = <<0, 0>>
             /\ p[1] + p[2] <= Len(ocr) + Len(gt)
  BY CellsAre
<1>2. <<0, 0>> \in Cells(ocr, gt)
  BY CellsAre
<1>. QED BY <1>1, <1>2 DEF UpTo

(* What holds of a cell if it holds of its neighbours holds of all cells.  *)
LEMMA CellInduction ==
  ASSUME NEW ocr, NEW gt, Len(ocr) \in Nat, Len(gt) \in Nat,
         NEW A \in SUBSET Cells(ocr, gt),
         \A i \in 0..Len(ocr), j \in 0..Len(gt) :
           /\ i > 0 => <<i-1, j>> \in A
           /\ j > 0 => <<i, j-1>> \in A
           /\ i > 0 /\ j > 0 => <<i-1, j-1>> \in A
           => <<i, j>> \in A
  PROVE  A = Cells(ocr, gt)
<1>. DEFINE N == {n \in Nat : UpTo(ocr, gt, n) \subseteq A}
<1>1. 0 \in N
  <2>1. 0 \in 0..Len(ocr) /\ 0 \in 0..Len(gt) /\ ~(0 > 0)
    OBVIOUS
  <2>2. <<0, 0>> \in A
    BY <2>1, Zenon
  <2>. QED BY <2>2, UpToIs
<1>2. ASSUME NEW n \in N
      PROVE  n + 1 \in N
  <2>1. SUFFICES ASSUME NEW i \in 0..Len(ocr), NEW j \in 0..Len(gt), i + j <= n + 1
                 PROVE  <<i, j>> \in A
    BY CellsAre, SMTT(30) DEF UpTo
  <2>2. \A h \in 0..Len(ocr), k \in 0..Len(gt) : h + k <= n => <<h, k>> \in A
    BY CellsAre, SMTT(30) DEF UpTo
  <2>3. i > 0 => i-1 \in 0..Len(ocr) /\ (i-1) + j <= n /\ (j > 0 => (i-1) + (j-1) <= n)
    BY <2>1
  <2>4. j > 0 => j-1 \in 0..Len(gt) /\ i + (j-1) <= n
    BY <2>1
  <2>. QED BY <2>2, <2>3, <2>4
<1>. HIDE DEF N
<1>3. N = Nat
  BY <1>1, <1>2, NumberInduction DEF N
<1>4. Len(ocr) + Len(gt) \in N
  BY <1>3
<1>. QED BY <1>4, UpToIs DEF N

(* The table is the one its entries define. *)
LEMMA TableIs ==
  ASSUME NEW ocr, NEW gt, Len(ocr) \in Nat, Len(gt) \in Nat,
         NEW i \in 0..Len(ocr), NEW j \in 0..Len(gt)
  PROVE  Table(ocr, gt)[<<i, j>>] = Entry(Table(ocr, gt), ocr, gt, i, j)
<1>. DEFINE N == {n \in Nat : \E l : l = [p \in UpTo(ocr, gt, n) |-> Entry(l, ocr, gt, p[1], p[2])]}
<1>1. 0 \in N
  <2>. DEFINE l == [p \in {<<0, 0>>} |-> 0]
  <2>1. l = [p \in {<<0, 0>>} |-> Entry(l, ocr, gt, p[1], p[2])]
    BY DEF Entry
  <2>. HIDE DEF l
  <2>2. \E h : h = [p \in UpTo(ocr, gt, 0) |-> Entry(h, ocr, gt, p[1], p[2])]
    BY <2>1, UpToIs
  <2>. QED BY <2>2
<1>2. ASSUME NEW n \in N
      PROVE  n + 1 \in N
  <2>1. PICK l : l = [p \in UpTo(ocr, gt, n) |-> Entry(l, ocr, gt, p[1], p[2])]
    OBVIOUS
  <2>. DEFINE m == [p \in UpTo(ocr, gt, n + 1) |->
                      IF p \in UpTo(ocr, gt, n) THEN l[p] ELSE Entry(l, ocr, gt, p[1], p[2])]
  <2>2. ASSUME NEW p \in UpTo(ocr, gt, n + 1)
        PROVE  m[p] = Entry(m, ocr, gt, p[1], p[2])
    <3>1. PICK h \in 0..Len(ocr), k \in 0..Len(gt) : p = <<h, k>> /\ h + k <= n + 1
      BY CellsAre, SMTT(30) DEF UpTo
    <3>2. p[1] = h /\ p[2] = k
      BY <3>1
    <3>3. h > 0 => m[<<h-1, k>>] = l[<<h-1, k>>]
      <4>1. h > 0 => <<h-1, k>> \in UpTo(ocr, gt, n) /\ <<h-1, k>> \in UpTo(ocr, gt, n + 1)
        BY <3>1, CellsAre, SMTT(30) DEF UpTo
      <4>. QED BY <4>1
    <3>4. k > 0 => m[<<h, k-1>>] = l[<<h, k-1>>]
      <4>1. k > 0 => <<h, k-1>> \in UpTo(ocr, gt, n) /\ <<h, k-1>> \in UpTo(ocr, gt, n + 1)
        BY <3>1, CellsAre, SMTT(30) DEF UpTo
      <4>. QED BY <4>1
    <3>5. h > 0 /\ k > 0 => m[<<h-1, k-1>>] = l[<<h-1, k-1>>]
      <4>1. SUFFICES ASSUME h > 0, k > 0
                     PROVE  m[<<h-1, k-1>>] = l[<<h-1, k-1>>]
        OBVIOUS
      <4>2. h-1 \in 0..Len(ocr) /\ k-1 \in 0..Len(gt) /\ (h-1) + (k-1) <= n
        BY <3>1, <4>1
      <4>3. <<h-1, k-1>> \in UpTo(ocr, gt, n) /\ <<h-1, k-1>> \in UpTo(ocr, gt, n + 1)
        BY <4>2, CellsAre, SMTT(30) DEF UpTo
      <4>. QED BY <4>3
    <3>6. m[p] = IF p \in UpTo(ocr, gt, n) THEN l[p] ELSE Entry(l, ocr, gt, p[1], p[2])
      OBVIOUS
    <3>. HIDE DEF m
    <3>7. Entry(m, ocr, gt, h, k) = Entry(l, ocr, gt, h, k)
      <4>1. CASE h = 0 \/ k = 0
        BY <3>1, <4>1 DEF Entry
      <4>2. CASE h > 0 /\ k > 0
        BY <3>1, <3>3, <3>4, <3>5, <4>2 DEF Entry
      <4>. QED BY <3>1, <4>1, <4>2
    <3>8. p \in UpTo(ocr, gt, n) => l[p] = Entry(l, ocr, gt, p[1], p[2])
      BY <2>1
    <3>. QED BY <3>2, <3>6, <3>7, <3>8
  <2>3. m = [p \in UpTo(ocr, gt, n + 1) |-> Entry(m, ocr, gt, p[1], p[2])]
    BY <2>2
  <2>. HIDE DEF m
  <2>4. \E h : h = [p \in UpTo(ocr, gt, n + 1) |-> Entry(h, ocr, gt, p[1], p[2])]
    BY <2>3
  <2>. QED BY <2>4
<1>. HIDE DEF N
<1>3. N = Nat
  BY <1>1, <1>2, NumberInduction DEF N
<1>4. Len(ocr) + Len(gt) \in N
  BY <1>3
<1>5. \E l : l = [p \in Cells(ocr, gt) |-> Entry(l, ocr, gt, p[1], p[2])]
  BY <1>4, UpToIs DEF N
<1>6. Table(ocr, gt) = CHOOSE l : l = [p \in Cells(ocr, gt) |-> Entry(l, ocr, gt, p[1], p[2])]
  BY DEF Table
<1>7. PICK l : /\ l = [p \in Cells(ocr, gt) |-> Entry(l, ocr, gt, p[1], p[2])]
               /\ l = Table(ocr, gt)
  BY <1>5, <1>6
<1>8. l[<<i, j>>] = Entry(l, ocr, gt, <<i, j>>[1], <<i, j>>[2])
  BY <1>7, CellsAre
<1>. QED BY <1>7, <1>8, CellsAre

(* Its entries are numbers. *)
LEMMA TableType ==
  ASSUME NEW ocr, NEW gt, Len(ocr) \in Nat, Len(gt) \in Nat,
         NEW i \in 0..Len(ocr), NEW j \in 0..Len(gt)
  PROVE  Table(ocr, gt)[<<i, j>>] \in Nat
<1>. DEFINE l == Table(ocr, gt)
            A == {p \in Cells(ocr, gt) : l[p] \in Nat}
<1>1. ASSUME NEW h \in 0..Len(ocr), NEW k \in 0..Len(gt),
             h > 0 => <<h-1, k>> \in A,
             k > 0 => <<h, k-1>> \in A,
             h > 0 /\ k > 0 => <<h-1, k-1>> \in A
      PROVE  <<h, k>> \in A
  <2>1. l[<<h, k>>] = Entry(l, ocr, gt, h, k)
    BY TableIs
  <2>2. CASE h = 0 \/ k = 0
    BY <2>1, <2>2, CellsAre DEF Entry
  <2>3. CASE h > 0 /\ k > 0
    <3>. DEFINE S == {l[<<h-1, k-1>>], l[<<h-1, k>>], l[<<h, k-1>>]}
    <3>1. l[<<h-1, k-1>>] \in Nat /\ S \in SUBSET Nat /\ S # {}
      BY <1>1, <2>3
    <3>2. Min(S) \in Nat
      BY <3>1, MinOf
    <3>. HIDE DEF S
    <3>3. l[<<h, k>>] = IF ocr[h] = gt[k] THEN l[<<h-1, k-1>>] ELSE 1 + Min(S)
      BY <2>1, <2>3 DEF Entry, S
    <3>. QED BY <3>1, <3>2, <3>3, CellsAre, SMTT(30)
  <2>. QED BY <2>2, <2>3
<1>. HIDE DEF A, l
<1>2. A \in SUBSET Cells(ocr, gt)
  BY DEF A
<1>3. A = Cells(ocr, gt)
  BY <1>1, <1>2, CellInduction
<1>. QED BY <1>3, CellsAre DEF A, l

(* What the backtracking chooses in a cell, and what it knows of the cell. *)
LEMMA ChoiceIs ==
  ASSUME NEW ocr, NEW gt, Len(ocr) \in Nat, Len(gt) \in Nat,
         NEW i \in 0..Len(ocr), NEW j \in 0..Len(gt), i > 0 \/ j > 0,
         NEW l, l = Table(ocr, gt)
  PROVE  \/ Choice(l, i, j) = "Del" /\ j > 0
         \/ Choice(l, i, j) = "Ins" /\ i > 0
         \/ Choice(l, i, j) = "Nop" /\ i > 0 /\ j > 0 /\ ocr[i] = gt[j]
         \/ Choice(l, i, j) = "Sub" /\ i > 0 /\ j > 0 /\ ocr[i] # gt[j]
<1>1. CASE i = 0
  BY <1>1 DEF Choice
<1>2. CASE i > 0 /\ j = 0
  BY <1>2 DEF Choice
<1>3. CASE i > 0 /\ j > 0
  <2>. DEFINE S == {l[<<i-1, j-1>>], l[<<i, j-1>>], l[<<i-1, j>>]}
              R == {l[<<i-1, j-1>>], l[<<i-1, j>>], l[<<i, j-1>>]}
  <2>1. i-1 \in 0..Len(ocr) /\ j-1 \in 0..Len(gt)
    BY <1>3
  <2>2. l[<<i-1, j-1>>] \in Nat /\ l[<<i, j-1>>] \in Nat /\ l[<<i-1, j>>] \in Nat
    BY <2>1, TableType
  <2>3. S = R /\ S \in SUBSET Nat /\ S # {}
    BY <2>2
  <2>4. Min(S) \in Nat
    BY <2>3, MinOf
  <2>5. l[<<i, j>>] = Entry(l, ocr, gt, i, j)
    BY TableIs
  <2>6. l[<<i, j>>] = IF ocr[i] = gt[j] THEN l[<<i-1, j-1>>] ELSE 1 + Min(R)
    BY <1>3, <2>5 DEF Entry
  <2>7. Choice(l, i, j) =
          IF l[<<i-1, j-1>>] = Min(S)
          THEN IF l[<<i-1, j-1>>] = l[<<i, j>>] THEN "Nop" ELSE "Sub"
          ELSE IF l[<<i, j-1>>] = Min(S) THEN "Del" ELSE "Ins"
    BY <1>3 DEF Choice
  <2>. HIDE DEF S, R
  <2>. QED BY <1>3, <2>2, <2>3, <2>4, <2>6, <2>7
<1>. QED BY <1>1, <1>2, <1>3

(* The scripts are those that Traced defines. *)
LEMMA BackIs ==
  ASSUME NEW ocr, NEW gt, Len(ocr) \in Nat, Len(gt) \in Nat,
         NEW i \in 0..Len(ocr), NEW j \in 0..Len(gt)
  PROVE  Back(ocr, gt)[<<i, j>>] = Traced(Back(ocr, gt), Table(ocr, gt), gt, i, j)
<1>1. PICK l : l = Table(ocr, gt)
  OBVIOUS
<1>. DEFINE N == {n \in Nat : \E b : b = [p \in UpTo(ocr, gt, n) |-> Traced(b, l, gt, p[1], p[2])]}
<1>2. 0 \in N
  <2>. DEFINE b == [p \in {<<0, 0>>} |-> <<>>]
  <2>1. b = [p \in {<<0, 0>>} |-> Traced(b, l, gt, p[1], p[2])]
    BY DEF Traced
  <2>. HIDE DEF b
  <2>2. \E h : h = [p \in UpTo(ocr, gt, 0) |-> Traced(h, l, gt, p[1], p[2])]
    BY <2>1, UpToIs
  <2>. QED BY <2>2
<1>3. ASSUME NEW n \in N
      PROVE  n + 1 \in N
  <2>1. PICK b : b = [p \in UpTo(ocr, gt, n) |-> Traced(b, l, gt, p[1], p[2])]
    OBVIOUS
  <2>. DEFINE m == [p \in UpTo(ocr, gt, n + 1) |->
                      IF p \in UpTo(ocr, gt, n) THEN b[p] ELSE Traced(b, l, gt, p[1], p[2])]
  <2>2. ASSUME NEW p \in UpTo(ocr, gt, n + 1)
        PROVE  m[p] = Traced(m, l, gt, p[1], p[2])
    <3>1. PICK h \in 0..Len(ocr), k \in 0..Len(gt) : p = <<h, k>> /\ h + k <= n + 1
      BY CellsAre, SMTT(30) DEF UpTo
    <3>2. p[1] = h /\ p[2] = k
      BY <3>1
    <3>3. h > 0 => m[<<h-1, k>>] = b[<<h-1, k>>]
      <4>1. h > 0 => <<h-1, k>> \in UpTo(ocr, gt, n) /\ <<h-1, k>> \in UpTo(ocr, gt, n + 1)
        BY <3>1, CellsAre, SMTT(30) DEF UpTo
      <4>. QED BY <4>1
    <3>4. k > 0 => m[<<h, k-1>>] = b[<<h, k-1>>]
      <4>1. k > 0 => <<h, k-1>> \in UpTo(ocr, gt, n) /\ <<h, k-1>> \in UpTo(ocr, gt, n + 1)
        BY <3>1, CellsAre, SMTT(30) DEF UpTo
      <4>. QED BY <4>1
    <3>5. h > 0 /\ k > 0 => m[<<h-1, k-1>>] = b[<<h-1, k-1>>]
      <4>1. SUFFICES ASSUME h > 0, k > 0
                     PROVE  m[<<h-1, k-1>>] = b[<<h-1, k-1>>]
        OBVIOUS
      <4>2. h-1 \in 0..Len(ocr) /\ k-1 \in 0..Len(gt) /\ (h-1) + (k-1) <= n
        BY <3>1, <4>1
      <4>3. <<h-1, k-1>> \in UpTo(ocr, gt, n) /\ <<h-1, k-1>> \in UpTo(ocr, gt, n + 1)
        BY <4>2, CellsAre, SMTT(30) DEF UpTo
      <4>. QED BY <4>3
    <3>6. m[p] = IF p \in UpTo(ocr, gt, n) THEN b[p] ELSE Traced(b, l, gt, p[1], p[2])
      OBVIOUS
    <3>. HIDE DEF m
    <3>7. Traced(m, l, gt, h, k) = Traced(b, l, gt, h, k)
      <4>1. CASE h = 0 /\ k = 0
        BY <4>1 DEF Traced
      <4>2. CASE h > 0 \/ k > 0
        <5>1. \/ Choice(l, h, k) = "Del" /\ k > 0
              \/ Choice(l, h, k) = "Ins" /\ h > 0
              \/ Choice(l, h, k) \notin {"Del", "Ins"} /\ h > 0 /\ k > 0
          BY <1>1, <3>1, <4>2, ChoiceIs
        <5>. QED BY <3>1, <3>3, <3>4, <3>5, <4>2, <5>1 DEF Traced
      <4>. QED BY <3>1, <4>1, <4>2
    <3>8. p \in UpTo(ocr, gt, n) => b[p] = Traced(b, l, gt, p[1], p[2])
      BY <2>1
    <3>. QED BY <3>2, <3>6, <3>7, <3>8
  <2>3. m = [p \in UpTo(ocr, gt, n + 1) |-> Traced(m, l, gt, p[1], p[2])]
    BY <2>2
  <2>. HIDE DEF m
  <2>4. \E h : h = [p \in UpTo(ocr, gt, n + 1) |-> Traced(h, l, gt, p[1], p[2])]
    BY <2>3
  <2>. QED BY <2>4
<1>. HIDE DEF N
<1>4. N = Nat
  BY <1>2, <1>3, NumberInduction DEF N
<1>5. Len(ocr) + Len(gt) \in N
  BY <1>4
<1>6. \E b : b = [p \in Cells(ocr, gt) |-> Traced(b, l, gt, p[1], p[2])]
  BY <1>5, UpToIs DEF N
<1>7. Back(ocr, gt) = CHOOSE b : b = [p \in Cells(ocr, gt) |-> Traced(b, l, gt, p[1], p[2])]
  BY <1>1 DEF Back
<1>8. PICK b : /\ b = [p \in Cells(ocr, gt) |-> Traced(b, l, gt, p[1], p[2])]
               /\ b = Back(ocr, gt)
  BY <1>6, <1>7
<1>9. b[<<i, j>>] = Traced(b, l, gt, <<i, j>>[1], <<i, j>>[2])
  BY <1>8, CellsAre
<1>. QED BY <1>1, <1>8, <1>9, CellsAre

Op == [op: {"Nop", "Sub", "Ins", "Del"}, c: Nat]

\* What the backtracking does in a cell.
Move(ocr, gt, i, j) == Choice(Table(ocr, gt), i, j)

\* The script of a cell in terms of those of its neighbours.
Extends(b, ocr, gt, i, j) ==
  \/ i = 0 /\ j = 0 /\ b[<<i, j>>] = <<>>
  \/ /\ j > 0 /\ Move(ocr, gt, i, j) = "Del"
     /\ b[<<i, j>>] = Add(b[<<i, j-1>>], [op |-> "Del", c |-> gt[j]])
  \/ /\ i > 0 /\ Move(ocr, gt, i, j) = "Ins"
     /\ b[<<i, j>>] = Add(b[<<i-1, j>>], [op |-> "Ins", c |-> 0])
  \/ /\ i > 0 /\ j > 0 /\ Move(ocr, gt, i, j) = "Nop" /\ ocr[i] = gt[j]
     /\ b[<<i, j>>] = Add(b[<<i-1, j-1>>], [op |-> "Nop", c |-> gt[j]])
  \/ /\ i > 0 /\ j > 0 /\ Move(ocr, gt, i, j) = "Sub" /\ ocr[i] # gt[j]
     /\ b[<<i, j>>] = Add(b[<<i-1, j-1>>], [op |-> "Sub", c |-> gt[j]])

(* The script of a cell is that of a neighbour and one operation that fits *)
(* the cell.                                                               *)
LEMMA BackStep ==
  ASSUME NEW ocr, NEW gt, Len(ocr) \in Nat, Len(gt) \in Nat,
         NEW i \in 0..Len(ocr), NEW j \in 0..Len(gt)
  PROVE  Extends(Back(ocr, gt), ocr, gt, i, j)
<1>1. PICK l : l = Table(ocr, gt)
  OBVIOUS
<1>0. PICK b : b = Back(ocr, gt)
  OBVIOUS
<1>3. b[<<i, j>>] = Traced(b, l, gt, i, j)
  BY <1>0, <1>1, BackIs
<1>4. Extends(b, ocr, gt, i, j)
  <2>1. CASE i = 0 /\ j = 0
    BY <1>3, <2>1 DEF Traced, Extends
  <2>2. CASE i > 0 \/ j > 0
    <3>1. \/ Choice(l, i, j) = "Del" /\ j > 0
          \/ Choice(l, i, j) = "Ins" /\ i > 0
          \/ Choice(l, i, j) = "Nop" /\ i > 0 /\ j > 0 /\ ocr[i] = gt[j]
          \/ Choice(l, i, j) = "Sub" /\ i > 0 /\ j > 0 /\ ocr[i] # gt[j]
      BY <1>1, <2>2, ChoiceIs
    <3>2. ~(i = 0 /\ j = 0)
      BY <2>2
    <3>3. CASE Choice(l, i, j) = "Del" /\ j > 0
      BY <1>1, <1>3, <3>2, <3>3 DEF Traced, Add, Move, Extends
    <3>4. CASE Choice(l, i, j) = "Ins" /\ i > 0
      BY <1>1, <1>3, <3>2, <3>4 DEF Traced, Add, Move, Extends
    <3>5. CASE Choice(l, i, j) = "Nop" /\ i > 0 /\ j > 0 /\ ocr[i] = gt[j]
      BY <1>1, <1>3, <3>2, <3>5 DEF Traced, Add, Move, Extends
    <3>6. CASE Choice(l, i, j) = "Sub" /\ i > 0 /\ j > 0 /\ ocr[i] # gt[j]
      BY <1>1, <1>3, <3>2, <3>6 DEF Traced, Add, Move, Extends
    <3>. QED BY <3>1, <3>3, <3>4, <3>5, <3>6
  <2>. QED BY <2>1, <2>2
<1>. QED BY <1>0, <1>4

(* Scripts are lists of operations. *)
LEMMA BackType ==
  ASSUME NEW ocr, NEW gt \in Seq(Nat), Len(ocr) \in Nat,
         NEW i \in 0..Len(ocr), NEW j \in 0..Len(gt)
  PROVE  Back(ocr, gt)[<<i, j>>] \in Seq(Op)
<1>. DEFINE b == Back(ocr, gt)
            A == {p \in Cells(ocr, gt) : b[p] \in Seq(Op)}
<1>2. Len(gt) \in Nat
  OBVIOUS
<1>3. ASSUME NEW h \in 0..Len(ocr), NEW k \in 0..Len(gt),
             h > 0 => <<h-1, k>> \in A,
             k > 0 => <<h, k-1>> \in A,
             h > 0 /\ k > 0 => <<h-1, k-1>> \in A
      PROVE  <<h, k>> \in A
  <2>1. <<h, k>> \in Cells(ocr, gt)
    BY <1>2, CellsAre
  <2>2. k > 0 => gt[k] \in Nat
    OBVIOUS
  <2>3. \A c \in Nat, o \in {"Nop", "Sub", "Ins", "Del"}, s \in Seq(Op) :
          Add(s, [op |-> o, c |-> c]) \in Seq(Op)
    BY AddIs DEF Op
  <2>4. Extends(b, ocr, gt, h, k)
    BY <1>2, BackStep
  <2>5. /\ h > 0 => b[<<h-1, k>>] \in Seq(Op)
        /\ k > 0 => b[<<h, k-1>>] \in Seq(Op)
        /\ h > 0 /\ k > 0 => b[<<h-1, k-1>>] \in Seq(Op)
    BY <1>3
  <2>. HIDE DEF b, A
  <2>6. b[<<h, k>>] \in Seq(Op)
    <3>1. CASE b[<<h, k>>] = <<>>
      BY <3>1, EmptyIs
    <3>2. CASE k > 0 /\ b[<<h, k>>] = Add(b[<<h, k-1>>], [op |-> "Del", c |-> gt[k]])
      BY <2>2, <2>3, <2>5, <3>2, Zenon
    <3>3. CASE h > 0 /\ b[<<h, k>>] = Add(b[<<h-1, k>>], [op |-> "Ins", c |-> 0])
      <4>1. 0 \in Nat
        OBVIOUS
      <4>. QED BY <2>3, <2>5, <3>3, <4>1, Zenon
    <3>4. CASE h > 0 /\ k > 0 /\ b[<<h, k>>] = Add(b[<<h-1, k-1>>], [op |-> "Nop", c |-> gt[k]])
      BY <2>2, <2>3, <2>5, <3>4, Zenon
    <3>5. CASE h > 0 /\ k > 0 /\ b[<<h, k>>] = Add(b[<<h-1, k-1>>], [op |-> "Sub", c |-> gt[k]])
      BY <2>2, <2>3, <2>5, <3>5, Zenon
    <3>. QED BY <2>4, <3>1, <3>2, <3>3, <3>4, <3>5 DEF Extends
  <2>. QED BY <2>1, <2>6 DEF A
<1>. HIDE DEF A, b
<1>4. A \in SUBSET Cells(ocr, gt)
  BY DEF A
<1>5. A = Cells(ocr, gt)
  BY <1>2, <1>3, <1>4, CellInduction
<1>. QED BY <1>2, <1>5, CellsAre DEF A, b

-----------------------------------------------------------------------------
(* Run: a script applied to a slice.                                       *)

Start(size) == [done |-> <<>>, at |-> 1, size |-> size]

\* f is the function st of Run.
IsRun(f, part, script, size, left, right) ==
  /\ f[0] = Start(size)
  /\ \A k \in 1..Len(script) : f[k] = CorrectedAt(f[k-1], script[k], part, left, right)
  /\ Run(part, script, size, left, right) = f[Len(script)]

(* The recursive function of Run exists. *)
LEMMA RunDef ==
  ASSUME NEW part, NEW script, Len(script) \in Nat, NEW size, NEW left, NEW right
  PROVE  \E f : IsRun(f, part, script, size, left, right)
<1>. DEFINE G(f, k) == IF k = 0 THEN Start(size)
                       ELSE CorrectedAt(f[k-1], script[k], part, left, right)
            N == {m \in Nat : \E f : f = [k \in 0..m |-> G(f, k)]}
<1>1. 0 \in N
  <2>. DEFINE f == [k \in 0..0 |-> Start(size)]
  <2>1. f = [k \in 0..0 |-> G(f, k)]
    OBVIOUS
  <2>. HIDE DEF f
  <2>2. \E h : h = [k \in 0..0 |-> G(h, k)]
    BY <2>1
  <2>. QED BY <2>2
<1>2. ASSUME NEW m \in N
      PROVE  m + 1 \in N
  <2>1. PICK f : f = [k \in 0..m |-> G(f, k)]
    OBVIOUS
  <2>. DEFINE g == [k \in 0..m+1 |-> IF k <= m THEN f[k] ELSE G(f, k)]
  <2>2. ASSUME NEW k \in 0..m+1
        PROVE  g[k] = G(g, k)
    <3>1. k # 0 => g[k-1] = f[k-1]
      OBVIOUS
    <3>2. G(g, k) = G(f, k)
      BY <3>1
    <3>. HIDE DEF G
    <3>3. k <= m => f[k] = G(f, k)
      BY <2>1
    <3>. QED BY <3>2, <3>3
  <2>. HIDE DEF G
  <2>3. g = [k \in 0..m+1 |-> G(g, k)]
    BY <2>2
  <2>. HIDE DEF g
  <2>4. \E h : h = [k \in 0..m+1 |-> G(h, k)]
    BY <2>3
  <2>. QED BY <2>4
<1>. HIDE DEF N
<1>3. N = Nat
  BY <1>1, <1>2, NumberInduction DEF N
<1>4. \E f : f = [k \in 0..Len(script) |-> G(f, k)]
  BY <1>3 DEF N
<1>5. Run(part, script, size, left, right) =
        (CHOOSE f : f = [k \in 0..Len(script) |-> G(f, k)])[Len(script)]
  BY DEF Run, Start
<1>. HIDE DEF G
<1>6. PICK f : /\ f = [k \in 0..Len(script) |-> G(f, k)]
               /\ Run(part, script, size, left, right) = f[Len(script)]
  BY <1>4, <1>5
<1>7. \A k \in 0..Len(script) : f[k] = G(f, k)
  BY <1>6
<1>8. f[0] = Start(size)
  BY <1>7 DEF G
<1>9. ASSUME NEW k \in 1..Len(script)
      PROVE  f[k] = CorrectedAt(f[k-1], script[k], part, left, right)
  BY <1>7 DEF G
<1>. QED BY <1>6, <1>8, <1>9 DEF IsRun

LEMMA RunEmpty ==
  ASSUME NEW part, NEW size, NEW left, NEW right
  PROVE  Run(part, <<>>, size, left, right) = Start(size)
<1>1. Len(<<>>) = 0
  OBVIOUS
<1>2. PICK f : IsRun(f, part, <<>>, size, left, right)
  BY <1>1, RunDef
<1>. QED BY <1>1, <1>2 DEF IsRun

(* A script that is one operation longer. *)
LEMMA RunAdd ==
  ASSUME NEW S, NEW s \in Seq(S), NEW e \in S,
         NEW part, NEW size, NEW left, NEW right
  PROVE  Run(part, Add(s, e), size, left, right) =
           CorrectedAt(Run(part, s, size, left, right), e, part, left, right)
<1>. DEFINE G(st, o) == CorrectedAt(st, o, part, left, right)
<1>1. PICK t : t = Add(s, e)
  OBVIOUS
<1>2. PICK n : n = Len(s)
  OBVIOUS
<1>3. /\ n \in Nat /\ Len(t) = n + 1
      /\ \A i \in 1..n : t[i] = s[i]
      /\ t[n + 1] = e
  <2>1. /\ Len(s) \in Nat
        /\ Len(Add(s, e)) = Len(s) + 1
        /\ \A i \in 1..Len(s) : Add(s, e)[i] = s[i]
        /\ Add(s, e)[Len(s) + 1] = e
    BY AddIs
  <2>. QED BY <1>1, <1>2, <2>1, Zenon
<1>4. PICK f : /\ f[0] = Start(size)
               /\ \A i \in 1..n : f[i] = G(f[i-1], s[i])
               /\ Run(part, s, size, left, right) = f[n]
  <2>1. Len(s) \in Nat
    BY <1>2, <1>3
  <2>2. PICK f : IsRun(f, part, s, size, left, right)
    BY <2>1, RunDef
  <2>. QED BY <1>2, <2>2 DEF IsRun
<1>5. PICK g : /\ g[0] = Start(size)
               /\ \A i \in 1..n+1 : g[i] = G(g[i-1], t[i])
               /\ Run(part, t, size, left, right) = g[n + 1]
  <2>1. Len(t) \in Nat
    BY <1>3
  <2>2. PICK g : IsRun(g, part, t, size, left, right)
    BY <2>1, RunDef
  <2>. QED BY <1>3, <2>2 DEF IsRun
<1>. HIDE DEF G
<1>. DEFINE N == {i \in Nat : i <= n => f[i] = g[i]}
<1>6. 0 \in N
  BY <1>4, <1>5
<1>7. ASSUME NEW i \in N
      PROVE  i + 1 \in N
  <2>1. SUFFICES ASSUME i + 1 <= n
                 PROVE  f[i + 1] = g[i + 1]
    OBVIOUS
  <2>2. f[i] = g[i] /\ (i + 1) - 1 = i /\ t[i + 1] = s[i + 1]
    BY <1>3, <2>1
  <2>3. i + 1 \in 1..n /\ i + 1 \in 1..n+1
    BY <1>3, <2>1
  <2>. QED BY <1>4, <1>5, <2>2, <2>3
<1>. HIDE DEF N
<1>8. N = Nat
  BY <1>6, <1>7, NumberInduction DEF N
<1>9. f[n] = g[n]
  BY <1>3, <1>8 DEF N
<1>10. n + 1 \in 1..n+1 /\ (n + 1) - 1 = n
  BY <1>3
<1>11. Run(part, t, size, left, right) = G(g[n], e)
  BY <1>3, <1>5, <1>10
<1>. QED BY <1>1, <1>4, <1>9, <1>11 DEF G

-----------------------------------------------------------------------------
(* Characters, and what is read off them.                                  *)

Pos  == Nat \ {0}
Code == Letter \cup {NoChar}
OCR == [c \in DbChar |-> c.ocr]
COR == [c \in DbChar |-> GetCor(c)]

LEMMA LettersAre ==
  /\ Letter \subseteq Pos
  /\ \A x \in Letter : x \in Nat /\ x # NoChar /\ x # DEL /\ x > 0
  /\ Code \cap Pos = Letter
<1>1. Letter \subseteq Pos
  BY CharAssumption DEF Letter, Pos
<1>2. \A x \in Pos : x \in Nat /\ x # NoChar /\ x # DEL /\ x > 0
  BY DEF Pos, NoChar, DEL
<1>. QED BY <1>1, <1>2 DEF Code

LEMMA CharIs ==
  ASSUME NEW c \in DbChar
  PROVE  /\ c.ocr \in Letter \cup {NoChar} /\ c.cor \in Letter \cup {NoChar, DEL}
         /\ c.cut \in Int /\ c.id \in Nat /\ c.manually \in BOOLEAN
         /\ c.ocr = NoChar => c.cor \in Letter
         /\ c \in OcrChar <=> c.ocr # NoChar
         /\ GetCor(c) \in Letter \cup {NoChar}
         /\ c.cor \in Letter => GetCor(c) = c.cor
         /\ c.cor = DEL => GetCor(c) = NoChar
         /\ c.ocr \in Pos <=> c \in OcrChar
<1>1. /\ c.ocr \in Letter \cup {NoChar} /\ c.cor \in Letter \cup {NoChar, DEL}
      /\ c.cut \in Int /\ c.id \in Nat /\ c.manually \in BOOLEAN
      /\ c.ocr = NoChar => c.cor \in Letter
  BY DEF DbChar
<1>2. c \in OcrChar <=> c.ocr # NoChar
  BY <1>1, LettersAre DEF OcrChar, IsIns
<1>3. /\ GetCor(c) \in Letter \cup {NoChar}
      /\ c.cor \in Letter => GetCor(c) = c.cor
      /\ c.cor = DEL => GetCor(c) = NoChar
  BY <1>1, LettersAre DEF GetCor, IsCor, NoChar, DEL
<1>4. c.ocr \in Pos <=> c.ocr # NoChar
  BY <1>1, LettersAre DEF Pos, NoChar
<1>. QED BY <1>1, <1>2, <1>3, <1>4

LEMMA OcrCharIs == OcrChar \subseteq DbChar /\ Seq(OcrChar) \subseteq Seq(DbChar)
<1>1. OcrChar \subseteq DbChar
  BY DEF OcrChar
<1>. QED BY <1>1, SeqMonotonic

LEMMA FunctionsOfChars ==
  OCR \in [DbChar -> Code] /\ COR \in [DbChar -> Code]
BY CharIs DEF OCR, COR, Code

LEMMA CharsMap ==
  ASSUME NEW g \in [DbChar -> Code], NEW l \in Seq(DbChar)
  PROVE  /\ Map(l, g) \in Seq(Code) /\ Len(Map(l, g)) = Len(l)
         /\ \A i \in 1..Len(l) : Map(l, g)[i] = g[l[i]]
<1>1. Map(l, g) \in Seq(Code)
  BY MapIs
<1>2. Len(l) \in Nat /\ DOMAIN l = 1..Len(l)
  OBVIOUS
<1>3. Len(Map(l, g)) = Len(l) /\ \A i \in 1..Len(l) : Map(l, g)[i] = g[l[i]]
  BY <1>2 DEF Map
<1>. QED BY <1>1, <1>2, <1>3

LEMMA CharsAdd ==
  ASSUME NEW g \in [DbChar -> Code], NEW l \in Seq(DbChar), NEW c \in DbChar
  PROVE  /\ Map(Add(l, c), g) = Add(Map(l, g), g[c])
         /\ Sift(Add(l, c), g, Pos) = IF g[c] \in Pos THEN Add(Sift(l, g, Pos), g[c])
                                      ELSE Sift(l, g, Pos)
<1>1. Map(Add(l, c), g) = Add(Map(l, g), g[c])
  BY MapAdd
<1>2. Sift(Add(l, c), g, Pos) = IF g[c] \in Pos THEN Add(Sift(l, g, Pos), g[c])
                                ELSE Sift(l, g, Pos)
  <2>1. Map(l, g) \in Seq(Code) /\ g[c] \in Code
    BY MapIs
  <2>. QED BY <1>1, <2>1, ThoseAdd DEF Sift
<1>. QED BY <1>1, <1>2

(* wocr and wcor are filters. *)
LEMMA StringsAre ==
  ASSUME NEW l \in Seq(DbChar)
  PROVE  /\ Wocr(l) = Sift(l, OCR, Pos) /\ Wocr(l) \in Seq(Letter)
         /\ Wcor(l) = Sift(l, COR, Pos) /\ Wcor(l) \in Seq(Letter)
<1>1. \A i \in DOMAIN l : l[i] \in DbChar
  OBVIOUS
<1>2. [i \in DOMAIN l |-> l[i].ocr] = Map(l, OCR)
  BY <1>1 DEF Map, OCR
<1>3. [i \in DOMAIN l |-> GetCor(l[i])] = Map(l, COR)
  BY <1>1 DEF Map, COR
<1>4. Wocr(l) = Sift(l, OCR, Pos) /\ Wcor(l) = Sift(l, COR, Pos)
  BY <1>2, <1>3 DEF Wocr, Wcor, Sift, Pos
<1>5. /\ Sift(l, OCR, Pos) \in Seq(Code \cap Pos)
      /\ Sift(l, COR, Pos) \in Seq(Code \cap Pos)
  BY FunctionsOfChars, SiftIs
<1>. QED BY <1>4, <1>5, LettersAre

(* Nothing of what was read by the OCR is left out of a list of characters *)
(* that it has read.                                                       *)
LEMMA OcrCharsAre ==
  ASSUME NEW l \in Seq(OcrChar)
  PROVE  Map(l, OCR) \in Seq(Letter) /\ Wocr(l) = Map(l, OCR)
<1>. DEFINE A == {t \in Seq(OcrChar) : Wocr(t) = Map(t, OCR)}
<1>1. <<>> \in A
  <2>1. <<>> \in Seq(DbChar) /\ <<>> \in Seq(OcrChar)
    BY EmptyIs
  <2>. QED BY <2>1, StringsAre, SiftEmpty, MapEmpty
<1>2. ASSUME NEW t \in A, NEW e \in OcrChar
      PROVE  Add(t, e) \in A
  <2>1. Add(t, e) \in Seq(OcrChar)
    BY AddIs
  <2>2. t \in Seq(DbChar) /\ Add(t, e) \in Seq(DbChar) /\ e \in DbChar
    BY <2>1, OcrCharIs
  <2>3. OCR[e] \in Pos
    BY <2>2, CharIs DEF OCR
  <2>4. Sift(Add(t, e), OCR, Pos) = Add(Sift(t, OCR, Pos), OCR[e])
    BY <2>2, <2>3, FunctionsOfChars, CharsAdd
  <2>5. Map(Add(t, e), OCR) = Add(Map(t, OCR), OCR[e])
    BY <2>2, FunctionsOfChars, CharsAdd
  <2>. QED BY <2>1, <2>2, <2>4, <2>5, StringsAre
<1>. HIDE DEF A
<1>3. A = Seq(OcrChar)
  BY <1>1, <1>2, ListInduction DEF A
<1>4. Wocr(l) = Map(l, OCR)
  BY <1>3 DEF A
<1>. QED BY <1>4, OcrCharIs, StringsAre

-----------------------------------------------------------------------------
(* A correction: a cleared slice, its text, and what the slice knows of    *)
(* the line.                                                               *)

Job == [part: Seq(OcrChar), gt: Seq(Letter), size: Nat, left: Int, right: Int]
State == [done: Seq(DbChar), at: Nat, size: Nat]

OcrOf(r) == Map(r.part, OCR)

\* The state after the script of a cell.
To(r, i, j) == Run(r.part, Back(OcrOf(r), r.gt)[<<i, j>>], r.size, r.left, r.right)

MoveOf(r, i, j) == Move(OcrOf(r), r.gt, i, j)

\* Its characters: one inserted, one corrected.
New(r, st, c) == Inserted(st, r.part, c, r.left, r.right)
Fix(c, x) == [c EXCEPT !.cor = x]

LEMMA JobIs ==
  ASSUME NEW r \in Job
  PROVE  /\ r.part \in Seq(OcrChar) /\ r.part \in Seq(DbChar)
         /\ r.gt \in Seq(Letter) /\ r.gt \in Seq(Nat)
         /\ r.size \in Nat /\ r.left \in Int /\ r.right \in Int
         /\ Len(r.part) \in Nat /\ Len(r.gt) \in Nat
         /\ Len(OcrOf(r)) = Len(r.part)
         /\ \A i \in 1..Len(r.part) : /\ r.part[i] \in OcrChar /\ r.part[i] \in DbChar
                                      /\ OcrOf(r)[i] = r.part[i].ocr
         /\ \A j \in 1..Len(r.gt) : r.gt[j] \in Letter
<1>1. /\ r.part \in Seq(OcrChar) /\ r.gt \in Seq(Letter)
      /\ r.size \in Nat /\ r.left \in Int /\ r.right \in Int
  BY DEF Job
<1>2. /\ Len(r.part) \in Nat /\ Len(r.gt) \in Nat
      /\ \A i \in 1..Len(r.part) : r.part[i] \in OcrChar
      /\ \A j \in 1..Len(r.gt) : r.gt[j] \in Letter
  BY <1>1
<1>3. r.part \in Seq(DbChar) /\ \A i \in 1..Len(r.part) : r.part[i] \in DbChar
  BY <1>1, <1>2, OcrCharIs
<1>4. Letter \subseteq Nat
  BY LettersAre
<1>5. r.gt \in Seq(Nat)
  BY <1>1, <1>4, SeqMonotonic
<1>6. Len(OcrOf(r)) = Len(r.part) /\ \A i \in 1..Len(r.part) : OcrOf(r)[i] = OCR[r.part[i]]
  BY <1>3, FunctionsOfChars, CharsMap DEF OcrOf
<1>7. \A i \in 1..Len(r.part) : OcrOf(r)[i] = r.part[i].ocr
  BY <1>3, <1>6 DEF OCR
<1>. QED BY <1>1, <1>2, <1>3, <1>5, <1>6, <1>7

\* The state of a cell in terms of those of its neighbours, by correct_at.
Follows(r, i, j) ==
  \/ i = 0 /\ j = 0 /\ To(r, i, j) = Start(r.size)
  \/ /\ j > 0 /\ MoveOf(r, i, j) = "Del"
     /\ To(r, i, j) = CorrectedAt(To(r, i, j-1), [op |-> "Del", c |-> r.gt[j]],
                                  r.part, r.left, r.right)
  \/ /\ i > 0 /\ MoveOf(r, i, j) = "Ins"
     /\ To(r, i, j) = CorrectedAt(To(r, i-1, j), [op |-> "Ins", c |-> 0],
                                  r.part, r.left, r.right)
  \/ /\ i > 0 /\ j > 0 /\ MoveOf(r, i, j) = "Nop" /\ OcrOf(r)[i] = r.gt[j]
     /\ To(r, i, j) = CorrectedAt(To(r, i-1, j-1), [op |-> "Nop", c |-> r.gt[j]],
                                  r.part, r.left, r.right)
  \/ /\ i > 0 /\ j > 0 /\ MoveOf(r, i, j) = "Sub"
     /\ To(r, i, j) = CorrectedAt(To(r, i-1, j-1), [op |-> "Sub", c |-> r.gt[j]],
                                  r.part, r.left, r.right)

(* The slice at a cell follows from that at a neighbour by the operation   *)
(* that Choice takes.                                                      *)
LEMMA ToFollows ==
  ASSUME NEW r \in Job, NEW i \in 0..Len(r.part), NEW j \in 0..Len(r.gt)
  PROVE  Follows(r, i, j)
<1>. DEFINE b == Back(OcrOf(r), r.gt)
            run(s) == Run(r.part, s, r.size, r.left, r.right)
<1>1. /\ Len(r.part) \in Nat /\ Len(r.gt) \in Nat /\ Len(OcrOf(r)) = Len(r.part)
      /\ r.gt \in Seq(Nat)
  BY JobIs
<1>2. Extends(b, OcrOf(r), r.gt, i, j)
  BY <1>1, BackStep
<1>3. \A h \in 0..Len(r.part), k \in 0..Len(r.gt) : b[<<h, k>>] \in Seq(Op)
  BY <1>1, BackType
<1>4. \A s \in Seq(Op), e \in Op : run(Add(s, e)) = CorrectedAt(run(s), e, r.part, r.left, r.right)
  BY RunAdd
<1>5. \A h, k : To(r, h, k) = run(b[<<h, k>>])
  BY DEF To
<1>6. run(<<>>) = Start(r.size)
  BY RunEmpty
<1>7. \A o \in {"Nop", "Sub", "Ins", "Del"}, c \in Nat : [op |-> o, c |-> c] \in Op
  BY DEF Op
<1>8. j > 0 => r.gt[j] \in Nat
  BY <1>1
<1>. HIDE DEF b, run
<1>9. CASE i = 0 /\ j = 0 /\ b[<<i, j>>] = <<>>
  BY <1>5, <1>6, <1>9 DEF Follows
<1>10. CASE /\ j > 0 /\ Move(OcrOf(r), r.gt, i, j) = "Del"
            /\ b[<<i, j>>] = Add(b[<<i, j-1>>], [op |-> "Del", c |-> r.gt[j]])
  <2>1. b[<<i, j-1>>] \in Seq(Op)
    BY <1>1, <1>3, <1>10
  <2>2. [op |-> "Del", c |-> r.gt[j]] \in Op
    BY <1>7, <1>8, <1>10
  <2>3. run(b[<<i, j>>]) = CorrectedAt(run(b[<<i, j-1>>]), [op |-> "Del", c |-> r.gt[j]],
                                       r.part, r.left, r.right)
    BY <1>4, <1>10, <2>1, <2>2, Zenon
  <2>. QED BY <1>5, <1>10, <2>3 DEF Follows, MoveOf
<1>11. CASE /\ i > 0 /\ Move(OcrOf(r), r.gt, i, j) = "Ins"
            /\ b[<<i, j>>] = Add(b[<<i-1, j>>], [op |-> "Ins", c |-> 0])
  <2>1. b[<<i-1, j>>] \in Seq(Op)
    BY <1>1, <1>3, <1>11
  <2>2. [op |-> "Ins", c |-> 0] \in Op
    BY <1>7
  <2>3. run(b[<<i, j>>]) = CorrectedAt(run(b[<<i-1, j>>]), [op |-> "Ins", c |-> 0],
                                       r.part, r.left, r.right)
    BY <1>4, <1>11, <2>1, <2>2, Zenon
  <2>. QED BY <1>5, <1>11, <2>3 DEF Follows, MoveOf
<1>12. CASE /\ i > 0 /\ j > 0 /\ Move(OcrOf(r), r.gt, i, j) = "Nop" /\ OcrOf(r)[i] = r.gt[j]
            /\ b[<<i, j>>] = Add(b[<<i-1, j-1>>], [op |-> "Nop", c |-> r.gt[j]])
  <2>0. i-1 \in 0..Len(r.part) /\ j-1 \in 0..Len(r.gt)
    BY <1>1, <1>12, SMTT(30)
  <2>1. b[<<i-1, j-1>>] \in Seq(Op)
    BY <1>3, <2>0
  <2>2. [op |-> "Nop", c |-> r.gt[j]] \in Op
    BY <1>7, <1>8, <1>12
  <2>3. run(b[<<i, j>>]) = CorrectedAt(run(b[<<i-1, j-1>>]), [op |-> "Nop", c |-> r.gt[j]],
                                       r.part, r.left, r.right)
    BY <1>4, <1>12, <2>1, <2>2, Zenon
  <2>. QED BY <1>5, <1>12, <2>3 DEF Follows, MoveOf
<1>13. CASE /\ i > 0 /\ j > 0 /\ Move(OcrOf(r), r.gt, i, j) = "Sub"
            /\ b[<<i, j>>] = Add(b[<<i-1, j-1>>], [op |-> "Sub", c |-> r.gt[j]])
  <2>0. i-1 \in 0..Len(r.part) /\ j-1 \in 0..Len(r.gt)
    BY <1>1, <1>13, SMTT(30)
  <2>1. b[<<i-1, j-1>>] \in Seq(Op)
    BY <1>3, <2>0
  <2>2. [op |-> "Sub", c |-> r.gt[j]] \in Op
    BY <1>7, <1>8, <1>13
  <2>3. run(b[<<i, j>>]) = CorrectedAt(run(b[<<i-1, j-1>>]), [op |-> "Sub", c |-> r.gt[j]],
                                       r.part, r.left, r.right)
    BY <1>4, <1>13, <2>1, <2>2, Zenon
  <2>. QED BY <1>5, <1>13, <2>3 DEF Follows, MoveOf
<1>. QED BY <1>2, <1>9, <1>10, <1>11, <1>12, <1>13 DEF Extends

\* The cuts an inserted character lies between.
LeftCut(r, st)  == IF st.done = <<>> THEN r.left ELSE Last(st.done).cut
RightCut(r, st) == IF st.at > Len(r.part) THEN r.right ELSE r.part[st.at].cut

LEMMA HalfIs ==
  ASSUME NEW d \in Int
  PROVE  Half(d) \in Int
BY DEF Half

(* The character that insert makes. *)
LEMMA NewIs ==
  ASSUME NEW r \in Job, NEW st \in State, st.at \in 1..Len(r.part) + 1, NEW c \in Letter
  PROVE  /\ LeftCut(r, st) \in Int /\ RightCut(r, st) \in Int
         /\ New(r, st, c) \in DbChar /\ New(r, st, c) \notin OcrChar
         /\ New(r, st, c).ocr = NoChar /\ New(r, st, c).cor = c
         /\ New(r, st, c).id = st.size /\ New(r, st, c).manually = FALSE
         /\ New(r, st, c).cut = LeftCut(r, st) + Half(RightCut(r, st) - LeftCut(r, st))
<1>1. st.done \in Seq(DbChar) /\ st.at \in Nat /\ st.size \in Nat
  BY DEF State
<1>2. LeftCut(r, st) \in Int
  <2>1. CASE st.done = <<>>
    BY <2>1, JobIs DEF LeftCut
  <2>2. CASE st.done # <<>>
    <3>1. Last(st.done) \in DbChar
      BY <1>1, <2>2 DEF Last
    <3>. QED BY <2>2, <3>1, CharIs DEF LeftCut
  <2>. QED BY <2>1, <2>2
<1>3. RightCut(r, st) \in Int
  <2>1. CASE st.at > Len(r.part)
    BY <2>1, JobIs DEF RightCut
  <2>2. CASE ~(st.at > Len(r.part))
    <3>1. r.part[st.at] \in DbChar
      BY <1>1, <2>2, JobIs
    <3>. QED BY <2>2, <3>1, CharIs DEF RightCut
  <2>. QED BY <2>1, <2>2
<1>4. PICK cut \in Int : cut = LeftCut(r, st) + Half(RightCut(r, st) - LeftCut(r, st))
  <2>1. RightCut(r, st) - LeftCut(r, st) \in Int
    BY <1>2, <1>3
  <2>2. Half(RightCut(r, st) - LeftCut(r, st)) \in Int
    BY <2>1, HalfIs
  <2>. QED BY <1>2, <2>2
<1>5. New(r, st, c) = [ocr |-> NoChar, cor |-> c, id |-> st.size, manually |-> FALSE, cut |-> cut]
  BY <1>4 DEF New, Inserted, LeftCut, RightCut
<1>6. New(r, st, c) \in DbChar
  BY <1>1, <1>4, <1>5 DEF DbChar
<1>7. New(r, st, c) \notin OcrChar
  BY <1>5, <1>6, CharIs
<1>. QED BY <1>2, <1>3, <1>4, <1>5, <1>6, <1>7

(* The character that set, noop and erase make. *)
LEMMA FixIs ==
  ASSUME NEW c \in OcrChar, NEW x \in Letter \cup {NoChar, DEL}
  PROVE  /\ Fix(c, x) \in DbChar /\ Fix(c, x) \in OcrChar
         /\ Fix(c, x).ocr = c.ocr /\ Fix(c, x).cor = x
         /\ Fix(c, x).cut = c.cut /\ Fix(c, x).id = c.id
         /\ Fix(c, x).manually = c.manually
<1>1. c \in DbChar /\ c.ocr # NoChar
  BY OcrCharIs, CharIs
<1>2. /\ Fix(c, x).ocr = c.ocr /\ Fix(c, x).cor = x
      /\ Fix(c, x).cut = c.cut /\ Fix(c, x).id = c.id
      /\ Fix(c, x).manually = c.manually
  BY <1>1 DEF Fix, DbChar
<1>3. Fix(c, x) \in DbChar
  BY <1>1 DEF Fix, DbChar
<1>. QED BY <1>1, <1>2, <1>3, CharIs

LEMMA WrittenIs ==
  ASSUME NEW r, NEW st \in State, NEW x
  PROVE  Written(st, r.part, x) = [done |-> Add(st.done, Fix(r.part[st.at], x)),
                                   at |-> st.at + 1, size |-> st.size]
<1>1. PICK c : c = [r.part[st.at] EXCEPT !.cor = x]
  OBVIOUS
<1>2. PICK d : d = Append(st.done, c)
  OBVIOUS
<1>3. st = [done |-> st.done, at |-> st.at, size |-> st.size]
  BY DEF State
<1>4. Written(st, r.part, x) = [[st EXCEPT !.done = d] EXCEPT !.at = @ + 1]
  BY <1>1, <1>2, <1>3 DEF Written
<1>5. Written(st, r.part, x) = [done |-> d, at |-> st.at + 1, size |-> st.size]
  BY <1>3, <1>4
<1>. QED BY <1>1, <1>2, <1>5 DEF Add, Fix

LEMMA DelIs ==
  ASSUME NEW r, NEW st \in State, NEW x
  PROVE  CorrectedAt(st, [op |-> "Del", c |-> x], r.part, r.left, r.right) =
           [done |-> Add(st.done, New(r, st, x)), at |-> st.at, size |-> st.size + 1]
BY DEF CorrectedAt, State, Add, New

LEMMA InsIs ==
  ASSUME NEW r, NEW st \in State, NEW x
  PROVE  CorrectedAt(st, [op |-> "Ins", c |-> x], r.part, r.left, r.right) =
           [done |-> Add(st.done, Fix(r.part[st.at], DEL)), at |-> st.at + 1, size |-> st.size]
<1>1. CorrectedAt(st, [op |-> "Ins", c |-> x], r.part, r.left, r.right) = Written(st, r.part, DEL)
  BY DEF CorrectedAt
<1>. QED BY <1>1, WrittenIs

LEMMA SubIs ==
  ASSUME NEW r, NEW st \in State, NEW x
  PROVE  CorrectedAt(st, [op |-> "Sub", c |-> x], r.part, r.left, r.right) =
           [done |-> Add(st.done, Fix(r.part[st.at], x)), at |-> st.at + 1, size |-> st.size]
<1>1. CorrectedAt(st, [op |-> "Sub", c |-> x], r.part, r.left, r.right) = Written(st, r.part, x)
  BY DEF CorrectedAt
<1>. QED BY <1>1, WrittenIs

LEMMA NopIs ==
  ASSUME NEW r, NEW st \in State, NEW x, r.part[st.at].ocr = x
  PROVE  CorrectedAt(st, [op |-> "Nop", c |-> x], r.part, r.left, r.right) =
           [done |-> Add(st.done, Fix(r.part[st.at], x)), at |-> st.at + 1, size |-> st.size]
<1>1. CorrectedAt(st, [op |-> "Nop", c |-> x], r.part, r.left, r.right) =
        Written(st, r.part, r.part[st.at].ocr)
  BY DEF CorrectedAt
<1>. QED BY <1>1, WrittenIs

\* The characters a cell adds to those of its neighbour.
Grows(r, i, j) ==
  \/ /\ i = 0 /\ j = 0
     /\ To(r, i, j).done = <<>> /\ To(r, i, j).size = r.size
  \/ /\ j > 0 /\ MoveOf(r, i, j) = "Del"
     /\ To(r, i, j).done = Add(To(r, i, j-1).done, New(r, To(r, i, j-1), r.gt[j]))
     /\ To(r, i, j).size = To(r, i, j-1).size + 1
  \/ /\ i > 0 /\ MoveOf(r, i, j) = "Ins"
     /\ To(r, i, j).done = Add(To(r, i-1, j).done, Fix(r.part[i], DEL))
     /\ To(r, i, j).size = To(r, i-1, j).size
  \/ /\ i > 0 /\ j > 0 /\ MoveOf(r, i, j) \notin {"Del", "Ins"}
     /\ To(r, i, j).done = Add(To(r, i-1, j-1).done, Fix(r.part[i], r.gt[j]))
     /\ To(r, i, j).size = To(r, i-1, j-1).size

(* A step from a neighbour leads to a state, and it grows the slice. *)
LEMMA GrowsStep ==
  ASSUME NEW r \in Job, NEW i \in 0..Len(r.part), NEW j \in 0..Len(r.gt),
         i > 0 => To(r, i-1, j) \in State /\ To(r, i-1, j).at = i,
         j > 0 => To(r, i, j-1) \in State /\ To(r, i, j-1).at = i + 1,
         i > 0 /\ j > 0 => To(r, i-1, j-1) \in State /\ To(r, i-1, j-1).at = i
  PROVE  To(r, i, j) \in State /\ To(r, i, j).at = i + 1 /\ Grows(r, i, j)
<1>1. /\ i \in Nat /\ j \in Nat /\ i <= Len(r.part)
      /\ i > 0 => r.part[i] \in OcrChar /\ OcrOf(r)[i] = r.part[i].ocr
      /\ j > 0 => r.gt[j] \in Letter
  <2>1. i > 0 => i \in 1..Len(r.part)
    BY JobIs
  <2>2. j > 0 => j \in 1..Len(r.gt)
    BY JobIs
  <2>. QED BY <2>1, <2>2, JobIs
<1>2. \A d \in Seq(DbChar), c \in DbChar : Add(d, c) \in Seq(DbChar)
  BY AddIs
<1>3. \A st \in State : st.done \in Seq(DbChar) /\ st.at \in Nat /\ st.size \in Nat
  BY DEF State
<1>4. PICK x : x = r.gt[j]
  OBVIOUS
<1>5. CASE i = 0 /\ j = 0 /\ To(r, i, j) = Start(r.size)
  <2>1. <<>> \in Seq(DbChar) /\ r.size \in Nat
    BY JobIs, EmptyIs
  <2>2. To(r, i, j) = [done |-> <<>>, at |-> 1, size |-> r.size]
    BY <1>5 DEF Start
  <2>3. 1 \in Nat
    OBVIOUS
  <2>4. /\ To(r, i, j) \in State /\ To(r, i, j).done = <<>>
        /\ To(r, i, j).at = 1 /\ To(r, i, j).size = r.size
    BY <2>1, <2>2, <2>3 DEF State
  <2>. QED BY <1>5, <2>4 DEF Grows
<1>6. CASE /\ j > 0 /\ MoveOf(r, i, j) = "Del"
           /\ To(r, i, j) = CorrectedAt(To(r, i, j-1), [op |-> "Del", c |-> r.gt[j]],
                                        r.part, r.left, r.right)
  <2>1. PICK st \in State : st = To(r, i, j-1) /\ st.at = i + 1
    BY <1>6
  <2>2. st.at \in 1..Len(r.part) + 1
    BY <1>1, <2>1, JobIs
  <2>3. New(r, st, r.gt[j]) \in DbChar
    BY <1>1, <1>6, <2>2, NewIs, ZenonT(40)
  <2>4. CorrectedAt(st, [op |-> "Del", c |-> x], r.part, r.left, r.right) =
          [done |-> Add(st.done, New(r, st, x)), at |-> st.at, size |-> st.size + 1]
    BY DelIs
  <2>5. To(r, i, j) = [done |-> Add(st.done, New(r, st, r.gt[j])), at |-> st.at, size |-> st.size + 1]
    BY <1>4, <1>6, <2>1, <2>4, Zenon
  <2>6. Add(st.done, New(r, st, r.gt[j])) \in Seq(DbChar) /\ st.at \in Nat /\ st.size + 1 \in Nat
    BY <1>2, <1>3, <2>3
  <2>7. /\ To(r, i, j) \in State
        /\ To(r, i, j).done = Add(st.done, New(r, st, r.gt[j]))
        /\ To(r, i, j).at = st.at /\ To(r, i, j).size = st.size + 1
    <3>1. PICK d \in Seq(DbChar) : d = Add(st.done, New(r, st, r.gt[j]))
      BY <2>6
    <3>2. To(r, i, j) = [done |-> d, at |-> st.at, size |-> st.size + 1]
      BY <2>5, <3>1
    <3>. QED BY <2>6, <3>1, <3>2 DEF State
  <2>. QED BY <1>6, <2>1, <2>7 DEF Grows
<1>7. CASE /\ i > 0 /\ MoveOf(r, i, j) = "Ins"
           /\ To(r, i, j) = CorrectedAt(To(r, i-1, j), [op |-> "Ins", c |-> 0],
                                        r.part, r.left, r.right)
  <2>1. PICK st \in State : st = To(r, i-1, j) /\ st.at = i
    BY <1>7
  <2>2. Fix(r.part[i], DEL) \in DbChar
    BY <1>1, <1>7, FixIs
  <2>3. CorrectedAt(st, [op |-> "Ins", c |-> 0], r.part, r.left, r.right) =
          [done |-> Add(st.done, Fix(r.part[st.at], DEL)), at |-> st.at + 1, size |-> st.size]
    BY InsIs
  <2>4. To(r, i, j) = [done |-> Add(st.done, Fix(r.part[i], DEL)), at |-> i + 1, size |-> st.size]
    BY <1>7, <2>1, <2>3, Zenon
  <2>5. Add(st.done, Fix(r.part[i], DEL)) \in Seq(DbChar) /\ i + 1 \in Nat /\ st.size \in Nat
    BY <1>1, <1>2, <1>3, <2>2
  <2>6. /\ To(r, i, j) \in State
        /\ To(r, i, j).done = Add(st.done, Fix(r.part[i], DEL))
        /\ To(r, i, j).at = i + 1 /\ To(r, i, j).size = st.size
    <3>1. PICK d \in Seq(DbChar) : d = Add(st.done, Fix(r.part[i], DEL))
      BY <2>5
    <3>2. To(r, i, j) = [done |-> d, at |-> i + 1, size |-> st.size]
      BY <2>4, <3>1
    <3>. QED BY <2>5, <3>1, <3>2 DEF State
  <2>. QED BY <1>7, <2>1, <2>6 DEF Grows
<1>8. ASSUME i > 0, j > 0, MoveOf(r, i, j) \in {"Nop", "Sub"},
             \E st \in State :
               /\ st = To(r, i-1, j-1) /\ st.at = i
               /\ To(r, i, j) = [done |-> Add(st.done, Fix(r.part[i], r.gt[j])),
                                 at |-> st.at + 1, size |-> st.size]
      PROVE  To(r, i, j) \in State /\ To(r, i, j).at = i + 1 /\ Grows(r, i, j)
  <2>1. PICK st \in State :
               /\ st = To(r, i-1, j-1) /\ st.at = i
               /\ To(r, i, j) = [done |-> Add(st.done, Fix(r.part[i], r.gt[j])),
                                 at |-> st.at + 1, size |-> st.size]
    BY <1>8
  <2>2. Fix(r.part[i], r.gt[j]) \in DbChar
    BY <1>1, <1>8, FixIs
  <2>3. Add(st.done, Fix(r.part[i], r.gt[j])) \in Seq(DbChar) /\ st.at + 1 \in Nat /\ st.size \in Nat
    BY <1>2, <1>3, <2>2
  <2>4. /\ To(r, i, j) \in State
        /\ To(r, i, j).done = Add(st.done, Fix(r.part[i], r.gt[j]))
        /\ To(r, i, j).at = st.at + 1 /\ To(r, i, j).size = st.size
    <3>1. PICK d \in Seq(DbChar) : d = Add(st.done, Fix(r.part[i], r.gt[j]))
      BY <2>3
    <3>2. To(r, i, j) = [done |-> d, at |-> st.at + 1, size |-> st.size]
      BY <2>1, <3>1
    <3>. QED BY <2>3, <3>1, <3>2 DEF State
  <2>. QED BY <1>8, <2>1, <2>4 DEF Grows
<1>9. CASE /\ i > 0 /\ j > 0 /\ MoveOf(r, i, j) = "Nop" /\ OcrOf(r)[i] = r.gt[j]
           /\ To(r, i, j) = CorrectedAt(To(r, i-1, j-1), [op |-> "Nop", c |-> r.gt[j]],
                                        r.part, r.left, r.right)
  <2>1. PICK st \in State : st = To(r, i-1, j-1) /\ st.at = i
    BY <1>9
  <2>2. r.part[st.at].ocr = r.gt[j]
    BY <1>1, <1>9, <2>1
  <2>3. CorrectedAt(st, [op |-> "Nop", c |-> x], r.part, r.left, r.right) =
          [done |-> Add(st.done, Fix(r.part[st.at], x)), at |-> st.at + 1, size |-> st.size]
    BY <1>4, <2>2, NopIs
  <2>4. To(r, i, j) = [done |-> Add(st.done, Fix(r.part[i], r.gt[j])), at |-> st.at + 1, size |-> st.size]
    BY <1>4, <1>9, <2>1, <2>3, Zenon
  <2>. QED BY <1>8, <1>9, <2>1, <2>4
<1>10. CASE /\ i > 0 /\ j > 0 /\ MoveOf(r, i, j) = "Sub"
            /\ To(r, i, j) = CorrectedAt(To(r, i-1, j-1), [op |-> "Sub", c |-> r.gt[j]],
                                         r.part, r.left, r.right)
  <2>1. PICK st \in State : st = To(r, i-1, j-1) /\ st.at = i
    BY <1>10
  <2>2. CorrectedAt(st, [op |-> "Sub", c |-> x], r.part, r.left, r.right) =
          [done |-> Add(st.done, Fix(r.part[st.at], x)), at |-> st.at + 1, size |-> st.size]
    BY SubIs
  <2>3. To(r, i, j) = [done |-> Add(st.done, Fix(r.part[i], r.gt[j])), at |-> st.at + 1, size |-> st.size]
    BY <1>4, <1>10, <2>1, <2>2, Zenon
  <2>. QED BY <1>8, <1>10, <2>1, <2>3
<1>. QED BY <1>5, <1>6, <1>7, <1>9, <1>10, ToFollows DEF Follows

(* The slice at a cell is a list of characters, with i_ behind the ones    *)
(* used up.                                                                *)
LEMMA ToIs ==
  ASSUME NEW r \in Job, NEW i \in 0..Len(r.part), NEW j \in 0..Len(r.gt)
  PROVE  To(r, i, j) \in State /\ To(r, i, j).at = i + 1 /\ Grows(r, i, j)
<1>. DEFINE A == {p \in Cells(OcrOf(r), r.gt) :
                    To(r, p[1], p[2]) \in State /\ To(r, p[1], p[2]).at = p[1] + 1}
<1>1. Len(r.part) \in Nat /\ Len(r.gt) \in Nat /\ Len(OcrOf(r)) = Len(r.part)
  BY JobIs
<1>2. \A h \in 0..Len(r.part), k \in 0..Len(r.gt) :
        <<h, k>> \in A <=> To(r, h, k) \in State /\ To(r, h, k).at = h + 1
  BY <1>1, CellsAre
<1>3. A \in SUBSET Cells(OcrOf(r), r.gt)
  OBVIOUS
<1>. HIDE DEF A
<1>4. ASSUME NEW h \in 0..Len(r.part), NEW k \in 0..Len(r.gt),
             h > 0 => <<h-1, k>> \in A,
             k > 0 => <<h, k-1>> \in A,
             h > 0 /\ k > 0 => <<h-1, k-1>> \in A
      PROVE  /\ To(r, h, k) \in State /\ To(r, h, k).at = h + 1 /\ Grows(r, h, k)
             /\ <<h, k>> \in A
  <2>1. h > 0 => h-1 \in 0..Len(r.part) /\ (h-1) + 1 = h
    BY <1>1
  <2>2. k > 0 => k-1 \in 0..Len(r.gt)
    BY <1>1
  <2>3. h > 0 => To(r, h-1, k) \in State /\ To(r, h-1, k).at = h
    BY <1>2, <1>4, <2>1
  <2>4. k > 0 => To(r, h, k-1) \in State /\ To(r, h, k-1).at = h + 1
    BY <1>2, <1>4, <2>2
  <2>5. h > 0 /\ k > 0 => To(r, h-1, k-1) \in State /\ To(r, h-1, k-1).at = h
    BY <1>2, <1>4, <2>1, <2>2
  <2>6. To(r, h, k) \in State /\ To(r, h, k).at = h + 1 /\ Grows(r, h, k)
    BY <2>3, <2>4, <2>5, GrowsStep
  <2>. QED BY <1>2, <2>6
<1>5. A = Cells(OcrOf(r), r.gt)
  BY <1>1, <1>3, <1>4, CellInduction
<1>6. /\ <<i, j>> \in A
      /\ i > 0 => <<i-1, j>> \in A
      /\ j > 0 => <<i, j-1>> \in A
      /\ i > 0 /\ j > 0 => <<i-1, j-1>> \in A
  <2>1. \A h \in 0..Len(r.part), k \in 0..Len(r.gt) : <<h, k>> \in A
    BY <1>1, <1>5, CellsAre
  <2>2. i > 0 => i-1 \in 0..Len(r.part)
    BY <1>1
  <2>3. j > 0 => j-1 \in 0..Len(r.gt)
    BY <1>1
  <2>. QED BY <2>1, <2>2, <2>3
<1>. QED BY <1>4, <1>6

(* What holds of a cell if it holds of its neighbours. *)
LEMMA JobInduction ==
  ASSUME NEW r \in Job, NEW A \in SUBSET Cells(OcrOf(r), r.gt),
         \A i \in 0..Len(r.part), j \in 0..Len(r.gt) :
           /\ i > 0 => i-1 \in 0..Len(r.part) /\ <<i-1, j>> \in A
           /\ j > 0 => j-1 \in 0..Len(r.gt) /\ <<i, j-1>> \in A
           /\ i > 0 /\ j > 0 => <<i-1, j-1>> \in A
           => <<i, j>> \in A
  PROVE  \A i \in 0..Len(r.part), j \in 0..Len(r.gt) : <<i, j>> \in A
<1>1. Len(r.part) \in Nat /\ Len(r.gt) \in Nat /\ Len(OcrOf(r)) = Len(r.part)
  BY JobIs
<1>2. \A i \in 0..Len(r.part) : i > 0 => i-1 \in 0..Len(r.part)
  BY <1>1
<1>3. \A j \in 0..Len(r.gt) : j > 0 => j-1 \in 0..Len(r.gt)
  BY <1>1
<1>4. A = Cells(OcrOf(r), r.gt)
  BY <1>1, <1>2, <1>3, CellInduction
<1>. QED BY <1>1, <1>4, CellsAre

\* The first n members of a list.
First(s, n) == SubSeq(s, 1, n)

LEMMA FirstIs ==
  ASSUME NEW S, NEW s \in Seq(S), NEW n \in 0..Len(s)
  PROVE  /\ First(s, 0) = <<>>
         /\ First(s, n) \in Seq(S)
         /\ n > 0 => First(s, n) = Add(First(s, n-1), s[n])
         /\ First(s, Len(s)) = s
BY DEF First, Add

(* What a list reads when a character is added. *)
LEMMA WcorAdd ==
  ASSUME NEW l \in Seq(DbChar), NEW c \in DbChar
  PROVE  Wcor(Add(l, c)) = IF GetCor(c) \in Pos THEN Add(Wcor(l), GetCor(c)) ELSE Wcor(l)
<1>1. Add(l, c) \in Seq(DbChar)
  BY AddIs
<1>2. Wcor(Add(l, c)) = Sift(Add(l, c), COR, Pos) /\ Wcor(l) = Sift(l, COR, Pos)
  BY <1>1, StringsAre
<1>3. COR[c] = GetCor(c)
  BY DEF COR
<1>. QED BY <1>2, <1>3, FunctionsOfChars, CharsAdd

(* The corrected slice reads as its text. *)
LEMMA ReadsBack ==
  ASSUME NEW r \in Job, NEW i \in 0..Len(r.part), NEW j \in 0..Len(r.gt)
  PROVE  Wcor(To(r, i, j).done) = First(r.gt, j)
<1>. DEFINE A == {p \in Cells(OcrOf(r), r.gt) : Wcor(To(r, p[1], p[2]).done) = First(r.gt, p[2])}
<1>1. Len(r.part) \in Nat /\ Len(r.gt) \in Nat /\ Len(OcrOf(r)) = Len(r.part)
  BY JobIs
<1>2. \A h \in 0..Len(r.part), k \in 0..Len(r.gt) :
        <<h, k>> \in A <=> Wcor(To(r, h, k).done) = First(r.gt, k)
  BY <1>1, CellsAre
<1>3. A \in SUBSET Cells(OcrOf(r), r.gt)
  OBVIOUS
<1>. HIDE DEF A
<1>4. ASSUME NEW h \in 0..Len(r.part), NEW k \in 0..Len(r.gt),
             h > 0 => h-1 \in 0..Len(r.part) /\ <<h-1, k>> \in A,
             k > 0 => k-1 \in 0..Len(r.gt) /\ <<h, k-1>> \in A,
             h > 0 /\ k > 0 => <<h-1, k-1>> \in A
      PROVE  <<h, k>> \in A
  <2>1. Grows(r, h, k)
    BY ToIs
  <2>2. \A m \in 0..Len(r.part), n \in 0..Len(r.gt) :
          To(r, m, n) \in State /\ To(r, m, n).at = m + 1 /\ To(r, m, n).done \in Seq(DbChar)
    BY ToIs DEF State
  <2>3. /\ h > 0 => r.part[h] \in OcrChar
        /\ k > 0 => r.gt[k] \in Letter /\ r.gt[k] \in Pos
    <3>1. h > 0 => h \in 1..Len(r.part)
      BY <1>1
    <3>2. k > 0 => k \in 1..Len(r.gt)
      BY <1>1
    <3>. QED BY <3>1, <3>2, JobIs, LettersAre
  <2>4. First(r.gt, 0) = <<>> /\ (k > 0 => First(r.gt, k) = Add(First(r.gt, k-1), r.gt[k]))
    BY JobIs, FirstIs
  <2>5. CASE h = 0 /\ k = 0 /\ To(r, h, k).done = <<>>
    <3>1. <<>> \in Seq(DbChar)
      BY EmptyIs
    <3>2. Wcor(<<>>) = <<>>
      BY <3>1, StringsAre, SiftEmpty
    <3>. QED BY <1>2, <2>4, <2>5, <3>2
  <2>6. CASE k > 0 /\ To(r, h, k).done = Add(To(r, h, k-1).done, New(r, To(r, h, k-1), r.gt[k]))
    <3>1. PICK st \in State : st = To(r, h, k-1) /\ st.at = h + 1 /\ st.done \in Seq(DbChar)
      BY <1>4, <2>2, <2>6
    <3>2. st.at \in 1..Len(r.part) + 1
      BY <1>1, <3>1
    <3>3. New(r, st, r.gt[k]) \in DbChar /\ New(r, st, r.gt[k]).cor = r.gt[k]
      BY <2>3, <2>6, <3>2, NewIs, ZenonT(40)
    <3>4. GetCor(New(r, st, r.gt[k])) = r.gt[k]
      BY <2>3, <2>6, <3>3, CharIs
    <3>5. Wcor(To(r, h, k).done) = Add(Wcor(st.done), r.gt[k])
      BY <2>3, <2>6, <3>1, <3>3, <3>4, WcorAdd
    <3>. QED BY <1>2, <1>4, <2>4, <2>6, <3>1, <3>5
  <2>7. CASE h > 0 /\ To(r, h, k).done = Add(To(r, h-1, k).done, Fix(r.part[h], DEL))
    <3>1. To(r, h-1, k).done \in Seq(DbChar)
      BY <1>4, <2>2, <2>7
    <3>2. Fix(r.part[h], DEL) \in DbChar /\ Fix(r.part[h], DEL).cor = DEL
      BY <2>3, <2>7, FixIs
    <3>3. GetCor(Fix(r.part[h], DEL)) \notin Pos
      BY <3>2, CharIs DEF NoChar, Pos
    <3>4. Wcor(To(r, h, k).done) = Wcor(To(r, h-1, k).done)
      BY <2>7, <3>1, <3>2, <3>3, WcorAdd
    <3>. QED BY <1>2, <1>4, <2>7, <3>4
  <2>8. CASE h > 0 /\ k > 0 /\ To(r, h, k).done = Add(To(r, h-1, k-1).done, Fix(r.part[h], r.gt[k]))
    <3>1. To(r, h-1, k-1).done \in Seq(DbChar)
      BY <1>4, <2>2, <2>8
    <3>2. Fix(r.part[h], r.gt[k]) \in DbChar /\ Fix(r.part[h], r.gt[k]).cor = r.gt[k]
      BY <2>3, <2>8, FixIs
    <3>3. GetCor(Fix(r.part[h], r.gt[k])) = r.gt[k]
      BY <2>3, <2>8, <3>2, CharIs
    <3>4. Wcor(To(r, h, k).done) = Add(Wcor(To(r, h-1, k-1).done), r.gt[k])
      BY <2>3, <2>8, <3>1, <3>2, <3>3, WcorAdd
    <3>. QED BY <1>2, <1>4, <2>4, <2>8, <3>4
  <2>. QED BY <2>1, <2>5, <2>6, <2>7, <2>8 DEF Grows
<1>. QED BY <1>2, <1>3, <1>4, JobInduction

(* The facts about a cell that the steps of an induction start from. *)
LEMMA AtCell ==
  ASSUME NEW r \in Job, NEW h \in 0..Len(r.part), NEW k \in 0..Len(r.gt)
  PROVE  /\ To(r, h, k) \in State /\ To(r, h, k).at = h + 1 /\ To(r, h, k).at \in 1..Len(r.part) + 1
         /\ To(r, h, k).done \in Seq(DbChar) /\ To(r, h, k).size \in Nat
         /\ h > 0 => h \in 1..Len(r.part) /\ r.part[h] \in OcrChar /\ r.part[h] \in DbChar
         /\ k > 0 => k \in 1..Len(r.gt) /\ r.gt[k] \in Letter /\ r.gt[k] \in Pos
<1>1. Len(r.part) \in Nat /\ Len(r.gt) \in Nat
  BY JobIs
<1>2. To(r, h, k) \in State /\ To(r, h, k).at = h + 1
  BY ToIs
<1>3. To(r, h, k).done \in Seq(DbChar) /\ To(r, h, k).size \in Nat
  BY <1>2 DEF State
<1>4. h > 0 => h \in 1..Len(r.part)
  BY <1>1
<1>5. k > 0 => k \in 1..Len(r.gt)
  BY <1>1
<1>. QED BY <1>1, <1>2, <1>3, <1>4, <1>5, JobIs, LettersAre

\* What g reads off a character is read off the OCR's characters alone, and
\* stays with them when they are corrected.
Fixed(g, C) ==
  /\ \A c \in DbChar : c \in OcrChar <=> g[c] \in C
  /\ \A c \in OcrChar, x \in Letter \cup {NoChar, DEL} : g[Fix(c, x)] = g[c]

(* The corrected slice keeps it. *)
LEMMA Keeps ==
  ASSUME NEW T, NEW g \in [DbChar -> T], NEW C, Fixed(g, C),
         NEW r \in Job, NEW i \in 0..Len(r.part), NEW j \in 0..Len(r.gt)
  PROVE  Sift(To(r, i, j).done, g, C) = First(Map(r.part, g), i)
<1>. DEFINE A == {p \in Cells(OcrOf(r), r.gt) :
                    Sift(To(r, p[1], p[2]).done, g, C) = First(Map(r.part, g), p[1])}
<1>1. Len(r.part) \in Nat /\ Len(r.gt) \in Nat /\ Len(OcrOf(r)) = Len(r.part)
  BY JobIs
<1>2. \A h \in 0..Len(r.part), k \in 0..Len(r.gt) :
        <<h, k>> \in A <=> Sift(To(r, h, k).done, g, C) = First(Map(r.part, g), h)
  BY <1>1, CellsAre
<1>3. A \in SUBSET Cells(OcrOf(r), r.gt)
  OBVIOUS
<1>. HIDE DEF A
<1>4. PICK m \in Seq(T) : m = Map(r.part, g)
  BY JobIs, MapIs
<1>5. Len(m) = Len(r.part) /\ \A h \in 1..Len(r.part) : m[h] = g[r.part[h]]
  <2>1. r.part \in Seq(DbChar)
    BY JobIs
  <2>2. DOMAIN r.part = 1..Len(r.part)
    BY <2>1
  <2>. QED BY <1>1, <1>4, <2>2 DEF Map
<1>6. ASSUME NEW s \in Seq(DbChar), NEW c \in DbChar
      PROVE  Sift(Add(s, c), g, C) = IF g[c] \in C THEN Add(Sift(s, g, C), g[c]) ELSE Sift(s, g, C)
  <2>1. Map(s, g) \in Seq(T) /\ g[c] \in T
    BY MapIs
  <2>2. Map(Add(s, c), g) = Add(Map(s, g), g[c])
    BY MapAdd, ZenonT(40)
  <2>. QED BY <2>1, <2>2, ThoseAdd DEF Sift
<1>7. ASSUME NEW h \in 0..Len(r.part), NEW k \in 0..Len(r.gt),
             h > 0 => h-1 \in 0..Len(r.part) /\ <<h-1, k>> \in A,
             k > 0 => k-1 \in 0..Len(r.gt) /\ <<h, k-1>> \in A,
             h > 0 /\ k > 0 => <<h-1, k-1>> \in A
      PROVE  <<h, k>> \in A
  <2>1. Grows(r, h, k)
    BY ToIs
  <2>2. /\ h > 0 => r.part[h] \in OcrChar /\ m[h] = g[r.part[h]]
        /\ k > 0 => r.gt[k] \in Letter
    BY <1>5, AtCell
  <2>3. First(m, 0) = <<>> /\ (h > 0 => First(m, h) = Add(First(m, h-1), m[h]))
    BY <1>5, FirstIs
  <2>4. ASSUME h > 0, NEW n \in 0..Len(r.gt), NEW x \in Letter \cup {NoChar, DEL}, <<h-1, n>> \in A,
               To(r, h, k).done = Add(To(r, h-1, n).done, Fix(r.part[h], x))
        PROVE  <<h, k>> \in A
    <3>1. To(r, h-1, n).done \in Seq(DbChar)
      BY <1>7, <2>4, AtCell
    <3>2. Fix(r.part[h], x) \in DbChar /\ Fix(r.part[h], x) \in OcrChar
      BY <2>2, <2>4, FixIs
    <3>3. g[Fix(r.part[h], x)] = m[h] /\ g[Fix(r.part[h], x)] \in C
      BY <2>2, <2>4, <3>2 DEF Fixed
    <3>4. Sift(To(r, h, k).done, g, C) = Add(Sift(To(r, h-1, n).done, g, C), m[h])
      BY <1>6, <2>4, <3>1, <3>2, <3>3
    <3>5. Sift(To(r, h-1, n).done, g, C) = First(m, h-1)
      BY <1>2, <1>4, <1>7, <2>4
    <3>. QED BY <1>2, <1>4, <2>3, <2>4, <3>4, <3>5
  <2>5. CASE h = 0 /\ k = 0 /\ To(r, h, k).done = <<>>
    BY <1>2, <1>4, <2>3, <2>5, SiftEmpty
  <2>6. CASE k > 0 /\ To(r, h, k).done = Add(To(r, h, k-1).done, New(r, To(r, h, k-1), r.gt[k]))
    <3>1. PICK st \in State : /\ st = To(r, h, k-1) /\ st.at \in 1..Len(r.part) + 1
                              /\ st.done \in Seq(DbChar)
      BY <1>7, <2>6, AtCell
    <3>2. New(r, st, r.gt[k]) \in DbChar /\ New(r, st, r.gt[k]) \notin OcrChar
      BY <2>2, <2>6, <3>1, NewIs, ZenonT(40)
    <3>3. g[New(r, st, r.gt[k])] \notin C
      BY <3>2 DEF Fixed
    <3>4. Sift(To(r, h, k).done, g, C) = Sift(st.done, g, C)
      BY <1>6, <2>6, <3>1, <3>2, <3>3
    <3>. QED BY <1>2, <1>7, <2>6, <3>1, <3>4
  <2>7. CASE h > 0 /\ To(r, h, k).done = Add(To(r, h-1, k).done, Fix(r.part[h], DEL))
    BY <1>7, <2>4, <2>7
  <2>8. CASE h > 0 /\ k > 0 /\ To(r, h, k).done = Add(To(r, h-1, k-1).done, Fix(r.part[h], r.gt[k]))
    BY <1>7, <2>2, <2>4, <2>8
  <2>. QED BY <2>1, <2>5, <2>6, <2>7, <2>8 DEF Grows
<1>. QED BY <1>2, <1>3, <1>7, JobInduction

\* The characters of l are cut in order, between two cuts.
Ordered(l, a, b) ==
  /\ \A h \in 1..Len(l) : a <= l[h].cut /\ l[h].cut <= b
  /\ \A h, k \in 1..Len(l) : h < k => l[h].cut <= l[k].cut

(* A character behind the others keeps the cuts in order. *)
LEMMA OrderedAdd ==
  ASSUME NEW l \in Seq(DbChar), NEW c \in DbChar, NEW a \in Int, NEW b \in Int, NEW d \in Int,
         Ordered(l, a, b), b <= d, a <= c.cut, c.cut <= d,
         l # <<>> => Last(l).cut <= c.cut
  PROVE  Ordered(Add(l, c), a, d)
<1>1. PICK t : t = Add(l, c)
  OBVIOUS
<1>2. PICK n \in Nat : n = Len(l)
  BY AddIs
<1>3. /\ Len(t) = n + 1
      /\ \A h \in 1..n : t[h] = l[h] /\ l[h] \in DbChar
      /\ t[n + 1] = c
  <2>1. /\ Len(Add(l, c)) = Len(l) + 1
        /\ \A i \in 1..Len(l) : Add(l, c)[i] = l[i]
        /\ Add(l, c)[Len(l) + 1] = c
    BY AddIs
  <2>2. \A h \in 1..n : l[h] \in DbChar
    BY <1>2
  <2>. QED BY <1>1, <1>2, <2>1, <2>2
<1>4. \A x \in DbChar : x.cut \in Int
  BY CharIs
<1>5. \A h \in 1..n : l[h].cut \in Int /\ a <= l[h].cut /\ l[h].cut <= b
  BY <1>2, <1>3, <1>4 DEF Ordered
<1>6. \A h \in 1..n : l[h].cut <= c.cut
  <2>1. CASE n = 0
    BY <2>1
  <2>2. CASE n > 0
    <3>1. l # <<>> /\ Last(l) = l[n] /\ n \in 1..n
      BY <1>2, <2>2 DEF Last
    <3>2. \A h \in 1..n : h < n => l[h].cut <= l[n].cut
      BY <1>2, <3>1 DEF Ordered
    <3>3. l[n].cut <= c.cut /\ l[n].cut \in Int /\ c.cut \in Int
      BY <1>4, <1>5, <3>1
    <3>. QED BY <1>5, <3>1, <3>2, <3>3
  <2>. QED BY <2>1, <2>2
<1>7. \A h \in 1..n+1 : a <= t[h].cut /\ t[h].cut <= d
  <2>1. ASSUME NEW h \in 1..n+1
        PROVE  a <= t[h].cut /\ t[h].cut <= d
    <3>1. CASE h = n + 1
      BY <1>3, <3>1
    <3>2. CASE h \in 1..n
      BY <1>3, <1>5, <3>2
    <3>. QED BY <3>1, <3>2
  <2>. QED BY <2>1
<1>8. ASSUME NEW h \in 1..n+1, NEW k \in 1..n+1, h < k
      PROVE  t[h].cut <= t[k].cut
  <2>1. h \in 1..n
    BY <1>8
  <2>2. CASE k = n + 1
    BY <1>3, <1>6, <2>1, <2>2
  <2>3. CASE k \in 1..n
    BY <1>2, <1>3, <1>8, <2>1, <2>3 DEF Ordered
  <2>. QED BY <2>2, <2>3
<1>9. Ordered(t, a, d)
  BY <1>3, <1>7, <1>8 DEF Ordered
<1>. QED BY <1>1, <1>9

\* The cut that what is done by the i-th character of the slice stays before.
Edge(r, i) == IF i + 1 > Len(r.part) THEN r.right ELSE r.part[i + 1].cut

LEMMA EdgeIs ==
  ASSUME NEW r \in Job, Ordered(r.part, r.left, r.right), r.left <= r.right,
         NEW i \in 0..Len(r.part)
  PROVE  /\ Edge(r, i) \in Int /\ r.left <= Edge(r, i) /\ Edge(r, i) <= r.right
         /\ i > 0 => Edge(r, i-1) = r.part[i].cut /\ Edge(r, i-1) <= Edge(r, i)
<1>1. /\ Len(r.part) \in Nat /\ r.left \in Int /\ r.right \in Int
      /\ \A h \in 1..Len(r.part) : r.part[h] \in DbChar
  BY JobIs
<1>2. \A h \in 1..Len(r.part) : /\ r.part[h].cut \in Int
                                /\ r.left <= r.part[h].cut /\ r.part[h].cut <= r.right
  BY <1>1, CharIs DEF Ordered
<1>3. /\ i + 1 > Len(r.part) \/ i + 1 \in 1..Len(r.part)
      /\ i > 0 => i \in 1..Len(r.part) /\ (i-1) + 1 = i
  BY <1>1
<1>4. Edge(r, i) \in Int /\ r.left <= Edge(r, i) /\ Edge(r, i) <= r.right
  BY <1>1, <1>2, <1>3 DEF Edge
<1>5. i > 0 => Edge(r, i-1) = r.part[i].cut
  <2>1. i > 0 => ~(i > Len(r.part))
    BY <1>1
  <2>. QED BY <1>3, <2>1 DEF Edge
<1>6. i > 0 => r.part[i].cut <= Edge(r, i)
  <2>1. i > 0 /\ i + 1 \in 1..Len(r.part) => r.part[i].cut <= r.part[i + 1].cut
    BY <1>3 DEF Ordered
  <2>2. i + 1 \in 1..Len(r.part) => ~(i + 1 > Len(r.part))
    BY <1>1
  <2>. QED BY <1>2, <1>3, <2>1, <2>2 DEF Edge
<1>. QED BY <1>4, <1>5, <1>6

(* The corrected slice is cut in order, within the box of the slice. *)
LEMMA CutsStay ==
  ASSUME NEW r \in Job, Ordered(r.part, r.left, r.right), r.left <= r.right,
         NEW i \in 0..Len(r.part), NEW j \in 0..Len(r.gt)
  PROVE  Ordered(To(r, i, j).done, r.left, Edge(r, i))
<1>. DEFINE A == {p \in Cells(OcrOf(r), r.gt) :
                    Ordered(To(r, p[1], p[2]).done, r.left, Edge(r, p[1]))}
<1>1. Len(r.part) \in Nat /\ Len(r.gt) \in Nat /\ Len(OcrOf(r)) = Len(r.part) /\ r.left \in Int
  BY JobIs
<1>2. \A h \in 0..Len(r.part), k \in 0..Len(r.gt) :
        <<h, k>> \in A <=> Ordered(To(r, h, k).done, r.left, Edge(r, h))
  BY <1>1, CellsAre
<1>3. A \in SUBSET Cells(OcrOf(r), r.gt)
  OBVIOUS
<1>. HIDE DEF A
<1>4. ASSUME NEW h \in 0..Len(r.part), NEW k \in 0..Len(r.gt),
             h > 0 => h-1 \in 0..Len(r.part) /\ <<h-1, k>> \in A,
             k > 0 => k-1 \in 0..Len(r.gt) /\ <<h, k-1>> \in A,
             h > 0 /\ k > 0 => <<h-1, k-1>> \in A
      PROVE  <<h, k>> \in A
  <2>1. Grows(r, h, k)
    BY ToIs
  <2>2. /\ h > 0 => r.part[h] \in OcrChar
        /\ k > 0 => r.gt[k] \in Letter
    BY AtCell
  <2>3. /\ Edge(r, h) \in Int /\ r.left <= Edge(r, h)
        /\ h > 0 => Edge(r, h-1) = r.part[h].cut /\ Edge(r, h-1) <= Edge(r, h)
    BY EdgeIs
  <2>4. ASSUME h > 0, NEW n \in 0..Len(r.gt), NEW x \in Letter \cup {NoChar, DEL}, <<h-1, n>> \in A,
               To(r, h, k).done = Add(To(r, h-1, n).done, Fix(r.part[h], x))
        PROVE  <<h, k>> \in A
    <3>1. PICK l \in Seq(DbChar) : l = To(r, h-1, n).done
      BY <1>4, <2>4, AtCell
    <3>2. PICK c \in DbChar : c = Fix(r.part[h], x) /\ c.cut = r.part[h].cut
      BY <2>2, <2>4, FixIs
    <3>3. Ordered(l, r.left, Edge(r, h-1))
      BY <1>2, <1>4, <2>4, <3>1
    <3>4. Edge(r, h-1) \in Int /\ r.left <= Edge(r, h-1) /\ c.cut = Edge(r, h-1)
      BY <1>4, <2>3, <2>4, <3>2, EdgeIs
    <3>5. l # <<>> => Last(l).cut <= c.cut
      <4>1. l # <<>> => Last(l) = l[Len(l)] /\ Len(l) \in 1..Len(l)
        BY DEF Last
      <4>. QED BY <3>3, <3>4, <4>1 DEF Ordered
    <3>6. Ordered(Add(l, c), r.left, Edge(r, h))
      BY <1>1, <2>3, <2>4, <3>3, <3>4, <3>5, OrderedAdd
    <3>. QED BY <1>2, <2>4, <3>1, <3>2, <3>6
  <2>5. CASE h = 0 /\ k = 0 /\ To(r, h, k).done = <<>>
    <3>1. Ordered(<<>>, r.left, Edge(r, h))
      BY DEF Ordered
    <3>. QED BY <1>2, <2>5, <3>1
  <2>6. CASE k > 0 /\ To(r, h, k).done = Add(To(r, h, k-1).done, New(r, To(r, h, k-1), r.gt[k]))
    <3>1. PICK st \in State : /\ st = To(r, h, k-1) /\ st.at = h + 1 /\ st.at \in 1..Len(r.part) + 1
                              /\ st.done \in Seq(DbChar)
      BY <1>4, <2>6, AtCell
    <3>2. PICK c \in DbChar : /\ c = New(r, st, r.gt[k])
                              /\ c.cut = LeftCut(r, st) + Half(RightCut(r, st) - LeftCut(r, st))
                              /\ LeftCut(r, st) \in Int
      <4>1. r.gt[k] \in Letter
        BY <2>2, <2>6
      <4>2. New(r, st, r.gt[k]) \in DbChar /\ LeftCut(r, st) \in Int
        BY <3>1, <4>1, NewIs, ZenonT(40)
      <4>3. New(r, st, r.gt[k]).cut = LeftCut(r, st) + Half(RightCut(r, st) - LeftCut(r, st))
        BY <3>1, <4>1, NewIs, ZenonT(40)
      <4>. QED BY <4>2, <4>3
    <3>3. RightCut(r, st) = Edge(r, h)
      BY <3>1 DEF RightCut, Edge
    <3>4. Ordered(st.done, r.left, Edge(r, h))
      BY <1>2, <1>4, <2>6, <3>1
    <3>5. /\ r.left <= LeftCut(r, st) /\ LeftCut(r, st) <= Edge(r, h)
          /\ st.done # <<>> => Last(st.done).cut = LeftCut(r, st)
      <4>1. st.done # <<>> => Last(st.done) = st.done[Len(st.done)] /\ Len(st.done) \in 1..Len(st.done)
        BY <3>1 DEF Last
      <4>. QED BY <1>1, <2>3, <3>4, <4>1 DEF LeftCut, Ordered
    <3>6. LeftCut(r, st) <= c.cut /\ c.cut <= Edge(r, h)
      <4>1. PICK d \in Nat : d = Edge(r, h) - LeftCut(r, st)
        BY <2>3, <3>2, <3>5
      <4>2. Half(d) \in Int /\ 0 <= Half(d) /\ Half(d) <= d
        BY DEF Half
      <4>3. c.cut = LeftCut(r, st) + Half(d)
        BY <3>2, <3>3, <4>1
      <4>. QED BY <2>3, <3>2, <4>1, <4>2, <4>3
    <3>7. c.cut \in Int
      BY CharIs
    <3>8. r.left <= c.cut /\ (st.done # <<>> => Last(st.done).cut <= c.cut) /\ Edge(r, h) <= Edge(r, h)
      BY <1>1, <2>3, <3>2, <3>5, <3>6, <3>7
    <3>9. Ordered(Add(st.done, c), r.left, Edge(r, h))
      BY <1>1, <2>3, <3>1, <3>4, <3>6, <3>8, OrderedAdd
    <3>. QED BY <1>2, <2>6, <3>1, <3>2, <3>9
  <2>7. CASE h > 0 /\ To(r, h, k).done = Add(To(r, h-1, k).done, Fix(r.part[h], DEL))
    BY <1>4, <2>4, <2>7
  <2>8. CASE h > 0 /\ k > 0 /\ To(r, h, k).done = Add(To(r, h-1, k-1).done, Fix(r.part[h], r.gt[k]))
    BY <1>4, <2>2, <2>4, <2>8
  <2>. QED BY <2>1, <2>5, <2>6, <2>7, <2>8 DEF Grows
<1>. QED BY <1>2, <1>3, <1>4, JobInduction

\* The ids of l: those of the first i of n characters, and those that n and
\* the insertions since have led to, none of them twice.
Numbered(l, i, n, size) ==
  /\ n <= size
  /\ \A h \in 1..Len(l) : l[h].id < i \/ (n <= l[h].id /\ l[h].id < size)
  /\ \A h, k \in 1..Len(l) : h # k => l[h].id # l[k].id

(* A character with the next id keeps ids counted. *)
LEMMA NumberedAdd ==
  ASSUME NEW l \in Seq(DbChar), NEW c \in DbChar, NEW i \in Nat, NEW n \in Nat, NEW size \in Nat,
         Numbered(l, i, n, size), i <= n
  PROVE  /\ c.id = i /\ i < n => Numbered(Add(l, c), i + 1, n, size)
         /\ c.id = size => Numbered(Add(l, c), i, n, size + 1)
<1>1. PICK t : t = Add(l, c)
  OBVIOUS
<1>2. PICK m \in Nat : m = Len(l)
  BY AddIs
<1>3. /\ Len(t) = m + 1
      /\ \A h \in 1..m : t[h] = l[h] /\ l[h] \in DbChar
      /\ t[m + 1] = c
  <2>1. /\ Len(Add(l, c)) = Len(l) + 1
        /\ \A h \in 1..Len(l) : Add(l, c)[h] = l[h]
        /\ Add(l, c)[Len(l) + 1] = c
    BY AddIs
  <2>2. \A h \in 1..m : l[h] \in DbChar
    BY <1>2
  <2>. QED BY <1>1, <1>2, <2>1, <2>2
<1>4. c.id \in Nat /\ \A h \in 1..m : t[h].id \in Nat
  BY <1>3, CharIs
<1>5. /\ n <= size
      /\ \A h \in 1..m : t[h].id < i \/ (n <= t[h].id /\ t[h].id < size)
      /\ \A h, k \in 1..m : h # k => t[h].id # t[k].id
  BY <1>2, <1>3 DEF Numbered
<1>6. \A h \in 1..m+1 : h = m + 1 \/ h \in 1..m
  OBVIOUS
<1>7. ASSUME c.id = i, i < n
      PROVE  Numbered(t, i + 1, n, size)
  <2>1. \A h \in 1..m : t[h].id # c.id
    BY <1>4, <1>5, <1>7
  <2>2. \A h, k \in 1..m+1 : h # k => t[h].id # t[k].id
    BY <1>3, <1>5, <1>6, <2>1
  <2>3. \A h \in 1..m+1 : t[h].id < i + 1 \/ (n <= t[h].id /\ t[h].id < size)
    <3>1. ASSUME NEW h \in 1..m+1
          PROVE  t[h].id < i + 1 \/ (n <= t[h].id /\ t[h].id < size)
      <4>1. CASE h = m + 1
        BY <1>3, <1>7, <4>1
      <4>2. CASE h \in 1..m
        BY <1>4, <1>5, <4>2
      <4>. QED BY <1>6, <4>1, <4>2
    <3>. QED BY <3>1
  <2>. QED BY <1>3, <1>5, <2>2, <2>3 DEF Numbered
<1>8. ASSUME c.id = size
      PROVE  Numbered(t, i, n, size + 1)
  <2>1. \A h \in 1..m : t[h].id # c.id
    BY <1>4, <1>5, <1>8
  <2>2. \A h, k \in 1..m+1 : h # k => t[h].id # t[k].id
    BY <1>3, <1>5, <1>6, <2>1
  <2>3. \A h \in 1..m+1 : t[h].id < i \/ (n <= t[h].id /\ t[h].id < size + 1)
    <3>1. ASSUME NEW h \in 1..m+1
          PROVE  t[h].id < i \/ (n <= t[h].id /\ t[h].id < size + 1)
      <4>1. CASE h = m + 1
        BY <1>3, <1>5, <1>8, <4>1
      <4>2. CASE h \in 1..m
        BY <1>4, <1>5, <4>2
      <4>. QED BY <1>6, <4>1, <4>2
    <3>. QED BY <3>1
  <2>. QED BY <1>3, <1>5, <2>2, <2>3 DEF Numbered
<1>. QED BY <1>1, <1>7, <1>8

(* The corrected slice has no id twice, if it is the whole line. *)
LEMMA IdsStay ==
  ASSUME NEW r \in Job, \A h \in 1..Len(r.part) : r.part[h].id = h - 1,
         r.size = Len(r.part),
         NEW i \in 0..Len(r.part), NEW j \in 0..Len(r.gt)
  PROVE  Numbered(To(r, i, j).done, i, Len(r.part), To(r, i, j).size)
<1>. DEFINE n == Len(r.part)
            A == {p \in Cells(OcrOf(r), r.gt) :
                    Numbered(To(r, p[1], p[2]).done, p[1], n, To(r, p[1], p[2]).size)}
<1>1. n \in Nat /\ Len(r.gt) \in Nat /\ Len(OcrOf(r)) = n
  BY JobIs
<1>2. \A h \in 0..n, k \in 0..Len(r.gt) :
        <<h, k>> \in A <=> Numbered(To(r, h, k).done, h, n, To(r, h, k).size)
  BY <1>1, CellsAre
<1>3. A \in SUBSET Cells(OcrOf(r), r.gt)
  OBVIOUS
<1>. HIDE DEF A
<1>4. ASSUME NEW h \in 0..n, NEW k \in 0..Len(r.gt),
             h > 0 => h-1 \in 0..n /\ <<h-1, k>> \in A,
             k > 0 => k-1 \in 0..Len(r.gt) /\ <<h, k-1>> \in A,
             h > 0 /\ k > 0 => <<h-1, k-1>> \in A
      PROVE  <<h, k>> \in A
  <2>1. Grows(r, h, k)
    BY ToIs
  <2>2. /\ h > 0 => r.part[h] \in OcrChar /\ r.part[h].id = h - 1
        /\ k > 0 => r.gt[k] \in Letter
    BY AtCell
  <2>3. h \in Nat /\ h <= n /\ n \in Nat
    BY <1>1
  <2>4. ASSUME h > 0, NEW m \in 0..Len(r.gt), NEW x \in Letter \cup {NoChar, DEL}, <<h-1, m>> \in A,
               To(r, h, k).done = Add(To(r, h-1, m).done, Fix(r.part[h], x)),
               To(r, h, k).size = To(r, h-1, m).size
        PROVE  <<h, k>> \in A
    <3>1. PICK l \in Seq(DbChar) : l = To(r, h-1, m).done
      BY <1>4, <2>4, AtCell
    <3>2. PICK z \in Nat : z = To(r, h-1, m).size
      BY <1>4, <2>4, AtCell
    <3>3. PICK c \in DbChar : c = Fix(r.part[h], x) /\ c.id = h - 1
      BY <2>2, <2>4, FixIs
    <3>4. Numbered(l, h-1, n, z)
      BY <1>2, <1>4, <2>4, <3>1, <3>2
    <3>5. PICK g \in Nat : g = h - 1 /\ g < n /\ g + 1 = h
      BY <2>3, <2>4
    <3>6. Numbered(Add(l, c), g + 1, n, z)
      BY <1>1, <3>3, <3>4, <3>5, NumberedAdd
    <3>. QED BY <1>2, <2>4, <3>1, <3>2, <3>3, <3>5, <3>6
  <2>5. CASE h = 0 /\ k = 0 /\ To(r, h, k).done = <<>> /\ To(r, h, k).size = r.size
    <3>1. Numbered(<<>>, 0, n, n)
      BY <1>1 DEF Numbered
    <3>. QED BY <1>2, <2>5, <3>1
  <2>6. CASE /\ k > 0 /\ To(r, h, k).done = Add(To(r, h, k-1).done, New(r, To(r, h, k-1), r.gt[k]))
             /\ To(r, h, k).size = To(r, h, k-1).size + 1
    <3>1. PICK st \in State : /\ st = To(r, h, k-1) /\ st.at \in 1..n + 1
                              /\ st.done \in Seq(DbChar) /\ st.size \in Nat
      BY <1>4, <2>6, AtCell
    <3>2. PICK c \in DbChar : c = New(r, st, r.gt[k]) /\ c.id = st.size
      <4>1. r.gt[k] \in Letter
        BY <2>2, <2>6
      <4>2. New(r, st, r.gt[k]) \in DbChar
        BY <3>1, <4>1, NewIs, ZenonT(40)
      <4>3. New(r, st, r.gt[k]).id = st.size
        BY <3>1, <4>1, NewIs, ZenonT(40)
      <4>. QED BY <4>2, <4>3
    <3>3. Numbered(st.done, h, n, st.size)
      BY <1>2, <1>4, <2>6, <3>1
    <3>4. Numbered(Add(st.done, c), h, n, st.size + 1)
      BY <2>3, <3>1, <3>2, <3>3, NumberedAdd
    <3>. QED BY <1>2, <2>6, <3>1, <3>2, <3>4
  <2>7. CASE /\ h > 0 /\ To(r, h, k).done = Add(To(r, h-1, k).done, Fix(r.part[h], DEL))
             /\ To(r, h, k).size = To(r, h-1, k).size
    BY <1>4, <2>4, <2>7
  <2>8. CASE /\ h > 0 /\ k > 0 /\ To(r, h, k).done = Add(To(r, h-1, k-1).done, Fix(r.part[h], r.gt[k]))
             /\ To(r, h, k).size = To(r, h-1, k-1).size
    BY <1>4, <2>2, <2>4, <2>8
  <2>. QED BY <2>1, <2>5, <2>6, <2>7, <2>8 DEF Grows
<1>. HIDE DEF n
<1>5. \A h \in 0..n, k \in 0..Len(r.gt) : <<h, k>> \in A
  BY <1>3, <1>4, JobInduction DEF n
<1>. QED BY <1>2, <1>5 DEF n

\* Two characters, and two lists of them, that differ in cuts and flags only.
Same(c, d)  == c.ocr = d.ocr /\ c.cor = d.cor /\ c.id = d.id
Alike(l, m) == Len(l) = Len(m) /\ \A h \in 1..Len(l) : Same(l[h], m[h])

(* Lists that are the same but for the cuts stay so. *)
LEMMA AlikeAdd ==
  ASSUME NEW l \in Seq(DbChar), NEW m \in Seq(DbChar), NEW c \in DbChar, NEW d \in DbChar,
         Alike(l, m), Same(c, d)
  PROVE  Alike(Add(l, c), Add(m, d))
<1>1. PICK t : t = Add(l, c)
  OBVIOUS
<1>2. PICK u : u = Add(m, d)
  OBVIOUS
<1>3. PICK n \in Nat : n = Len(l) /\ n = Len(m)
  BY AddIs DEF Alike
<1>4. /\ Len(t) = n + 1 /\ t[n + 1] = c
      /\ \A h \in 1..n : t[h] = l[h]
  <2>1. /\ Len(Add(l, c)) = Len(l) + 1
        /\ \A i \in 1..Len(l) : Add(l, c)[i] = l[i]
        /\ Add(l, c)[Len(l) + 1] = c
    BY AddIs
  <2>. QED BY <1>1, <1>3, <2>1
<1>5. /\ Len(u) = n + 1 /\ u[n + 1] = d
      /\ \A h \in 1..n : u[h] = m[h]
  <2>1. Len(Add(m, d)) = Len(m) + 1
    BY AddIs
  <2>2. \A i \in 1..Len(m) : Add(m, d)[i] = m[i]
    BY AddIs
  <2>3. Add(m, d)[Len(m) + 1] = d
    BY AddIs
  <2>. QED BY <1>2, <1>3, <2>1, <2>2, <2>3
<1>6. \A h \in 1..n : Same(l[h], m[h])
  BY <1>3 DEF Alike
<1>7. \A h \in 1..n+1 : h = n + 1 \/ h \in 1..n
  OBVIOUS
<1>8. \A h \in 1..n+1 : Same(t[h], u[h])
  BY <1>4, <1>5, <1>6, <1>7
<1>9. Alike(t, u)
  BY <1>4, <1>5, <1>8 DEF Alike
<1>. QED BY <1>1, <1>2, <1>9

(* Corrections of slices that are alike do alike. *)
LEMMA CorrectedAlike ==
  ASSUME NEW r \in Job, NEW q \in Job, q.gt = r.gt, q.size = r.size, Alike(q.part, r.part),
         NEW i \in 0..Len(r.part), NEW j \in 0..Len(r.gt)
  PROVE  Alike(To(q, i, j).done, To(r, i, j).done)
<1>. DEFINE n == Len(r.part)
            Both(h, k) == /\ Alike(To(q, h, k).done, To(r, h, k).done)
                          /\ To(q, h, k).size = To(r, h, k).size
            A == {p \in Cells(OcrOf(r), r.gt) : Both(p[1], p[2])}
<1>1. n \in Nat /\ Len(r.gt) \in Nat /\ Len(OcrOf(r)) = n /\ Len(q.part) = n /\ Len(q.gt) = Len(r.gt)
  BY JobIs DEF Alike
<1>2. \A h \in 0..n, k \in 0..Len(r.gt) : <<h, k>> \in A <=> Both(h, k)
  BY <1>1, CellsAre
<1>3. A \in SUBSET Cells(OcrOf(r), r.gt)
  OBVIOUS
<1>. HIDE DEF A
<1>4. \A h, k : MoveOf(q, h, k) = MoveOf(r, h, k)
  <2>1. r.part \in Seq(DbChar) /\ q.part \in Seq(DbChar)
    BY JobIs
  <2>2. OcrOf(r) \in Seq(Code) /\ OcrOf(q) \in Seq(Code) /\ Len(OcrOf(q)) = n
    BY <1>1, <2>1, FunctionsOfChars, CharsMap, JobIs DEF OcrOf
  <2>3. \A h \in 1..n : OcrOf(q)[h] = OcrOf(r)[h]
    BY <1>1, JobIs DEF Alike, Same
  <2>4. OcrOf(q) = OcrOf(r)
    BY <1>1, <2>2, <2>3, SameList
  <2>. QED BY <2>4 DEF MoveOf
<1>5. ASSUME NEW h \in 0..n, NEW k \in 0..Len(r.gt),
             h > 0 => h-1 \in 0..n /\ <<h-1, k>> \in A,
             k > 0 => k-1 \in 0..Len(r.gt) /\ <<h, k-1>> \in A,
             h > 0 /\ k > 0 => <<h-1, k-1>> \in A
      PROVE  <<h, k>> \in A
  <2>0. h \in 0..Len(q.part) /\ k \in 0..Len(q.gt)
    BY <1>1
  <2>1. Grows(r, h, k) /\ Grows(q, h, k)
    BY <2>0, ToIs
  <2>2. /\ h > 0 => /\ r.part[h] \in OcrChar /\ q.part[h] \in OcrChar
                    /\ Same(q.part[h], r.part[h])
        /\ k > 0 => r.gt[k] \in Letter
    BY <1>1, <2>0, AtCell DEF Alike
  <2>3. CASE h = 0 /\ k = 0
    <3>1. To(r, h, k).done = <<>> /\ To(q, h, k).done = <<>> /\ To(q, h, k).size = To(r, h, k).size
      BY <2>1, <2>3 DEF Grows
    <3>2. Alike(<<>>, <<>>)
      BY DEF Alike
    <3>. QED BY <1>2, <2>3, <3>1, <3>2
  <2>4. ASSUME h > 0, NEW m \in 0..Len(r.gt), NEW x \in Letter \cup {NoChar, DEL}, <<h-1, m>> \in A,
               To(r, h, k).done = Add(To(r, h-1, m).done, Fix(r.part[h], x)),
               To(r, h, k).size = To(r, h-1, m).size,
               To(q, h, k).done = Add(To(q, h-1, m).done, Fix(q.part[h], x)),
               To(q, h, k).size = To(q, h-1, m).size
        PROVE  <<h, k>> \in A
    <3>0. h-1 \in 0..n /\ h-1 \in 0..Len(q.part) /\ m \in 0..Len(q.gt)
      BY <1>1, <1>5, <2>4
    <3>1. Both(h-1, m)
      BY <1>2, <2>4, <3>0
    <3>2. To(r, h-1, m).done \in Seq(DbChar) /\ To(q, h-1, m).done \in Seq(DbChar)
      BY <3>0, AtCell
    <3>3. Fix(r.part[h], x) \in DbChar /\ Fix(q.part[h], x) \in DbChar
      BY <2>2, <2>4, FixIs
    <3>4. Same(Fix(q.part[h], x), Fix(r.part[h], x))
      BY <2>2, <2>4, FixIs DEF Same
    <3>5. Alike(To(q, h, k).done, To(r, h, k).done)
      BY <2>4, <3>1, <3>2, <3>3, <3>4, AlikeAdd
    <3>. QED BY <1>2, <2>4, <3>1, <3>5
  <2>5. CASE (h > 0 \/ k > 0) /\ MoveOf(r, h, k) = "Del"
    <3>1. /\ k > 0
          /\ To(r, h, k).done = Add(To(r, h, k-1).done, New(r, To(r, h, k-1), r.gt[k]))
          /\ To(r, h, k).size = To(r, h, k-1).size + 1
      BY <2>1, <2>5 DEF Grows
    <3>2. /\ To(q, h, k).done = Add(To(q, h, k-1).done, New(q, To(q, h, k-1), q.gt[k]))
          /\ To(q, h, k).size = To(q, h, k-1).size + 1
      BY <1>4, <2>1, <2>5 DEF Grows
    <3>3. k-1 \in 0..Len(r.gt) /\ k-1 \in 0..Len(q.gt) /\ Both(h, k-1)
      BY <1>1, <1>2, <1>5, <3>1
    <3>4. PICK x \in Letter : x = r.gt[k] /\ x = q.gt[k]
      BY <2>2, <3>1
    <3>5. PICK st \in State : /\ st = To(r, h, k-1) /\ st.at \in 1..Len(r.part) + 1
                              /\ st.done \in Seq(DbChar)
      BY <3>3, AtCell
    <3>6. PICK su \in State : /\ su = To(q, h, k-1) /\ su.at \in 1..Len(q.part) + 1
                              /\ su.done \in Seq(DbChar)
      BY <2>0, <3>3, AtCell
    <3>7. /\ New(r, st, x) \in DbChar /\ New(r, st, x).ocr = NoChar
          /\ New(r, st, x).cor = x /\ New(r, st, x).id = st.size
      <4>1. New(r, st, x) \in DbChar
        BY <3>5, NewIs, ZenonT(40)
      <4>2. New(r, st, x).ocr = NoChar
        BY <3>5, NewIs, ZenonT(40)
      <4>3. New(r, st, x).cor = x
        BY <3>5, NewIs, ZenonT(40)
      <4>4. New(r, st, x).id = st.size
        BY <3>5, NewIs, ZenonT(40)
      <4>. QED BY <4>1, <4>2, <4>3, <4>4
    <3>8. /\ New(q, su, x) \in DbChar /\ New(q, su, x).ocr = NoChar
          /\ New(q, su, x).cor = x /\ New(q, su, x).id = su.size
      <4>1. New(q, su, x) \in DbChar
        BY <3>6, NewIs, ZenonT(40)
      <4>2. New(q, su, x).ocr = NoChar
        BY <3>6, NewIs, ZenonT(40)
      <4>3. New(q, su, x).cor = x
        BY <3>6, NewIs, ZenonT(40)
      <4>4. New(q, su, x).id = su.size
        BY <3>6, NewIs, ZenonT(40)
      <4>. QED BY <4>1, <4>2, <4>3, <4>4
    <3>9. Same(New(q, su, x), New(r, st, x))
      BY <3>3, <3>5, <3>6, <3>7, <3>8 DEF Same
    <3>10. Alike(Add(su.done, New(q, su, x)), Add(st.done, New(r, st, x)))
      BY <3>3, <3>5, <3>6, <3>7, <3>8, <3>9, AlikeAdd
    <3>. QED BY <1>2, <3>1, <3>2, <3>3, <3>4, <3>5, <3>6, <3>10
  <2>6. CASE (h > 0 \/ k > 0) /\ MoveOf(r, h, k) = "Ins"
    <3>1. /\ h > 0
          /\ To(r, h, k).done = Add(To(r, h-1, k).done, Fix(r.part[h], DEL))
          /\ To(r, h, k).size = To(r, h-1, k).size
      BY <2>1, <2>6 DEF Grows
    <3>2. /\ To(q, h, k).done = Add(To(q, h-1, k).done, Fix(q.part[h], DEL))
          /\ To(q, h, k).size = To(q, h-1, k).size
      BY <1>4, <2>1, <2>6 DEF Grows
    <3>. QED BY <1>5, <2>4, <3>1, <3>2
  <2>7. CASE (h > 0 \/ k > 0) /\ MoveOf(r, h, k) \notin {"Del", "Ins"}
    <3>1. /\ h > 0 /\ k > 0
          /\ To(r, h, k).done = Add(To(r, h-1, k-1).done, Fix(r.part[h], r.gt[k]))
          /\ To(r, h, k).size = To(r, h-1, k-1).size
      BY <2>1, <2>7 DEF Grows
    <3>2. /\ To(q, h, k).done = Add(To(q, h-1, k-1).done, Fix(q.part[h], r.gt[k]))
          /\ To(q, h, k).size = To(q, h-1, k-1).size
      BY <1>4, <2>1, <2>7 DEF Grows
    <3>. QED BY <1>5, <2>2, <2>4, <3>1, <3>2
  <2>8. (h = 0 /\ k = 0) \/ h > 0 \/ k > 0
    BY <1>1
  <2>. QED BY <2>3, <2>5, <2>6, <2>7, <2>8
<1>. HIDE DEF n, Both
<1>6. \A h \in 0..n, k \in 0..Len(r.gt) : <<h, k>> \in A
  BY <1>3, <1>5, JobInduction DEF n
<1>. QED BY <1>2, <1>6 DEF n, Both

-----------------------------------------------------------------------------
(* Slices of a line.                                                       *)

Proper(l, s) == s.from \in 1..Len(l) + 1 /\ s.to \in s.from..Len(l) + 1

(* A slice ends between its begin and the end of the line. *)
LEMMA NextPosIs ==
  ASSUME NEW n \in Nat, NEW b \in 1..n + 1, NEW B \in SUBSET (b..n)
  PROVE  Min({n + 1} \cup B) \in b..n + 1
<1>. DEFINE S == {n + 1} \cup B
<1>1. S \in SUBSET Nat /\ S # {} /\ \A i \in S : i \in b..n + 1
  OBVIOUS
<1>. HIDE DEF S
<1>2. Min(S) \in S
  BY <1>1, MinOf
<1>. QED BY <1>1, <1>2 DEF S

(* The slices a request can address are slices. *)
LEMMA SlicesProper ==
  ASSUME NEW l \in Seq(DbChar), NEW s \in Slices(l)
  PROVE  Proper(l, s)
<1>1. PICK n \in Nat : n = Len(l)
  OBVIOUS
<1>2. Proper(l, Whole(l))
  BY <1>1 DEF Proper, Whole
<1>3. ASSUME NEW tid \in Ids, NEW len \in Lens
      PROVE  Proper(l, Slice(l, tid, len))
  <2>1. Find(l, tid) \in 1..n + 1
    <3>. DEFINE S == {i \in DOMAIN l : l[i].id = tid}
    <3>1. CASE S = {}
      BY <1>1, <3>1 DEF Find
    <3>2. CASE S # {}
      <4>1. S \in SUBSET Nat /\ S \subseteq 1..n /\ Find(l, tid) = Min(S)
        BY <1>1, <3>2 DEF Find
      <4>2. Min(S) \in S
        BY <3>2, <4>1, MinOf
      <4>. QED BY <1>1, <4>1, <4>2
    <3>. QED BY <3>1, <3>2
  <2>2. PICK b : b = Find(l, tid)
    OBVIOUS
  <2>3. PICK B : B = {i \in b..n : IF len < 0 THEN IsBoundary(l[i]) ELSE i = b + len}
    OBVIOUS
  <2>4. NextPos(l, b, len) = Min({n + 1} \cup B)
    BY <1>1, <2>3 DEF NextPos
  <2>5. B \in SUBSET (b..n)
    BY <2>3
  <2>6. NextPos(l, b, len) \in b..n + 1
    BY <2>1, <2>2, <2>4, <2>5, NextPosIs
  <2>7. Slice(l, tid, len) = [from |-> b, to |-> NextPos(l, b, len)]
    BY <2>2 DEF Slice
  <2>. QED BY <1>1, <2>1, <2>2, <2>6, <2>7 DEF Proper
<1>. QED BY <1>2, <1>3 DEF Slices

(* A line is its slice with what is before and behind it. *)
LEMMA CutUp ==
  ASSUME NEW l \in Seq(DbChar), NEW s, Proper(l, s)
  PROVE  /\ Prefix(l, s) \in Seq(DbChar) /\ Part(l, s) \in Seq(DbChar) /\ Suffix(l, s) \in Seq(DbChar)
         /\ Len(Prefix(l, s)) = s.from - 1 /\ Len(Part(l, s)) = s.to - s.from
         /\ Len(Suffix(l, s)) = Len(l) - s.to + 1
         /\ \A i \in 1..s.from - 1 : Prefix(l, s)[i] = l[i]
         /\ \A i \in 1..s.to - s.from : Part(l, s)[i] = l[s.from - 1 + i]
         /\ \A i \in 1..Len(l) - s.to + 1 : Suffix(l, s)[i] = l[s.to - 1 + i]
         /\ Cat(Cat(Prefix(l, s), Part(l, s)), Suffix(l, s)) = l
<1>1. PICK n \in Nat : n = Len(l)
  OBVIOUS
<1>2. PICK a \in 1..n + 1 : a = s.from
  BY <1>1 DEF Proper
<1>3. PICK b \in a..n + 1 : b = s.to
  BY <1>1, <1>2 DEF Proper
<1>4. PICK p : p = Prefix(l, s)
  OBVIOUS
<1>5. PICK q : q = Part(l, s)
  OBVIOUS
<1>6. PICK t : t = Suffix(l, s)
  OBVIOUS
<1>7. p = SubSeq(l, 1, a - 1) /\ q = SubSeq(l, a, b - 1) /\ t = SubSeq(l, b, n)
  BY <1>1, <1>2, <1>3, <1>4, <1>5, <1>6 DEF Prefix, Part, Suffix
<1>8. p \in Seq(DbChar) /\ Len(p) = a - 1 /\ \A i \in 1..a - 1 : p[i] = l[i]
  BY <1>1, <1>7
<1>9. q \in Seq(DbChar) /\ Len(q) = b - a /\ \A i \in 1..b - a : q[i] = l[a - 1 + i]
  BY <1>1, <1>7
<1>10. t \in Seq(DbChar) /\ Len(t) = n - b + 1 /\ \A i \in 1..n - b + 1 : t[i] = l[b - 1 + i]
  BY <1>1, <1>7
<1>11. Cat(Cat(p, q), t) = l
  <2>1. PICK u : u = Cat(Cat(p, q), t)
    OBVIOUS
  <2>2. /\ u \in Seq(DbChar) /\ Len(u) = Len(p) + Len(q) + Len(t)
        /\ \A i \in 1..Len(p) : u[i] = p[i]
        /\ \A i \in 1..Len(q) : u[Len(p) + i] = q[i]
        /\ \A i \in 1..Len(t) : u[Len(p) + Len(q) + i] = t[i]
    <3>1. p \in Seq(DbChar) /\ q \in Seq(DbChar) /\ t \in Seq(DbChar)
      BY <1>8, <1>9, <1>10
    <3>. QED BY <2>1, <3>1 DEF Cat
  <2>3. /\ Len(u) = n
        /\ \A i \in 1..a - 1 : u[i] = l[i]
        /\ \A i \in 1..b - a : u[a - 1 + i] = l[a - 1 + i]
        /\ \A i \in 1..n - b + 1 : u[b - 1 + i] = l[b - 1 + i]
    <3>1. Len(p) = a - 1 /\ Len(q) = b - a /\ Len(t) = n - b + 1
      BY <1>8, <1>9, <1>10
    <3>2. Len(p) + Len(q) = b - 1 /\ Len(p) + Len(q) + Len(t) = n
      BY <3>1
    <3>3. \A i \in 1..a - 1 : u[i] = l[i]
      BY <1>8, <2>2, <3>1
    <3>4. \A i \in 1..b - a : u[a - 1 + i] = l[a - 1 + i]
      BY <1>9, <2>2, <3>1
    <3>5. \A i \in 1..n - b + 1 : u[b - 1 + i] = l[b - 1 + i]
      BY <1>10, <2>2, <3>1, <3>2
    <3>. QED BY <2>2, <3>2, <3>3, <3>4, <3>5
  <2>4. ASSUME NEW i \in 1..n
        PROVE  u[i] = l[i]
    <3>1. CASE i <= a - 1
      BY <2>3, <3>1
    <3>2. CASE a - 1 < i /\ i <= b - 1
      <4>1. i - (a - 1) \in 1..b - a /\ i = a - 1 + (i - (a - 1))
        BY <3>2
      <4>. QED BY <2>3, <4>1
    <3>3. CASE b - 1 < i
      <4>1. i - (b - 1) \in 1..n - b + 1 /\ i = b - 1 + (i - (b - 1))
        BY <3>3
      <4>. QED BY <2>3, <4>1
    <3>. QED BY <3>1, <3>2, <3>3
  <2>5. u = l
    BY <1>1, <2>2, <2>3, <2>4, SameList
  <2>. QED BY <2>1, <2>5
<1>. QED BY <1>1, <1>2, <1>3, <1>4, <1>5, <1>6, <1>8, <1>9, <1>10, <1>11

(* The same for the three parts of an edited line. *)
LEMMA PutTogether ==
  ASSUME NEW p \in Seq(DbChar), NEW q \in Seq(DbChar), NEW t \in Seq(DbChar)
  PROVE  /\ Cat(Cat(p, q), t) \in Seq(DbChar)
         /\ Len(Cat(Cat(p, q), t)) = Len(p) + Len(q) + Len(t)
         /\ SubSeq(Cat(Cat(p, q), t), 1, Len(p)) = p
         /\ SubSeq(Cat(Cat(p, q), t), Len(p) + 1, Len(p) + Len(q)) = q
         /\ SubSeq(Cat(Cat(p, q), t), Len(p) + Len(q) + 1, Len(p) + Len(q) + Len(t)) = t
<1>1. PICK u : u = Cat(Cat(p, q), t)
  OBVIOUS
<1>2. u \in Seq(DbChar) /\ Len(u) = Len(p) + Len(q) + Len(t)
  BY <1>1 DEF Cat
<1>3. /\ \A i \in 1..Len(p) : u[i] = p[i]
      /\ \A i \in 1..Len(q) : u[Len(p) + i] = q[i]
      /\ \A i \in 1..Len(t) : u[Len(p) + Len(q) + i] = t[i]
  BY <1>1 DEF Cat
<1>4. SubSeq(u, 1, Len(p)) = p
  BY <1>2, <1>3
<1>5. SubSeq(u, Len(p) + 1, Len(p) + Len(q)) = q
  BY <1>2, <1>3
<1>6. SubSeq(u, Len(p) + Len(q) + 1, Len(p) + Len(q) + Len(t)) = t
  BY <1>2, <1>3
<1>. QED BY <1>1, <1>2, <1>4, <1>5, <1>6

-----------------------------------------------------------------------------
(* Edits of a slice.                                                       *)

\* A character reset, and its flag set.
Bare(c, id)  == [c EXCEPT !.cor = NoChar, !.id = id]
Marked(c, m) == [c EXCEPT !.manually = m]

LEMMA BareIs ==
  ASSUME NEW c \in OcrChar, NEW id \in Nat
  PROVE  /\ Bare(c, id) \in OcrChar /\ Bare(c, id) \in DbChar
         /\ Bare(c, id).ocr = c.ocr /\ Bare(c, id).cor = NoChar
         /\ Bare(c, id).cut = c.cut /\ Bare(c, id).id = id
         /\ Bare(c, id).manually = c.manually
<1>1. c \in DbChar /\ c.ocr # NoChar
  BY OcrCharIs, CharIs
<1>2. /\ Bare(c, id).ocr = c.ocr /\ Bare(c, id).cor = NoChar
      /\ Bare(c, id).cut = c.cut /\ Bare(c, id).id = id
      /\ Bare(c, id).manually = c.manually
  BY <1>1 DEF Bare, DbChar
<1>3. Bare(c, id) \in DbChar
  BY <1>1 DEF Bare, DbChar
<1>. QED BY <1>1, <1>2, <1>3, CharIs

LEMMA MarkedIs ==
  ASSUME NEW c \in DbChar, NEW m \in BOOLEAN
  PROVE  /\ Marked(c, m) \in DbChar
         /\ Marked(c, m).ocr = c.ocr /\ Marked(c, m).cor = c.cor
         /\ Marked(c, m).cut = c.cut /\ Marked(c, m).id = c.id
         /\ Marked(c, m).manually = m
BY DEF Marked, DbChar

LEMMA SetTypeIs ==
  ASSUME NEW l \in Seq(DbChar), NEW m \in BOOLEAN
  PROVE  /\ SetType(l, m) \in Seq(DbChar) /\ Len(SetType(l, m)) = Len(l)
         /\ \A i \in 1..Len(l) : SetType(l, m)[i] = Marked(l[i], m)
<1>1. Len(l) \in Nat /\ DOMAIN l = 1..Len(l) /\ \A i \in 1..Len(l) : l[i] \in DbChar
  OBVIOUS
<1>2. SetType(l, m) = [i \in 1..Len(l) |-> Marked(l[i], m)]
  BY <1>1 DEF SetType, Marked
<1>3. \A i \in 1..Len(l) : Marked(l[i], m) \in DbChar
  BY <1>1, MarkedIs
<1>. HIDE DEF Marked
<1>. QED BY <1>1, <1>2, <1>3

(* What a reset leaves of the slice: the characters of the OCR. *)
LEMMA ClearedIs ==
  ASSUME NEW l \in Seq(DbChar), NEW s, Proper(l, s)
  PROVE  \E kept \in Seq(OcrChar) :
           /\ kept = Those(Part(l, s), OcrChar)
           /\ Cleared(l, s) \in Seq(OcrChar) /\ Len(Cleared(l, s)) = Len(kept)
           /\ \A i \in 1..Len(kept) : /\ kept[i] \in OcrChar
                                      /\ Cleared(l, s)[i] = Bare(kept[i], s.from - 2 + i)
                                      /\ s.from - 2 + i \in Nat
<1>1. Part(l, s) \in Seq(DbChar)
  BY CutUp
<1>2. DbChar \cap OcrChar = OcrChar
  BY OcrCharIs
<1>3. PICK kept \in Seq(OcrChar) : kept = Those(Part(l, s), OcrChar)
  BY <1>1, <1>2, ThoseType
<1>4. Len(kept) \in Nat /\ DOMAIN kept = 1..Len(kept) /\ \A i \in 1..Len(kept) : kept[i] \in OcrChar
  OBVIOUS
<1>5. s.from \in Nat /\ s.from >= 1
  BY DEF Proper
<1>6. \A i \in 1..Len(kept) : s.from - 2 + i \in Nat
  BY <1>5
<1>7. Cleared(l, s) = [i \in 1..Len(kept) |-> Bare(kept[i], s.from - 2 + i)]
  BY <1>3, <1>4 DEF Cleared, Bare
<1>8. \A i \in 1..Len(kept) : Bare(kept[i], s.from - 2 + i) \in OcrChar
  BY <1>4, <1>6, BareIs
<1>. HIDE DEF Bare
<1>9. Cleared(l, s) \in Seq(OcrChar)
  BY <1>4, <1>7, <1>8
<1>10. Len(Cleared(l, s)) = Len(kept)
  BY <1>4, <1>7
<1>11. \A i \in 1..Len(kept) : Cleared(l, s)[i] = Bare(kept[i], s.from - 2 + i)
  BY <1>7
<1>. QED BY <1>3, <1>4, <1>6, <1>9, <1>10, <1>11

\* What no edit changes: g is fixed, and is not about ids and flags.
Stable(g, C) ==
  /\ Fixed(g, C)
  /\ \A c \in OcrChar, id \in Nat : g[Bare(c, id)] = g[c]
  /\ \A c \in DbChar, m \in BOOLEAN : g[Marked(c, m)] = g[c]

(* The OCR's characters, and their cuts, are stable. *)
LEMMA OcrStable == Stable(OCR, Pos)
<1>1. \A c \in DbChar : OCR[c] = c.ocr
  BY DEF OCR
<1>2. \A c \in DbChar : c \in OcrChar <=> OCR[c] \in Pos
  BY <1>1, CharIs
<1>3. \A c \in OcrChar, x \in Letter \cup {NoChar, DEL} : OCR[Fix(c, x)] = OCR[c]
  BY <1>1, FixIs, OcrCharIs
<1>4. \A c \in OcrChar, id \in Nat : OCR[Bare(c, id)] = OCR[c]
  BY <1>1, BareIs, OcrCharIs
<1>5. \A c \in DbChar, m \in BOOLEAN : OCR[Marked(c, m)] = OCR[c]
  BY <1>1, MarkedIs
<1>. QED BY <1>2, <1>3, <1>4, <1>5 DEF Stable, Fixed

FRAME  == [c \in DbChar |-> <<c.ocr, c.cut>>]
Frames == Pos \X Int

(* The edits of a character leave its frame, and its frame tells whether   *)
(* it is an insertion.                                                     *)
LEMMA FrameStable == FRAME \in [DbChar -> Code \X Int] /\ Stable(FRAME, Frames)
<1>1. \A c \in DbChar : FRAME[c] = <<c.ocr, c.cut>>
  BY DEF FRAME
<1>2. \A c \in DbChar : c.ocr \in Code /\ c.cut \in Int /\ (c \in OcrChar <=> c.ocr \in Pos)
  BY CharIs DEF Code
<1>3. FRAME \in [DbChar -> Code \X Int]
  BY <1>2 DEF FRAME
<1>4. \A c \in DbChar : c \in OcrChar <=> FRAME[c] \in Frames
  BY <1>1, <1>2 DEF Frames
<1>5. \A c \in OcrChar, x \in Letter \cup {NoChar, DEL} : FRAME[Fix(c, x)] = FRAME[c]
  BY <1>1, FixIs, OcrCharIs
<1>6. ASSUME NEW c \in OcrChar, NEW id \in Nat
      PROVE  FRAME[Bare(c, id)] = FRAME[c]
  <2>1. Bare(c, id) \in DbChar /\ c \in DbChar
    BY BareIs, OcrCharIs
  <2>2. Bare(c, id).ocr = c.ocr /\ Bare(c, id).cut = c.cut
    BY BareIs
  <2>. QED BY <1>1, <2>1, <2>2
<1>7. \A c \in DbChar, m \in BOOLEAN : FRAME[Marked(c, m)] = FRAME[c]
  BY <1>1, MarkedIs
<1>. QED BY <1>3, <1>4, <1>5, <1>6, <1>7 DEF Stable, Fixed

(* Filtering first is the same. *)
LEMMA KeptFirst ==
  ASSUME NEW T, NEW g \in [DbChar -> T], NEW C, Stable(g, C), NEW l \in Seq(DbChar)
  PROVE  Map(Those(l, OcrChar), g) = Sift(l, g, C)
<1>. DEFINE A == {t \in Seq(DbChar) : Map(Those(t, OcrChar), g) = Sift(t, g, C)}
<1>1. <<>> \in A
  BY ThoseEmpty, MapEmpty, SiftEmpty, EmptyIs
<1>2. ASSUME NEW t \in A, NEW e \in DbChar
      PROVE  Add(t, e) \in A
  <2>1. Add(t, e) \in Seq(DbChar) /\ Those(t, OcrChar) \in Seq(DbChar)
    BY AddIs, ThoseType
  <2>2. Those(Add(t, e), OcrChar) = IF e \in OcrChar THEN Add(Those(t, OcrChar), e) ELSE Those(t, OcrChar)
    BY ThoseAdd
  <2>3. Map(Add(Those(t, OcrChar), e), g) = Add(Map(Those(t, OcrChar), g), g[e])
    BY <2>1, MapAdd
  <2>4. Sift(Add(t, e), g, C) = IF g[e] \in C THEN Add(Sift(t, g, C), g[e]) ELSE Sift(t, g, C)
    <3>1. Map(t, g) \in Seq(T) /\ g[e] \in T
      BY MapIs
    <3>2. Map(Add(t, e), g) = Add(Map(t, g), g[e])
      BY MapAdd
    <3>. QED BY <3>1, <3>2, ThoseAdd DEF Sift
  <2>. QED BY <2>1, <2>2, <2>3, <2>4 DEF Stable, Fixed
<1>. HIDE DEF A
<1>3. A = Seq(DbChar)
  BY <1>1, <1>2, ListInduction DEF A
<1>. QED BY <1>3 DEF A

(* A stable measure of a cleared slice is what it was of its characters,   *)
(* insertions left out.                                                    *)
LEMMA ClearedKeeps ==
  ASSUME NEW T, NEW g \in [DbChar -> T], NEW C, Stable(g, C),
         NEW l \in Seq(DbChar), NEW s, Proper(l, s)
  PROVE  Map(Cleared(l, s), g) = Sift(Part(l, s), g, C)
<1>1. PICK kept \in Seq(OcrChar) :
           /\ kept = Those(Part(l, s), OcrChar)
           /\ Cleared(l, s) \in Seq(OcrChar) /\ Len(Cleared(l, s)) = Len(kept)
           /\ \A i \in 1..Len(kept) : /\ kept[i] \in OcrChar
                                      /\ Cleared(l, s)[i] = Bare(kept[i], s.from - 2 + i)
                                      /\ s.from - 2 + i \in Nat
  BY ClearedIs
<1>2. Part(l, s) \in Seq(DbChar)
  BY CutUp
<1>4. Map(Those(Part(l, s), OcrChar), g) = Sift(Part(l, s), g, C)
  <2>1. PICK q \in Seq(DbChar) : q = Part(l, s)
    BY <1>2
  <2>2. Map(Those(q, OcrChar), g) = Sift(q, g, C)
    BY KeptFirst
  <2>. QED BY <2>1, <2>2
<1>5. DOMAIN kept = 1..Len(kept) /\ DOMAIN Cleared(l, s) = 1..Len(kept)
  BY <1>1
<1>6. \A i \in 1..Len(kept) : g[Cleared(l, s)[i]] = g[kept[i]]
  BY <1>1 DEF Stable
<1>7. Map(Cleared(l, s), g) = Map(kept, g)
  BY <1>5, <1>6 DEF Map
<1>. QED BY <1>1, <1>4, <1>7

(* Setting the flags of a slice leaves a stable measure as it is. *)
LEMMA MarkedKeeps ==
  ASSUME NEW T, NEW g \in [DbChar -> T], NEW C, Stable(g, C),
         NEW l \in Seq(DbChar), NEW m \in BOOLEAN
  PROVE  Sift(SetType(l, m), g, C) = Sift(l, g, C)
<1>1. /\ SetType(l, m) \in Seq(DbChar) /\ Len(SetType(l, m)) = Len(l)
      /\ \A i \in 1..Len(l) : SetType(l, m)[i] = Marked(l[i], m)
  BY SetTypeIs
<1>2. /\ DOMAIN l = 1..Len(l) /\ DOMAIN SetType(l, m) = 1..Len(l)
      /\ \A i \in 1..Len(l) : l[i] \in DbChar
  BY <1>1
<1>3. \A i \in 1..Len(l) : g[SetType(l, m)[i]] = g[l[i]]
  BY <1>1, <1>2 DEF Stable
<1>4. Map(SetType(l, m), g) = Map(l, g)
  BY <1>2, <1>3 DEF Map
<1>. QED BY <1>4 DEF Sift

(* The box of a slice. *)
LEMMA BoxIs ==
  ASSUME NEW l \in Seq(DbChar), NEW s, Proper(l, s)
  PROVE  BoxLeft(l, s) \in Int /\ BoxRight(l, s) \in Int /\ Left \in Int /\ Right \in Int
<1>1. \A i \in 1..Len(l) : l[i].cut \in Int
  <2>1. \A i \in 1..Len(l) : l[i] \in DbChar
    OBVIOUS
  <2>. QED BY <2>1, CharIs
<1>2. Left \in Int /\ Right \in Int
  <2>1. Width \in Nat /\ MaxOcr \in Nat
    BY BoundAssumption
  <2>. QED BY <2>1 DEF Left, Right
<1>3. PICK n \in Nat : n = Len(l)
  OBVIOUS
<1>4. PICK a \in 1..n + 1 : a = s.from
  BY <1>3 DEF Proper
<1>5. PICK b \in a..n + 1 : b = s.to
  BY <1>3, <1>4 DEF Proper
<1>6. a = 1 \/ a - 1 \in 1..n
  OBVIOUS
<1>7. BoxLeft(l, s) \in Int
  BY <1>1, <1>2, <1>3, <1>4, <1>6 DEF BoxLeft
<1>8. BoxRight(l, s) \in Int
  <2>1. CASE a < b
    BY <1>1, <1>3, <1>4, <1>5, <2>1 DEF BoxRight
  <2>2. CASE a = b /\ b <= n
    BY <1>1, <1>3, <1>4, <1>5, <2>2 DEF BoxRight
  <2>3. CASE a = b /\ b > n
    BY <1>2, <1>3, <1>4, <1>5, <2>3 DEF BoxRight
  <2>. QED BY <2>1, <2>2, <2>3
<1>. QED BY <1>2, <1>7, <1>8

-----------------------------------------------------------------------------
(* Corrections and resets of a line.                                       *)

\* The line with another slice.
Edit(l, s, x, m) == Cat(Cat(Prefix(l, s), SetType(x, m)), Suffix(l, s))

JobOf(l, s, gt) ==
  [part |-> Cleared(l, s), gt |-> gt, size |-> Len(l) - (s.to - s.from) + Len(Cleared(l, s)),
   left |-> BoxLeft(l, s), right |-> BoxRight(l, s)]

\* The slice after its correction.
Done(r) == To(r, Len(r.part), Len(r.gt)).done

(* The inputs of the alignment in a request are proper ones. *)
LEMMA JobOfIs ==
  ASSUME NEW l \in Seq(DbChar), NEW s, Proper(l, s), NEW gt \in Seq(Letter)
  PROVE  /\ JobOf(l, s, gt) \in Job
         /\ JobOf(l, s, gt).part = Cleared(l, s) /\ JobOf(l, s, gt).gt = gt
         /\ JobOf(l, s, gt).left = BoxLeft(l, s) /\ JobOf(l, s, gt).right = BoxRight(l, s)
         /\ JobOf(l, s, gt).size = Len(l) - (s.to - s.from) + Len(Cleared(l, s))
<1>1. Cleared(l, s) \in Seq(OcrChar)
  BY ClearedIs
<1>2. BoxLeft(l, s) \in Int /\ BoxRight(l, s) \in Int
  BY BoxIs
<1>3. Len(l) - (s.to - s.from) + Len(Cleared(l, s)) \in Nat
  <2>1. Len(Cleared(l, s)) \in Nat /\ Len(l) \in Nat
    BY <1>1
  <2>2. s.from \in 1..Len(l) + 1 /\ s.to \in s.from..Len(l) + 1
    BY DEF Proper
  <2>. QED BY <2>1, <2>2
<1>. QED BY <1>1, <1>2, <1>3 DEF JobOf, Job

(* A correction is an edit of the slice by what the script has made of it. *)
LEMMA CorrectedIs ==
  ASSUME NEW l \in Seq(DbChar), NEW s, Proper(l, s), NEW gt \in Seq(Letter), NEW mode
  PROVE  /\ Done(JobOf(l, s, gt)) \in Seq(DbChar)
         /\ Corrected(l, s, gt, mode) =
              Edit(l, s, Done(JobOf(l, s, gt)), mode = "manual")
<1>1. PICK r \in Job : r = JobOf(l, s, gt)
  BY JobOfIs
<1>2. /\ r.part = Cleared(l, s) /\ r.gt = gt
      /\ r.left = BoxLeft(l, s) /\ r.right = BoxRight(l, s)
      /\ r.size = Len(l) - (s.to - s.from) + Len(Cleared(l, s))
  BY <1>1 DEF JobOf
<1>3. Len(r.part) \in Nat /\ Len(r.gt) \in Nat /\ Len(OcrOf(r)) = Len(r.part)
  BY JobIs
<1>4. OcrOf(r) = Wocr(Part(l, s))
  <2>1. PICK kept \in Seq(OcrChar) :
           /\ kept = Those(Part(l, s), OcrChar)
           /\ Cleared(l, s) \in Seq(OcrChar) /\ Len(Cleared(l, s)) = Len(kept)
           /\ \A i \in 1..Len(kept) : /\ kept[i] \in OcrChar
                                      /\ Cleared(l, s)[i] = Bare(kept[i], s.from - 2 + i)
                                      /\ s.from - 2 + i \in Nat
    BY ClearedIs
  <2>2. Part(l, s) \in Seq(DbChar)
    BY CutUp
  <2>3. Map(Cleared(l, s), OCR) = Sift(Part(l, s), OCR, Pos)
    BY OcrStable, FunctionsOfChars, ClearedKeeps
  <2>. QED BY <1>2, <2>2, <2>3, StringsAre DEF OcrOf
<1>5. Done(r) = Applied(Cleared(l, s), Script(Wocr(Part(l, s)), gt),
                        Len(l) - (s.to - s.from) + Len(Cleared(l, s)), BoxLeft(l, s), BoxRight(l, s))
  BY <1>2, <1>3, <1>4 DEF Done, To, Applied, Script
<1>6. Corrected(l, s, gt, mode) =
        Edit(l, s, Done(r), mode = "manual")
  BY <1>5 DEF Corrected, Edit, Cat
<1>7. Done(r) \in Seq(DbChar)
  <2>1. Len(r.part) \in 0..Len(r.part) /\ Len(r.gt) \in 0..Len(r.gt)
    BY <1>3
  <2>. QED BY <2>1, AtCell DEF Done
<1>. QED BY <1>1, <1>6, <1>7

LEMMA TextIs ==
  /\ \A gt \in Text : gt \in Seq(Letter)
  /\ \A ocr \in Ocr : ocr \in Seq(Letter) /\ Len(ocr) \in 0..MaxOcr
<1>1. MaxText \in Nat /\ MaxOcr \in Nat
  BY BoundAssumption
<1>2. ASSUME NEW gt \in Text
      PROVE  gt \in Seq(Letter)
  <2>1. PICK m \in 0..MaxText : gt \in [1..m -> Letter]
    BY DEF Text, SeqOf
  <2>. QED BY <1>1, <2>1
<1>3. ASSUME NEW ocr \in Ocr
      PROVE  ocr \in Seq(Letter) /\ Len(ocr) \in 0..MaxOcr
  <2>1. PICK m \in 0..MaxOcr : ocr \in [1..m -> Letter]
    BY DEF Ocr, SeqOf
  <2>. QED BY <1>1, <2>1
<1>. QED BY <1>2, <1>3

(* A reset is an edit of the slice by the cleared slice. *)
LEMMA ResetIs ==
  ASSUME NEW l \in Seq(DbChar), NEW s, Proper(l, s)
  PROVE  /\ Cleared(l, s) \in Seq(OcrChar) /\ Cleared(l, s) \in Seq(DbChar)
         /\ Reset(l, s) = Edit(l, s, Cleared(l, s), FALSE)
<1>1. Cleared(l, s) \in Seq(OcrChar)
  BY ClearedIs
<1>2. Reset(l, s) = Edit(l, s, Cleared(l, s), FALSE)
  BY DEF Reset, Edit, Cat
<1>. QED BY <1>1, <1>2, OcrCharIs

(* An edit gives a list of characters. *)
LEMMA EditType ==
  ASSUME NEW l \in Seq(DbChar), NEW s, Proper(l, s)
  PROVE  /\ Reset(l, s) \in Seq(DbChar)
         /\ \A gt \in Seq(Letter) : \A mode : Corrected(l, s, gt, mode) \in Seq(DbChar)
<1>1. Prefix(l, s) \in Seq(DbChar) /\ Suffix(l, s) \in Seq(DbChar)
  BY CutUp
<1>2. ASSUME NEW x \in Seq(DbChar), NEW m \in BOOLEAN
      PROVE  Edit(l, s, x, m) \in Seq(DbChar)
  BY <1>1, SetTypeIs, PutTogether DEF Edit
<1>3. Reset(l, s) \in Seq(DbChar)
  BY <1>2, ResetIs
<1>4. ASSUME NEW gt \in Seq(Letter), NEW mode
      PROVE  Corrected(l, s, gt, mode) \in Seq(DbChar)
  <2>1. (mode = "manual") \in BOOLEAN
    OBVIOUS
  <2>2. /\ Done(JobOf(l, s, gt)) \in Seq(DbChar)
        /\ Corrected(l, s, gt, mode) =
             Edit(l, s, Done(JobOf(l, s, gt)), mode = "manual")
    BY CorrectedIs
  <2>. QED BY <1>2, <2>1, <2>2
<1>. QED BY <1>3, <1>4

Keep(x, y, g, C) == Sift(x, g, C) = Sift(y, g, C)

(* What no edit of a slice changes. *)
LEMMA EditKeeps ==
  ASSUME NEW T, NEW g \in [DbChar -> T], NEW C, Stable(g, C),
         NEW l \in Seq(DbChar), NEW s, Proper(l, s),
         NEW x \in Seq(DbChar), NEW m \in BOOLEAN,
         Keep(x, Part(l, s), g, C)
  PROVE  Keep(Edit(l, s, x, m), l, g, C)
<1>1. PICK p \in Seq(DbChar) : p = Prefix(l, s)
  BY CutUp
<1>2. PICK q \in Seq(DbChar) : q = Part(l, s)
  BY CutUp
<1>3. PICK t \in Seq(DbChar) : t = Suffix(l, s)
  BY CutUp
<1>4. PICK y \in Seq(DbChar) : y = SetType(x, m)
  BY SetTypeIs
<1>5. Cat(Cat(p, q), t) = l
  BY <1>1, <1>2, <1>3, CutUp
<1>6. Sift(y, g, C) = Sift(q, g, C)
  BY <1>2, <1>4, MarkedKeeps, ZenonT(40) DEF Keep
<1>7. ASSUME NEW z \in Seq(DbChar)
      PROVE  Sift(Cat(Cat(p, z), t), g, C) = Cat(Cat(Sift(p, g, C), Sift(z, g, C)), Sift(t, g, C))
  <2>1. Cat(p, z) \in Seq(DbChar)
    BY CatIs
  <2>2. Sift(Cat(Cat(p, z), t), g, C) = Cat(Sift(Cat(p, z), g, C), Sift(t, g, C))
    BY <2>1, SiftCat, ZenonT(40)
  <2>3. Sift(Cat(p, z), g, C) = Cat(Sift(p, g, C), Sift(z, g, C))
    BY SiftCat, ZenonT(40)
  <2>. QED BY <2>2, <2>3
<1>. QED BY <1>1, <1>3, <1>4, <1>5, <1>6, <1>7 DEF Edit, Keep

(* A correction leaves the stable measures of a line as they are. *)
LEMMA CorrectedKeeps ==
  ASSUME NEW T, NEW g \in [DbChar -> T], NEW C, Stable(g, C),
         NEW l \in Seq(DbChar), NEW s, Proper(l, s), NEW gt \in Seq(Letter), NEW mode
  PROVE  Keep(Corrected(l, s, gt, mode), l, g, C)
<1>1. PICK r \in Job : r = JobOf(l, s, gt) /\ r.part = Cleared(l, s)
  BY JobOfIs
<1>2. PICK x \in Seq(DbChar) : x = Done(r)
  BY <1>1, CorrectedIs
<1>3. Corrected(l, s, gt, mode) = Edit(l, s, x, mode = "manual")
  BY <1>1, <1>2, CorrectedIs
<1>4. Len(r.part) \in 0..Len(r.part) /\ Len(r.gt) \in 0..Len(r.gt)
  BY JobIs
<1>5. Fixed(g, C)
  BY DEF Stable
<1>6. Sift(x, g, C) = First(Map(r.part, g), Len(r.part))
  BY <1>2, <1>4, <1>5, Keeps DEF Done
<1>7. First(Map(r.part, g), Len(r.part)) = Map(r.part, g)
  <2>1. r.part \in Seq(DbChar)
    BY JobIs
  <2>2. PICK m \in Seq(T) : m = Map(r.part, g)
    BY <2>1, MapIs
  <2>3. Len(m) = Len(r.part)
    BY <2>1, <2>2 DEF Map
  <2>4. Len(m) \in 0..Len(m)
    BY <2>2
  <2>5. First(m, Len(m)) = m
    BY <2>4, FirstIs
  <2>. QED BY <2>2, <2>3, <2>5
<1>8. Map(Cleared(l, s), g) = Sift(Part(l, s), g, C)
  BY ClearedKeeps
<1>9. (mode = "manual") \in BOOLEAN
  OBVIOUS
<1>10. Keep(x, Part(l, s), g, C)
  BY <1>1, <1>6, <1>7, <1>8 DEF Keep
<1>11. PICK m \in BOOLEAN : m = (mode = "manual")
  BY <1>9
<1>12. Keep(Edit(l, s, x, m), l, g, C)
  BY <1>10, EditKeeps
<1>. QED BY <1>3, <1>11, <1>12

(* A filter that leaves nothing out. *)
LEMMA ThoseAll ==
  ASSUME NEW l \in Seq(OcrChar)
  PROVE  Those(l, OcrChar) = l
<1>. DEFINE A == {t \in Seq(OcrChar) : Those(t, OcrChar) = t}
<1>1. <<>> \in A
  BY ThoseEmpty, EmptyIs
<1>2. ASSUME NEW t \in A, NEW e \in OcrChar
      PROVE  Add(t, e) \in A
  BY AddIs, ThoseAdd
<1>. HIDE DEF A
<1>3. A = Seq(OcrChar)
  BY <1>1, <1>2, ListInduction DEF A
<1>. QED BY <1>3 DEF A

(* So does a reset. *)
LEMMA ResetKeeps ==
  ASSUME NEW T, NEW g \in [DbChar -> T], NEW C, Stable(g, C),
         NEW l \in Seq(DbChar), NEW s, Proper(l, s)
  PROVE  Keep(Reset(l, s), l, g, C)
<1>1. PICK x \in Seq(OcrChar) : x = Cleared(l, s)
  BY ResetIs
<1>2. x \in Seq(DbChar)
  BY OcrCharIs
<1>3. Map(Those(x, OcrChar), g) = Sift(x, g, C)
  BY <1>2, KeptFirst
<1>4. Those(x, OcrChar) = x
  BY ThoseAll
<1>5. Sift(x, g, C) = Sift(Part(l, s), g, C)
  BY <1>1, <1>3, <1>4, ClearedKeeps
<1>6. Reset(l, s) = Edit(l, s, x, FALSE)
  BY <1>1, ResetIs
<1>7. FALSE \in BOOLEAN
  OBVIOUS
<1>8. PICK m \in BOOLEAN : m = FALSE
  BY <1>7
<1>9. PICK y \in Seq(DbChar) : y = x
  BY <1>2
<1>10. Keep(y, Part(l, s), g, C)
  BY <1>5, <1>9 DEF Keep
<1>11. Keep(Edit(l, s, y, m), l, g, C)
  BY <1>10, EditKeeps
<1>. QED BY <1>6, <1>8, <1>9, <1>11

(* The OCR result and its cuts stay. *)
LEMMA OcrStays ==
  ASSUME NEW l \in Seq(DbChar), NEW s, Proper(l, s)
  PROVE  /\ Keep(Reset(l, s), l, OCR, Pos) /\ Keep(Reset(l, s), l, FRAME, Frames)
         /\ \A gt \in Seq(Letter) : \A mode : /\ Keep(Corrected(l, s, gt, mode), l, OCR, Pos)
                                          /\ Keep(Corrected(l, s, gt, mode), l, FRAME, Frames)
<1>1. OCR \in [DbChar -> Code] /\ Stable(OCR, Pos)
  BY FunctionsOfChars, OcrStable
<1>2. FRAME \in [DbChar -> Code \X Int] /\ Stable(FRAME, Frames)
  BY FrameStable
<1>3. Keep(Reset(l, s), l, OCR, Pos)
  BY <1>1, ResetKeeps
<1>4. Keep(Reset(l, s), l, FRAME, Frames)
  BY <1>2, ResetKeeps
<1>5. ASSUME NEW gt \in Seq(Letter), NEW mode
      PROVE  Keep(Corrected(l, s, gt, mode), l, OCR, Pos)
  BY <1>1, CorrectedKeeps
<1>6. ASSUME NEW gt \in Seq(Letter), NEW mode
      PROVE  Keep(Corrected(l, s, gt, mode), l, FRAME, Frames)
  BY <1>2, CorrectedKeeps
<1>. QED BY <1>3, <1>4, <1>5, <1>6

(* After the whole script the slice reads the correction. *)
LEMMA DoneReads ==
  ASSUME NEW r \in Job
  PROVE  Wcor(Done(r)) = r.gt
<1>1. Len(r.part) \in 0..Len(r.part) /\ Len(r.gt) \in 0..Len(r.gt)
  BY JobIs
<1>2. Wcor(Done(r)) = First(r.gt, Len(r.gt))
  BY <1>1, ReadsBack DEF Done
<1>. QED BY <1>1, <1>2, JobIs, FirstIs

LEMMA MarkedReads ==
  ASSUME NEW l \in Seq(DbChar), NEW m \in BOOLEAN
  PROVE  Wcor(SetType(l, m)) = Wcor(l)
<1>1. /\ SetType(l, m) \in Seq(DbChar) /\ Len(SetType(l, m)) = Len(l)
      /\ \A i \in 1..Len(l) : SetType(l, m)[i] = Marked(l[i], m)
  BY SetTypeIs
<1>2. /\ DOMAIN l = 1..Len(l) /\ DOMAIN SetType(l, m) = 1..Len(l)
      /\ \A i \in 1..Len(l) : l[i] \in DbChar
  BY <1>1
<1>3. \A c \in DbChar : GetCor(Marked(c, m)) = GetCor(c)
  BY MarkedIs DEF GetCor, IsCor
<1>4. \A i \in 1..Len(l) : COR[SetType(l, m)[i]] = COR[l[i]]
  <2>1. \A c \in DbChar : COR[c] = GetCor(c)
    BY DEF COR
  <2>2. \A c \in DbChar : Marked(c, m) \in DbChar
    BY MarkedIs
  <2>. QED BY <1>1, <1>2, <1>3, <2>1, <2>2
<1>5. Map(SetType(l, m), COR) = Map(l, COR)
  BY <1>2, <1>4 DEF Map
<1>. QED BY <1>1, <1>5, StringsAre DEF Sift

(* What the POST was given is what the slice reads. *)
LEMMA CorrectedReads ==
  ASSUME NEW l \in Seq(DbChar), NEW s, Proper(l, s), NEW gt \in Seq(Letter), NEW mode, NEW new,
         new = Corrected(l, s, gt, mode)
  PROVE  /\ Wcor(SubSeq(new, s.from, Len(new) - (Len(l) - s.to) - 1)) = gt
         /\ Prefix(new, s) = Prefix(l, s)
         /\ SubSeq(new, Len(new) - (Len(l) - s.to), Len(new)) = Suffix(l, s)
         /\ Wocr(new) = Wocr(l)
<1>1. PICK r \in Job : r = JobOf(l, s, gt) /\ r.gt = gt
  BY JobOfIs
<1>2. PICK m \in BOOLEAN : m = (mode = "manual")
  OBVIOUS
<1>3. PICK x \in Seq(DbChar) : x = Done(r)
  BY <1>1, CorrectedIs
<1>4. new = Edit(l, s, x, m)
  BY <1>1, <1>2, <1>3, CorrectedIs
<1>5. PICK y \in Seq(DbChar) : y = SetType(x, m)
  BY SetTypeIs
<1>6. PICK p \in Seq(DbChar) : p = Prefix(l, s) /\ Len(p) = s.from - 1
  BY CutUp
<1>7. PICK t \in Seq(DbChar) : t = Suffix(l, s) /\ Len(t) = Len(l) - s.to + 1
  BY CutUp
<1>8. new = Cat(Cat(p, y), t)
  BY <1>4, <1>5, <1>6, <1>7 DEF Edit
<1>9. /\ new \in Seq(DbChar)
      /\ Len(new) = Len(p) + Len(y) + Len(t)
      /\ SubSeq(new, 1, Len(p)) = p
      /\ SubSeq(new, Len(p) + 1, Len(p) + Len(y)) = y
      /\ SubSeq(new, Len(p) + Len(y) + 1, Len(p) + Len(y) + Len(t)) = t
  <2>1. /\ Cat(Cat(p, y), t) \in Seq(DbChar)
        /\ Len(Cat(Cat(p, y), t)) = Len(p) + Len(y) + Len(t)
    BY PutTogether, SMTT(30)
  <2>2. SubSeq(Cat(Cat(p, y), t), 1, Len(p)) = p
    BY PutTogether, SMTT(30)
  <2>3. SubSeq(Cat(Cat(p, y), t), Len(p) + 1, Len(p) + Len(y)) = y
    BY PutTogether, SMTT(30)
  <2>4. SubSeq(Cat(Cat(p, y), t), Len(p) + Len(y) + 1, Len(p) + Len(y) + Len(t)) = t
    BY PutTogether, SMTT(30)
  <2>. QED BY <1>8, <2>1, <2>2, <2>3, <2>4, Zenon
<1>10. /\ Len(p) \in Nat /\ Len(y) \in Nat /\ Len(t) \in Nat /\ Len(l) \in Nat
       /\ s.from \in Int /\ s.to \in Int
  BY DEF Proper
<1>11. /\ Len(p) + 1 = s.from
       /\ Len(p) + Len(y) = Len(new) - (Len(l) - s.to) - 1
       /\ Len(p) + Len(y) + 1 = Len(new) - (Len(l) - s.to)
       /\ Len(p) + Len(y) + Len(t) = Len(new)
  <2>1. Len(p) = s.from - 1 /\ Len(t) = Len(l) - s.to + 1 /\ Len(new) = Len(p) + Len(y) + Len(t)
    BY <1>6, <1>7, <1>9
  <2>2. PICK a \in Nat, b \in Nat, c \in Nat, n \in Nat, f \in Int, o \in Int :
          a = Len(p) /\ b = Len(y) /\ c = Len(t) /\ n = Len(l) /\ f = s.from /\ o = s.to
    BY <1>10
  <2>3. Len(new) = a + b + c /\ a = f - 1 /\ c = n - o + 1
    BY <2>1, <2>2
  <2>4. a + 1 = f /\ a + b = (a + b + c) - (n - o) - 1 /\ a + b + 1 = (a + b + c) - (n - o)
    BY <2>3
  <2>. QED BY <2>2, <2>3, <2>4
<1>12. Wcor(y) = gt
  BY <1>1, <1>3, <1>5, DoneReads, MarkedReads
<1>13. Wocr(new) = Wocr(l)
  <2>1. Keep(Corrected(l, s, gt, mode), l, OCR, Pos)
    BY OcrStays
  <2>. QED BY <1>9, <2>1, StringsAre DEF Keep
<1>14. Prefix(new, s) = p
  BY <1>6, <1>9 DEF Prefix
<1>. QED BY <1>6, <1>7, <1>9, <1>11, <1>12, <1>13, <1>14

(* What a new OCR result leaves as the line. *)
Result(q) == \E o \in Ocr, c \in Seq(Int) : Len(o) = Len(c) /\ q = OcrLine(o, c)

\* A character as the OCR result has it.
Fresh(o, c, i) == [ocr |-> o[i], cor |-> NoChar, cut |-> c[i], id |-> i - 1, manually |-> FALSE]

LEMMA FreshIs ==
  ASSUME NEW o \in Ocr, NEW c \in Seq(Int), Len(o) = Len(c), NEW i \in 1..Len(o),
         NEW f, f = Fresh(o, c, i)
  PROVE  /\ f \in DbChar /\ f \in OcrChar
         /\ f.ocr = o[i] /\ f.cor = NoChar /\ f.id = i - 1 /\ f.manually = FALSE
<1>1. o \in Seq(Letter) /\ Len(o) \in Nat
  BY TextIs
<1>2. o[i] \in Letter /\ o[i] # NoChar
  BY <1>1, LettersAre
<1>3. c[i] \in Int /\ i - 1 \in Nat
  BY <1>1
<1>4. f \in DbChar
  BY <1>2, <1>3 DEF DbChar, Fresh
<1>5. f.ocr = o[i] /\ f.cor = NoChar /\ f.id = i - 1 /\ f.manually = FALSE
  BY DEF Fresh
<1>. QED BY <1>2, <1>4, <1>5, CharIs

LEMMA OcrLineIs ==
  ASSUME NEW o \in Ocr, NEW c \in Seq(Int), Len(o) = Len(c), NEW q, q = OcrLine(o, c)
  PROVE  /\ q \in Seq(DbChar) /\ q \in Seq(OcrChar) /\ Len(q) = Len(o)
         /\ \A i \in 1..Len(q) : q[i] = Fresh(o, c, i)
<1>1. o \in Seq(Letter) /\ Len(o) \in Nat /\ DOMAIN o = 1..Len(o)
  BY TextIs
<1>2. q = [i \in 1..Len(o) |-> Fresh(o, c, i)]
  BY <1>1 DEF OcrLine, Fresh
<1>3. \A i \in 1..Len(o) : Fresh(o, c, i) \in OcrChar
  BY FreshIs
<1>4. q \in Seq(OcrChar) /\ Len(q) = Len(o)
  BY <1>1, <1>2, <1>3
<1>. QED BY <1>2, <1>4, OcrCharIs

(* Every character of it is an uncorrected one, with its place as its id.  *)
LEMMA ResultIs ==
  ASSUME NEW q, Result(q)
  PROVE  /\ q \in Seq(DbChar) /\ q \in Seq(OcrChar) /\ Len(q) <= MaxLine
         /\ \A i \in 1..Len(q) : q[i].cor = NoChar /\ q[i].id = i - 1 /\ q[i].manually = FALSE
<1>1. PICK o \in Ocr, c \in Seq(Int) : Len(o) = Len(c) /\ q = OcrLine(o, c)
  BY DEF Result
<1>2. /\ q \in Seq(DbChar) /\ q \in Seq(OcrChar) /\ Len(q) = Len(o)
      /\ \A i \in 1..Len(q) : q[i] = Fresh(o, c, i)
  BY <1>1, OcrLineIs
<1>3. Len(q) <= MaxLine
  BY <1>2, TextIs, BoundAssumption
<1>4. ASSUME NEW i \in 1..Len(q)
      PROVE  q[i].cor = NoChar /\ q[i].id = i - 1 /\ q[i].manually = FALSE
  <2>2. q[i] = Fresh(o, c, i)
    BY <1>2
  <2>. QED BY <2>2 DEF Fresh
<1>. QED BY <1>2, <1>3, <1>4

(* The import and the clients give such lines. *)
LEMMA Results ==
  /\ \A o \in Ocr : Result(OcrLine(o, Evenly(o)))
  /\ \A o \in Ocr, c \in Cuts : Len(o) = Len(c) => Result(OcrLine(o, c))
<1>1. ASSUME NEW o \in Ocr
      PROVE  Result(OcrLine(o, Evenly(o)))
  <2>1. o \in Seq(Letter) /\ Len(o) \in Nat /\ DOMAIN o = 1..Len(o) /\ Width \in Nat
    BY TextIs, BoundAssumption
  <2>2. \A i \in 1..Len(o) : Width * i \in Int
    BY <2>1
  <2>3. Evenly(o) \in Seq(Int) /\ Len(Evenly(o)) = Len(o)
    BY <2>1, <2>2 DEF Evenly
  <2>. QED BY <2>3 DEF Result
<1>2. Cuts \subseteq Seq(Int)
  BY BoundAssumption
<1>. QED BY <1>1, <1>2 DEF Result

-----------------------------------------------------------------------------
(* The state.                                                              *)

(* The line is a list of characters. *)
THEOREM TypeCorrect == Spec => []TypeOK
<1>1. Init => TypeOK
  <2>1. SUFFICES ASSUME Init
                 PROVE  TypeOK
    OBVIOUS
  <2>2. Result(line) /\ given = line
    BY <2>1, Results DEF Init
  <2>3. line \in Seq(DbChar) /\ Len(line) <= MaxLine
    BY <2>2, ResultIs
  <2>4. MaxEdits \in Nat
    BY BoundAssumption
  <2>. QED BY <2>1, <2>2, <2>3, <2>4 DEF Init, TypeOK
<1>2. TypeOK /\ [Next]_vars => TypeOK'
  <2>1. SUFFICES ASSUME TypeOK, [Next]_vars
                 PROVE  TypeOK'
    OBVIOUS
  <2>2. line \in Seq(DbChar) /\ given \in Seq(DbChar) /\ edits \in 0..MaxEdits /\ MaxEdits \in Nat
    BY <2>1, BoundAssumption DEF TypeOK
  <2>3. ASSUME NEW l \in Seq(DbChar), Store(l), given' \in Seq(DbChar)
        PROVE  TypeOK'
    BY <2>2, <2>3 DEF Store, TypeOK
  <2>4. Whole(line) \in Slices(line) /\ \A tid \in Ids, len \in Lens : Slice(line, tid, len) \in Slices(line)
    BY DEF Slices
  <2>5. ASSUME NEW s \in Slices(line)
        PROVE  /\ Reset(line, s) \in Seq(DbChar)
               /\ \A gt \in Text, mode \in Mode : Corrected(line, s, gt, mode) \in Seq(DbChar)
    BY <2>2, SlicesProper, EditType, TextIs
  <2>6. ASSUME NEW gt \in Text, NEW mode \in Mode, CorrectLine(gt, mode)
        PROVE  TypeOK'
    BY <2>2, <2>3, <2>4, <2>5, <2>6 DEF CorrectLine
  <2>7. ASSUME NEW tid \in Ids, NEW len \in Lens, NEW gt \in Text, NEW mode \in Mode,
               CorrectToken(tid, len, gt, mode)
        PROVE  TypeOK'
    BY <2>2, <2>3, <2>4, <2>5, <2>7 DEF CorrectToken
  <2>8. CASE ResetLine
    BY <2>2, <2>3, <2>4, <2>5, <2>8 DEF ResetLine
  <2>9. ASSUME NEW tid \in Ids, NEW len \in Lens, ResetToken(tid, len)
        PROVE  TypeOK'
    BY <2>2, <2>3, <2>4, <2>5, <2>9 DEF ResetToken
  <2>10. ASSUME NEW ocr \in Ocr, NEW cuts \in Cuts, UpdateOCR(ocr, cuts)
         PROVE  TypeOK'
    <3>1. PICK q : q = OcrLine(ocr, cuts) /\ Store(q) /\ given' = q /\ Len(ocr) = Len(cuts)
      BY <2>10 DEF UpdateOCR
    <3>2. q \in Seq(DbChar)
      BY <3>1, Results, ResultIs
    <3>. QED BY <2>3, <3>1, <3>2
  <2>11. CASE UNCHANGED vars
    BY <2>1, <2>11 DEF vars, TypeOK
  <2>. QED BY <2>1, <2>6, <2>7, <2>8, <2>9, <2>10, <2>11 DEF Next
<1>. QED BY <1>1, <1>2, PTL DEF Spec

(* A correction reads back, whatever the line was before. *)
THEOREM ReadsWhatWasWritten == Spec => []CorrectionReadsBack
<1>1. TypeOK => CorrectionReadsBack
  <2>1. SUFFICES ASSUME TypeOK, NEW s \in Slices(line), NEW gt \in Text, NEW new,
                        new = Corrected(line, s, gt, "manual")
                 PROVE  /\ Wcor(SubSeq(new, s.from, Len(new) - (Len(line) - s.to) - 1)) = gt
                        /\ Prefix(new, s) = Prefix(line, s)
                        /\ SubSeq(new, Len(new) - (Len(line) - s.to), Len(new)) = Suffix(line, s)
                        /\ Wocr(new) = Wocr(line)
    BY DEF CorrectionReadsBack
  <2>2. line \in Seq(DbChar) /\ gt \in Seq(Letter)
    BY <2>1, TextIs DEF TypeOK
  <2>3. Proper(line, s)
    BY <2>2, SlicesProper
  <2>. QED BY <2>1, <2>2, <2>3, CorrectedReads
<1>. QED BY <1>1, TypeCorrect, PTL

-----------------------------------------------------------------------------
(* Resets.                                                                 *)

LEMMA SameRange ==
  ASSUME NEW m \in Nat, NEW n \in Nat, 1..m = 1..n
  PROVE  m = n
<1>1. m > n => m \in 1..m /\ m \notin 1..n
  OBVIOUS
<1>2. n > m => n \in 1..n /\ n \notin 1..m
  OBVIOUS
<1>. QED BY <1>1, <1>2

LEMMA OcrLineReads ==
  ASSUME NEW o \in Ocr, NEW c \in Seq(Int), Len(o) = Len(c), NEW q, q = OcrLine(o, c)
  PROVE  Wocr(q) = o
<1>1. /\ q \in Seq(OcrChar) /\ Len(q) = Len(o)
      /\ \A i \in 1..Len(q) : q[i] = Fresh(o, c, i)
  BY OcrLineIs
<1>2. Map(q, OCR) \in Seq(Letter) /\ Wocr(q) = Map(q, OCR)
  BY <1>1, OcrCharsAre
<1>3. o \in Seq(Letter) /\ q \in Seq(DbChar)
  BY TextIs, OcrLineIs
<1>4. Len(Map(q, OCR)) = Len(q) /\ \A i \in 1..Len(q) : Map(q, OCR)[i] = OCR[q[i]]
  BY <1>3, FunctionsOfChars, CharsMap
<1>5. ASSUME NEW i \in 1..Len(q)
      PROVE  q[i] \in DbChar /\ q[i].ocr = o[i]
  <2>1. i \in 1..Len(o) /\ q[i] = Fresh(o, c, i)
    BY <1>1
  <2>. QED BY <1>3, <2>1 DEF Fresh
<1>6. \A i \in 1..Len(q) : Map(q, OCR)[i] = o[i]
  BY <1>4, <1>5 DEF OCR
<1>7. Map(q, OCR) = o
  BY <1>1, <1>2, <1>3, <1>4, <1>6, SameList
<1>. QED BY <1>2, <1>7

(* A reset of a line with the frame of an OCR result gives this result. *)
LEMMA ResetRestores ==
  ASSUME NEW l \in Seq(DbChar), NEW q, Result(q), Keep(l, q, FRAME, Frames)
  PROVE  Reset(l, Whole(l)) = q
<1>1. PICK n \in Nat : n = Len(l)
  OBVIOUS
<1>2. PICK s : s = Whole(l) /\ s.from = 1 /\ s.to = n + 1
  <2>1. Whole(l).from = 1 /\ Whole(l).to = n + 1
    BY <1>1 DEF Whole
  <2>. QED BY <2>1
<1>3. Proper(l, s)
  BY <1>1, <1>2 DEF Proper
<1>4. PICK kept \in Seq(OcrChar) :
           /\ kept = Those(Part(l, s), OcrChar)
           /\ Cleared(l, s) \in Seq(OcrChar) /\ Len(Cleared(l, s)) = Len(kept)
           /\ \A i \in 1..Len(kept) : /\ kept[i] \in OcrChar
                                      /\ Cleared(l, s)[i] = Bare(kept[i], s.from - 2 + i)
                                      /\ s.from - 2 + i \in Nat
  BY <1>3, ClearedIs
<1>5. /\ Part(l, s) = l /\ Prefix(l, s) = <<>> /\ Suffix(l, s) = <<>>
  BY <1>1, <1>2 DEF Part, Prefix, Suffix
<1>6. PICK x \in Seq(DbChar) : x = Cleared(l, s) /\ Len(x) = Len(kept)
  BY <1>4, OcrCharIs
<1>7. /\ SetType(x, FALSE) \in Seq(DbChar) /\ Len(SetType(x, FALSE)) = Len(x)
      /\ \A i \in 1..Len(x) : SetType(x, FALSE)[i] = Marked(x[i], FALSE)
  BY SetTypeIs
<1>8. Reset(l, s) = SetType(x, FALSE)
  <2>1. Reset(l, s) = Cat(Cat(<<>>, SetType(x, FALSE)), <<>>)
    BY <1>3, <1>5, <1>6, ResetIs DEF Edit
  <2>. QED BY <1>7, <2>1, CatEmpty
<1>9. /\ q \in Seq(OcrChar) /\ q \in Seq(DbChar)
      /\ \A i \in 1..Len(q) : q[i].cor = NoChar /\ q[i].id = i - 1 /\ q[i].manually = FALSE
  BY ResultIs
<1>10. Map(kept, FRAME) = Map(q, FRAME)
  <2>1. Map(kept, FRAME) = Sift(l, FRAME, Frames)
    BY <1>4, <1>5, FrameStable, KeptFirst
  <2>2. Map(Those(q, OcrChar), FRAME) = Sift(q, FRAME, Frames)
    BY <1>9, FrameStable, KeptFirst
  <2>3. Those(q, OcrChar) = q
    BY <1>9, ThoseAll
  <2>. QED BY <1>9, <2>1, <2>2, <2>3 DEF Keep
<1>11. Len(kept) = Len(q) /\ \A i \in 1..Len(q) : FRAME[kept[i]] = FRAME[q[i]]
  <2>1. DOMAIN kept = 1..Len(kept) /\ DOMAIN q = 1..Len(q) /\ Len(kept) \in Nat /\ Len(q) \in Nat
    BY <1>9
  <2>2. DOMAIN Map(kept, FRAME) = 1..Len(kept) /\ DOMAIN Map(q, FRAME) = 1..Len(q)
    BY <2>1 DEF Map
  <2>3. Len(kept) = Len(q)
    <3>1. 1..Len(kept) = 1..Len(q)
      BY <1>10, <2>2
    <3>. QED BY <2>1, <3>1, SameRange
  <2>4. \A i \in 1..Len(q) : Map(kept, FRAME)[i] = FRAME[kept[i]] /\ Map(q, FRAME)[i] = FRAME[q[i]]
    BY <2>1, <2>3 DEF Map
  <2>. QED BY <1>10, <2>3, <2>4
<1>12. ASSUME NEW i \in 1..Len(q)
       PROVE  Marked(x[i], FALSE) = q[i]
  <2>1. kept[i] \in OcrChar /\ kept[i] \in DbChar /\ q[i] \in DbChar
    BY <1>4, <1>9, <1>11, OcrCharIs
  <2>2. kept[i].ocr = q[i].ocr /\ kept[i].cut = q[i].cut
    BY <1>11, <2>1 DEF FRAME
  <2>3. x[i] = Bare(kept[i], i - 1) /\ i - 1 \in Nat
    BY <1>2, <1>4, <1>6, <1>11
  <2>4. q[i].cor = NoChar /\ q[i].id = i - 1 /\ q[i].manually = FALSE
    BY <1>9
  <2>5. Marked(x[i], FALSE) = [kept[i] EXCEPT !.cor = NoChar, !.id = i - 1, !.manually = FALSE]
    BY <2>1, <2>3 DEF Marked, Bare, DbChar
  <2>6. kept[i] = [ocr |-> kept[i].ocr, cor |-> kept[i].cor, cut |-> kept[i].cut,
                   id |-> kept[i].id, manually |-> kept[i].manually]
    BY <2>1 DEF DbChar
  <2>7. Marked(x[i], FALSE) = [ocr |-> kept[i].ocr, cor |-> NoChar, cut |-> kept[i].cut,
                               id |-> i - 1, manually |-> FALSE]
    BY <2>5, <2>6
  <2>8. q[i] = [ocr |-> q[i].ocr, cor |-> q[i].cor, cut |-> q[i].cut,
                id |-> q[i].id, manually |-> q[i].manually]
    BY <2>1 DEF DbChar
  <2>. QED BY <2>2, <2>4, <2>7, <2>8
<1>13. SetType(x, FALSE) = q
  <2>1. PICK y \in Seq(DbChar) : y = SetType(x, FALSE)
    BY <1>7
  <2>2. Len(y) = Len(q)
    BY <1>6, <1>7, <1>11, <2>1
  <2>3. \A i \in 1..Len(y) : y[i] = q[i]
    BY <1>6, <1>7, <1>11, <1>12, <2>1, <2>2
  <2>4. q \in Seq(DbChar)
    BY <1>9
  <2>5. y = q
    BY <2>2, <2>3, <2>4, SameList
  <2>. QED BY <2>1, <2>5
<1>. QED BY <1>2, <1>8, <1>13

(* The line has the characters and cuts of its last OCR result. *)
FromOcr == Wocr(line) \in Ocr /\ Result(given) /\ Keep(line, given, FRAME, Frames)


(* What a step does to the line: an edit, or another OCR result. *)
LEMMA Steps ==
  ASSUME Next
  PROVE  \/ /\ UNCHANGED given
            /\ \E s \in Slices(line), gt \in Text, mode \in Mode : line' = Corrected(line, s, gt, mode)
         \/ /\ UNCHANGED given
            /\ \E s \in Slices(line) : line' = Reset(line, s)
         \/ \E ocr \in Ocr, cuts \in Cuts :
              Len(ocr) = Len(cuts) /\ line' = OcrLine(ocr, cuts) /\ given' = OcrLine(ocr, cuts)
<1>1. Whole(line) \in Slices(line) /\ \A tid \in Ids, len \in Lens : Slice(line, tid, len) \in Slices(line)
  BY DEF Slices
<1>2. ASSUME NEW gt \in Text, NEW mode \in Mode, CorrectLine(gt, mode)
      PROVE  line' = Corrected(line, Whole(line), gt, mode) /\ UNCHANGED given
  BY <1>2 DEF CorrectLine, Store
<1>3. ASSUME NEW tid \in Ids, NEW len \in Lens, NEW gt \in Text, NEW mode \in Mode,
             CorrectToken(tid, len, gt, mode)
      PROVE  line' = Corrected(line, Slice(line, tid, len), gt, mode) /\ UNCHANGED given
  BY <1>3 DEF CorrectToken, Store
<1>4. CASE ResetLine
  BY <1>1, <1>4 DEF ResetLine, Store
<1>5. ASSUME NEW tid \in Ids, NEW len \in Lens, ResetToken(tid, len)
      PROVE  line' = Reset(line, Slice(line, tid, len)) /\ UNCHANGED given
  BY <1>5 DEF ResetToken, Store
<1>6. ASSUME NEW ocr \in Ocr, NEW cuts \in Cuts, UpdateOCR(ocr, cuts)
      PROVE  Len(ocr) = Len(cuts) /\ line' = OcrLine(ocr, cuts) /\ given' = OcrLine(ocr, cuts)
  BY <1>6 DEF UpdateOCR, Store
<1>. QED BY <1>1, <1>2, <1>3, <1>4, <1>5, <1>6 DEF Next

(* An OCR result has its own frame. *)
LEMMA FrameOfOcr ==
  ASSUME NEW q, Result(q)
  PROVE  Wocr(q) \in Ocr /\ Keep(q, q, FRAME, Frames)
<1>1. Wocr(q) \in Ocr
  BY OcrLineReads DEF Result
<1>. QED BY <1>1 DEF Keep

(* An edit that leaves both measures leaves what FromOcr says. *)
LEMMA FrameStays ==
  ASSUME NEW l \in Seq(DbChar), Wocr(l) \in Ocr, NEW q, Keep(l, q, FRAME, Frames),
         NEW new \in Seq(DbChar), Keep(new, l, OCR, Pos), Keep(new, l, FRAME, Frames)
  PROVE  Wocr(new) \in Ocr /\ Keep(new, q, FRAME, Frames)
<1>1. Wocr(new) = Wocr(l)
  BY StringsAre DEF Keep
<1>. QED BY <1>1 DEF Keep

(* FromOcr holds in every state. *)
LEMMA FrameKept == Spec => []FromOcr
<1>1. Init => FromOcr
  <2>1. SUFFICES ASSUME Init
                 PROVE  FromOcr
    OBVIOUS
  <2>2. Result(line) /\ given = line
    BY <2>1, Results DEF Init
  <2>. QED BY <2>2, FrameOfOcr DEF FromOcr
<1>2. TypeOK /\ TypeOK' /\ FromOcr /\ [Next]_vars => FromOcr'
  <2>1. SUFFICES ASSUME TypeOK, TypeOK', FromOcr, [Next]_vars
                 PROVE  FromOcr'
    OBVIOUS
  <2>2. line \in Seq(DbChar) /\ line' \in Seq(DbChar)
    BY <2>1 DEF TypeOK
  <2>3. \A s \in Slices(line) : Proper(line, s)
    BY <2>2, SlicesProper
  <2>4. ASSUME Keep(line', line, OCR, Pos), Keep(line', line, FRAME, Frames), UNCHANGED given
        PROVE  FromOcr'
    <3>1. PICK q : q = given
      OBVIOUS
    <3>2. Wocr(line) \in Ocr /\ Result(q) /\ Keep(line, q, FRAME, Frames)
      BY <2>1, <3>1 DEF FromOcr
    <3>3. Wocr(line') \in Ocr /\ Keep(line', q, FRAME, Frames)
      BY <2>2, <2>4, <3>2, FrameStays
    <3>4. given' = q
      BY <2>4, <3>1
    <3>. QED BY <3>2, <3>3, <3>4 DEF FromOcr, Result, OcrLine, Keep, FRAME, Frames
  <2>5. ASSUME NEW s \in Slices(line), NEW gt \in Text, NEW mode \in Mode, UNCHANGED given,
               line' = Corrected(line, s, gt, mode)
        PROVE  FromOcr'
    <3>1. gt \in Seq(Letter)
      BY TextIs
    <3>2. Keep(Corrected(line, s, gt, mode), line, OCR, Pos)
      BY <2>2, <2>3, <3>1, OcrStays
    <3>3. Keep(Corrected(line, s, gt, mode), line, FRAME, Frames)
      BY <2>2, <2>3, <3>1, OcrStays
    <3>. QED BY <2>4, <2>5, <3>2, <3>3
  <2>6. ASSUME NEW s \in Slices(line), UNCHANGED given, line' = Reset(line, s)
        PROVE  FromOcr'
    <3>1. Keep(Reset(line, s), line, OCR, Pos) /\ Keep(Reset(line, s), line, FRAME, Frames)
      BY <2>2, <2>3, OcrStays
    <3>. QED BY <2>4, <2>6, <3>1
  <2>7. ASSUME NEW q, Result(q), line' = q, given' = q
        PROVE  FromOcr'
    <3>1. Wocr(q) \in Ocr /\ Keep(q, q, FRAME, Frames)
      BY <2>7, FrameOfOcr
    <3>. QED BY <2>7, <3>1 DEF FromOcr
  <2>8. CASE UNCHANGED vars
    BY <2>1, <2>8 DEF vars, FromOcr
  <2>9. CASE Next
    BY <2>5, <2>6, <2>7, <2>9, Steps, Results
  <2>. QED BY <2>1, <2>8, <2>9
<1>. QED BY <1>1, <1>2, TypeCorrect, PTL DEF Spec

(* A reset of the line undoes everything done to it since its last OCR     *)
(* result.                                                                 *)
THEOREM ResetBringsBackTheOcr == Spec => []ResetUndoes
<1>1. TypeOK /\ FromOcr => ResetUndoes
  <2>1. SUFFICES ASSUME TypeOK, FromOcr
                 PROVE  Reset(line, Whole(line)) = given
    BY DEF ResetUndoes
  <2>2. Result(given) /\ Keep(line, given, FRAME, Frames)
    BY <2>1 DEF FromOcr
  <2>3. line \in Seq(DbChar)
    BY <2>1 DEF TypeOK
  <2>. QED BY <2>2, <2>3, ResetRestores
<1>. QED BY <1>1, TypeCorrect, FrameKept, PTL


-----------------------------------------------------------------------------
(* The order of the cuts.                                                  *)

LEMMA CutType ==
  ASSUME NEW l \in Seq(DbChar)
  PROVE  Len(l) \in Nat /\ \A h \in 1..Len(l) : l[h] \in DbChar /\ l[h].cut \in Int
<1>1. \A h \in 1..Len(l) : l[h] \in DbChar
  OBVIOUS
<1>. QED BY <1>1, CharIs

(* Only the cuts matter. *)
LEMMA OrderedSame ==
  ASSUME NEW l \in Seq(DbChar), NEW m \in Seq(DbChar), NEW a, NEW b, Ordered(l, a, b),
         Len(m) = Len(l), \A h \in 1..Len(l) : m[h].cut = l[h].cut
  PROVE  Ordered(m, a, b)
BY DEF Ordered

LEMMA OrderedNext ==
  ASSUME NEW l \in Seq(DbChar), NEW c \in DbChar, NEW a \in Int, NEW b \in Int, NEW d \in Int,
         Ordered(l, a, b), b <= c.cut, a <= c.cut, c.cut <= d
  PROVE  Ordered(Add(l, c), a, d)
<1>1. c.cut \in Int
  BY CharIs
<1>2. b <= d
  BY <1>1
<1>3. l # <<>> => Last(l).cut <= c.cut
  <2>1. SUFFICES ASSUME l # <<>> PROVE Last(l).cut <= c.cut
    OBVIOUS
  <2>2. Len(l) \in 1..Len(l) /\ Last(l) = l[Len(l)]
    BY <2>1 DEF Last
  <2>3. Last(l).cut \in Int /\ Last(l).cut <= b
    BY <2>2, CutType DEF Ordered
  <2>. QED BY <1>1, <2>3
<1>. QED BY <1>2, <1>3, OrderedAdd

LEMMA OrderedBefore ==
  ASSUME NEW l \in Seq(DbChar), NEW c \in DbChar, NEW a, NEW b, Ordered(Add(l, c), a, b)
  PROVE  Ordered(l, a, c.cut) /\ a <= c.cut /\ c.cut <= b
<1>1. PICK t : t = Add(l, c)
  OBVIOUS
<1>2. PICK n \in Nat : n = Len(l)
  BY AddIs
<1>3. Len(t) = n + 1 /\ t[n + 1] = c
  <2>1. Len(Add(l, c)) = Len(l) + 1 /\ Add(l, c)[Len(l) + 1] = c
    BY AddIs
  <2>. QED BY <1>1, <1>2, <2>1
<1>4. \A h \in 1..n : t[h] = l[h]
  <2>1. \A i \in 1..Len(l) : Add(l, c)[i] = l[i]
    BY AddIs
  <2>. QED BY <1>1, <1>2, <2>1
<1>5. /\ \A h \in 1..n+1 : a <= t[h].cut /\ t[h].cut <= b
      /\ \A h, k \in 1..n+1 : h < k => t[h].cut <= t[k].cut
  BY <1>1, <1>3 DEF Ordered
<1>6. n + 1 \in 1..n+1 /\ \A h \in 1..n : h \in 1..n+1 /\ h < n + 1
  OBVIOUS
<1>. QED BY <1>2, <1>3, <1>4, <1>5, <1>6 DEF Ordered

(* Some characters of a list in order are in order. *)
LEMMA OrderedThose ==
  ASSUME NEW C, NEW a \in Int, NEW b \in Int, NEW l \in Seq(DbChar), Ordered(l, a, b)
  PROVE  Ordered(Those(l, C), a, b)
<1>. DEFINE A == {t \in Seq(DbChar) : \A d \in Int : Ordered(t, a, d) => Ordered(Those(t, C), a, d)}
<1>1. <<>> \in A
  BY ThoseEmpty, EmptyIs
<1>2. ASSUME NEW t \in A, NEW e \in DbChar
      PROVE  Add(t, e) \in A
  <2>1. t \in Seq(DbChar) /\ Add(t, e) \in Seq(DbChar) /\ e.cut \in Int
    BY AddIs, CharIs
  <2>2. SUFFICES ASSUME NEW d \in Int, Ordered(Add(t, e), a, d)
                 PROVE  Ordered(Those(Add(t, e), C), a, d)
    BY <2>1
  <2>3. Ordered(t, a, e.cut) /\ a <= e.cut /\ e.cut <= d
    BY <2>1, <2>2, OrderedBefore
  <2>4. PICK u \in Seq(DbChar) : u = Those(t, C)
    BY <2>1, ThoseType
  <2>5. Ordered(u, a, e.cut)
    BY <2>1, <2>3, <2>4
  <2>6. Those(Add(t, e), C) = IF e \in C THEN Add(u, e) ELSE u
    BY <2>1, <2>4, ThoseAdd
  <2>7. CASE e \in C
    <3>1. e.cut <= e.cut
      BY <2>1
    <3>2. Ordered(Add(u, e), a, d)
      BY <2>1, <2>3, <2>5, <3>1, OrderedNext
    <3>. QED BY <2>6, <2>7, <3>2
  <2>8. CASE e \notin C
    <3>1. Ordered(u, a, d)
      BY <2>1, <2>3, <2>5, CutType DEF Ordered
    <3>. QED BY <2>6, <2>8, <3>1
  <2>. QED BY <2>7, <2>8
<1>. HIDE DEF A
<1>3. A = Seq(DbChar)
  BY <1>1, <1>2, ListInduction DEF A
<1>. QED BY <1>3 DEF A

(* Two lists in order, one box next to the other. *)
LEMMA OrderedCat ==
  ASSUME NEW l \in Seq(DbChar), NEW m \in Seq(DbChar), NEW a \in Int, NEW b \in Int, NEW d \in Int,
         a <= b, b <= d, Ordered(l, a, b), Ordered(m, b, d)
  PROVE  Ordered(Cat(l, m), a, d)
<1>1. PICK t : t = Cat(l, m)
  OBVIOUS
<1>2. PICK n \in Nat : n = Len(l)
  BY CatIs
<1>3. PICK o \in Nat : o = Len(m)
  BY CatIs
<1>4. /\ Len(t) = n + o
      /\ \A h \in 1..n : t[h] = l[h]
      /\ \A h \in 1..o : t[n + h] = m[h]
  <2>1. Len(Cat(l, m)) = Len(l) + Len(m)
    BY CatIs
  <2>2. \A i \in 1..Len(l) : Cat(l, m)[i] = l[i]
    BY CatIs
  <2>3. \A i \in 1..Len(m) : Cat(l, m)[Len(l) + i] = m[i]
    BY CatIs
  <2>. QED BY <1>1, <1>2, <1>3, <2>1, <2>2, <2>3
<1>5. /\ \A h \in 1..n : l[h].cut \in Int /\ a <= l[h].cut /\ l[h].cut <= b
      /\ \A h \in 1..o : m[h].cut \in Int /\ b <= m[h].cut /\ m[h].cut <= d
  BY <1>2, <1>3, CutType DEF Ordered
<1>6. \A h \in 1..n+o : h \in 1..n \/ (h - n \in 1..o /\ h = n + (h - n))
  OBVIOUS
<1>7. \A h \in 1..n+o : a <= t[h].cut /\ t[h].cut <= d
  <2>1. ASSUME NEW h \in 1..n+o
        PROVE  a <= t[h].cut /\ t[h].cut <= d
    <3>1. CASE h \in 1..n
      <4>1. t[h].cut \in Int /\ a <= t[h].cut /\ t[h].cut <= b
        BY <1>4, <1>5, <3>1
      <4>. QED BY <4>1
    <3>2. CASE h - n \in 1..o /\ h = n + (h - n)
      <4>1. t[h] = m[h - n]
        BY <1>4, <3>2
      <4>2. t[h].cut \in Int /\ b <= t[h].cut /\ t[h].cut <= d
        BY <1>5, <3>2, <4>1
      <4>. QED BY <4>2
    <3>. QED BY <1>6, <3>1, <3>2
  <2>. QED BY <2>1
<1>8. ASSUME NEW h \in 1..n+o, NEW k \in 1..n+o, h < k
      PROVE  t[h].cut <= t[k].cut
  <2>1. CASE h \in 1..n /\ k \in 1..n
    BY <1>2, <1>4, <1>8, <2>1 DEF Ordered
  <2>2. CASE h \in 1..n /\ k - n \in 1..o /\ k = n + (k - n)
    <3>1. t[h] = l[h] /\ t[k] = m[k - n]
      BY <1>4, <2>2
    <3>2. t[h].cut \in Int /\ t[k].cut \in Int /\ t[h].cut <= b /\ b <= t[k].cut
      BY <1>5, <2>2, <3>1
    <3>. QED BY <3>2
  <2>3. CASE h - n \in 1..o /\ h = n + (h - n) /\ k - n \in 1..o /\ k = n + (k - n)
    <3>1. t[h] = m[h - n] /\ t[k] = m[k - n]
      BY <1>4, <2>3
    <3>2. h - n < k - n
      BY <1>8
    <3>3. m[h - n].cut <= m[k - n].cut
      BY <1>3, <2>3, <3>2 DEF Ordered
    <3>. QED BY <3>1, <3>3
  <2>4. CASE h - n \in 1..o /\ k \in 1..n
    BY <1>8, <2>4
  <2>. QED BY <1>6, <2>1, <2>2, <2>3, <2>4
<1>9. Ordered(t, a, d)
  BY <1>4, <1>7, <1>8 DEF Ordered
<1>. QED BY <1>1, <1>9


(* The line's box. *)
LEMMA LineBoxIs == Left = 0 /\ Right \in Nat
<1>1. Width \in Nat /\ MaxOcr \in Nat
  BY BoundAssumption
<1>2. \A v, w \in Nat : v * w \in Nat
  OBVIOUS
<1>. QED BY <1>1, <1>2 DEF Left, Right

(* The box of a slice is where its characters are, between those before    *)
(* and those behind.                                                       *)
LEMMA BoxOrdered ==
  ASSUME NEW l \in Seq(DbChar), NEW s, Proper(l, s), Ordered(l, Left, Right)
  PROVE  /\ Left <= BoxLeft(l, s) /\ BoxLeft(l, s) <= BoxRight(l, s) /\ BoxRight(l, s) <= Right
         /\ Ordered(Prefix(l, s), Left, BoxLeft(l, s))
         /\ Ordered(Part(l, s), BoxLeft(l, s), BoxRight(l, s))
         /\ Ordered(Suffix(l, s), BoxRight(l, s), Right)
<1>1. PICK n \in Nat : n = Len(l)
  OBVIOUS
<1>2. PICK a \in 1..n + 1 : a = s.from
  BY <1>1 DEF Proper
<1>3. PICK b \in a..n + 1 : b = s.to
  BY <1>1, <1>2 DEF Proper
<1>4. Left = 0 /\ Right \in Nat
  BY LineBoxIs
<1>5. /\ \A h \in 1..n : l[h].cut \in Int /\ Left <= l[h].cut /\ l[h].cut <= Right
      /\ \A h, k \in 1..n : h < k => l[h].cut <= l[k].cut
  BY <1>1, CutType DEF Ordered
<1>6. \A h, k \in 1..n : h <= k => l[h].cut <= l[k].cut
  BY <1>5
<1>7. PICK x \in Int : x = BoxLeft(l, s)
  BY BoxIs
<1>8. PICK y \in Int : y = BoxRight(l, s)
  BY BoxIs
<1>9. (a = 1 /\ x = Left) \/ (a - 1 \in 1..n /\ x = l[a - 1].cut)
  BY <1>1, <1>2, <1>7 DEF BoxLeft
<1>10. \/ a < b /\ b - 1 \in 1..n /\ y = l[b - 1].cut
       \/ a = b /\ b \in 1..n /\ y = l[b].cut
       \/ b = n + 1 /\ y = Right
  BY <1>1, <1>2, <1>3, <1>8 DEF BoxRight
<1>11. Left <= x /\ \A h \in a..n : x <= l[h].cut
  BY <1>4, <1>5, <1>6, <1>9
<1>12. \A h \in 1..a-1 : l[h].cut <= x
  BY <1>5, <1>6, <1>9
<1>13. y <= Right /\ x <= Right
  BY <1>4, <1>5, <1>9, <1>10
<1>14. x <= y
  BY <1>5, <1>9, <1>10, <1>11, <1>13
<1>15. \A h \in a..b-1 : l[h].cut <= y
  BY <1>5, <1>6, <1>10
<1>16. \A h \in b..n : y <= l[h].cut
  BY <1>5, <1>6, <1>10
<1>17. Ordered(Prefix(l, s), Left, x)
  <2>1. PICK p \in Seq(DbChar) : p = Prefix(l, s)
    BY CutUp
  <2>2. Len(p) = a - 1 /\ \A i \in 1..a - 1 : p[i] = l[i]
    <3>1. Len(Prefix(l, s)) = s.from - 1
      BY CutUp
    <3>2. \A i \in 1..s.from - 1 : Prefix(l, s)[i] = l[i]
      BY CutUp
    <3>. QED BY <1>2, <2>1, <3>1, <3>2
  <2>3. \A i \in 1..a - 1 : i \in 1..n
    OBVIOUS
  <2>4. \A i \in 1..a - 1 : Left <= p[i].cut /\ p[i].cut <= x
    BY <1>5, <1>12, <2>2, <2>3
  <2>5. ASSUME NEW i \in 1..a - 1, NEW j \in 1..a - 1, i < j
        PROVE  p[i].cut <= p[j].cut
    <3>1. l[i].cut <= l[j].cut
      BY <1>5, <2>3, <2>5
    <3>. QED BY <2>2, <3>1
  <2>6. Ordered(p, Left, x)
    BY <2>2, <2>4, <2>5 DEF Ordered
  <2>. QED BY <2>1, <2>6
<1>18. Ordered(Part(l, s), x, y)
  <2>1. PICK p \in Seq(DbChar) : p = Part(l, s)
    BY CutUp
  <2>2. Len(p) = b - a /\ \A i \in 1..b - a : p[i] = l[a - 1 + i]
    <3>1. Len(Part(l, s)) = s.to - s.from
      BY CutUp
    <3>2. \A i \in 1..s.to - s.from : Part(l, s)[i] = l[s.from - 1 + i]
      BY CutUp
    <3>. QED BY <1>2, <1>3, <2>1, <3>1, <3>2
  <2>3. \A i \in 1..b - a : a - 1 + i \in 1..n /\ a - 1 + i \in a..n /\ a - 1 + i \in a..b-1
    OBVIOUS
  <2>4. \A i \in 1..b - a : x <= p[i].cut /\ p[i].cut <= y
    BY <1>11, <1>15, <2>2, <2>3
  <2>5. ASSUME NEW i \in 1..b - a, NEW j \in 1..b - a, i < j
        PROVE  p[i].cut <= p[j].cut
    <3>1. a - 1 + i < a - 1 + j
      BY <2>5
    <3>2. l[a - 1 + i].cut <= l[a - 1 + j].cut
      BY <1>5, <2>3, <3>1
    <3>. QED BY <2>2, <3>2
  <2>6. Ordered(p, x, y)
    BY <2>2, <2>4, <2>5 DEF Ordered
  <2>. QED BY <2>1, <2>6
<1>19. Ordered(Suffix(l, s), y, Right)
  <2>1. PICK p \in Seq(DbChar) : p = Suffix(l, s)
    BY CutUp
  <2>2. Len(p) = n - b + 1 /\ \A i \in 1..n - b + 1 : p[i] = l[b - 1 + i]
    <3>1. Len(Suffix(l, s)) = Len(l) - s.to + 1
      BY CutUp
    <3>2. \A i \in 1..Len(l) - s.to + 1 : Suffix(l, s)[i] = l[s.to - 1 + i]
      BY CutUp
    <3>. QED BY <1>1, <1>3, <2>1, <3>1, <3>2
  <2>3. \A i \in 1..n - b + 1 : b - 1 + i \in 1..n /\ b - 1 + i \in b..n
    OBVIOUS
  <2>4. \A i \in 1..n - b + 1 : y <= p[i].cut /\ p[i].cut <= Right
    BY <1>5, <1>16, <2>2, <2>3
  <2>5. ASSUME NEW i \in 1..n - b + 1, NEW j \in 1..n - b + 1, i < j
        PROVE  p[i].cut <= p[j].cut
    <3>1. b - 1 + i < b - 1 + j
      BY <2>5
    <3>2. l[b - 1 + i].cut <= l[b - 1 + j].cut
      BY <1>5, <2>3, <3>1
    <3>. QED BY <2>2, <3>2
  <2>6. Ordered(p, y, Right)
    BY <2>2, <2>4, <2>5 DEF Ordered
  <2>. QED BY <2>1, <2>6
<1>. QED BY <1>7, <1>8, <1>11, <1>13, <1>14, <1>17, <1>18, <1>19

(* A line in order with another slice in the box of the old one is in      *)
(* order.                                                                  *)
LEMMA EditOrdered ==
  ASSUME NEW l \in Seq(DbChar), NEW s, Proper(l, s), Ordered(l, Left, Right),
         NEW x \in Seq(DbChar), NEW m \in BOOLEAN, Ordered(x, BoxLeft(l, s), BoxRight(l, s))
  PROVE  Ordered(Edit(l, s, x, m), Left, Right)
<1>1. PICK a \in Int : a = Left
  BY BoxIs
<1>2. PICK b \in Int : b = BoxLeft(l, s)
  BY BoxIs
<1>3. PICK c \in Int : c = BoxRight(l, s)
  BY BoxIs
<1>4. PICK d \in Int : d = Right
  BY BoxIs
<1>5. a <= b /\ b <= c /\ c <= d
  BY <1>1, <1>2, <1>3, <1>4, BoxOrdered
<1>6. PICK p \in Seq(DbChar) : p = Prefix(l, s)
  BY CutUp
<1>7. PICK t \in Seq(DbChar) : t = Suffix(l, s)
  BY CutUp
<1>8. Ordered(p, a, b) /\ Ordered(t, c, d)
  BY <1>1, <1>2, <1>3, <1>4, <1>6, <1>7, BoxOrdered
<1>9. PICK y \in Seq(DbChar) : y = SetType(x, m) /\ Len(y) = Len(x) /\ \A i \in 1..Len(x) : y[i] = Marked(x[i], m)
  BY SetTypeIs
<1>10. Ordered(y, b, c)
  <2>1. \A i \in 1..Len(x) : y[i].cut = x[i].cut
    BY <1>9, CutType, MarkedIs
  <2>. QED BY <1>2, <1>3, <1>9, <2>1, OrderedSame
<1>11. Cat(p, y) \in Seq(DbChar)
  BY CatIs
<1>12. PICK z \in Seq(DbChar) : z = Cat(p, y)
  BY <1>11
<1>13. Ordered(z, a, c)
  BY <1>5, <1>8, <1>10, <1>12, OrderedCat
<1>14. a <= c
  BY <1>5
<1>15. Ordered(Cat(z, t), a, d)
  BY <1>5, <1>8, <1>13, <1>14, OrderedCat
<1>. QED BY <1>1, <1>4, <1>6, <1>7, <1>9, <1>12, <1>15 DEF Edit

(* A cleared slice is in order, being a part of it. *)
LEMMA ClearedOrdered ==
  ASSUME NEW l \in Seq(DbChar), NEW s, Proper(l, s), Ordered(l, Left, Right)
  PROVE  Ordered(Cleared(l, s), BoxLeft(l, s), BoxRight(l, s))
<1>1. PICK kept \in Seq(OcrChar) :
           /\ kept = Those(Part(l, s), OcrChar)
           /\ Cleared(l, s) \in Seq(OcrChar) /\ Len(Cleared(l, s)) = Len(kept)
           /\ \A i \in 1..Len(kept) : /\ kept[i] \in OcrChar
                                      /\ Cleared(l, s)[i] = Bare(kept[i], s.from - 2 + i)
                                      /\ s.from - 2 + i \in Nat
  BY ClearedIs
<1>2. PICK a \in Int : a = BoxLeft(l, s)
  BY BoxIs
<1>3. PICK b \in Int : b = BoxRight(l, s)
  BY BoxIs
<1>4. PICK q \in Seq(DbChar) : q = Part(l, s)
  BY CutUp
<1>5. Ordered(q, a, b)
  BY <1>2, <1>3, <1>4, BoxOrdered
<1>6. Ordered(kept, a, b)
  BY <1>1, <1>4, <1>5, OrderedThose
<1>7. kept \in Seq(DbChar)
  BY OcrCharIs
<1>8. PICK c \in Seq(DbChar) : c = Cleared(l, s)
  BY <1>1, OcrCharIs
<1>9. \A i \in 1..Len(kept) : c[i].cut = kept[i].cut
  <2>1. ASSUME NEW i \in 1..Len(kept)
        PROVE  c[i].cut = kept[i].cut
    <3>1. PICK id \in Nat : id = s.from - 2 + i
      BY <1>1
    <3>2. c[i] = Bare(kept[i], id) /\ kept[i] \in OcrChar
      BY <1>1, <1>8, <3>1
    <3>3. Bare(kept[i], id).cut = kept[i].cut
      BY <3>2, BareIs
    <3>. QED BY <3>2, <3>3
  <2>. QED BY <2>1
<1>10. Ordered(c, a, b)
  BY <1>1, <1>6, <1>7, <1>8, <1>9, OrderedSame
<1>. QED BY <1>2, <1>3, <1>8, <1>10

(* A reset keeps the cuts in order. *)
LEMMA ResetOrdered ==
  ASSUME NEW l \in Seq(DbChar), NEW s, Proper(l, s), Ordered(l, Left, Right)
  PROVE  Ordered(Reset(l, s), Left, Right)
<1>1. PICK x \in Seq(DbChar) : x = Cleared(l, s)
  BY ResetIs
<1>2. Ordered(x, BoxLeft(l, s), BoxRight(l, s))
  BY <1>1, ClearedOrdered
<1>3. PICK m \in BOOLEAN : m = FALSE
  OBVIOUS
<1>4. Ordered(Edit(l, s, x, m), Left, Right)
  BY <1>2, EditOrdered
<1>. QED BY <1>1, <1>3, <1>4, ResetIs

(* A correction keeps the cuts in order. *)
LEMMA CorrectedOrdered ==
  ASSUME NEW l \in Seq(DbChar), NEW s, Proper(l, s), NEW gt \in Seq(Letter), NEW mode,
         Ordered(l, Left, Right)
  PROVE  Ordered(Corrected(l, s, gt, mode), Left, Right)
<1>1. PICK r \in Job : r = JobOf(l, s, gt) /\ r.part = Cleared(l, s)
                       /\ r.left = BoxLeft(l, s) /\ r.right = BoxRight(l, s)
  BY JobOfIs
<1>2. PICK x \in Seq(DbChar) : x = Done(r)
  BY <1>1, CorrectedIs
<1>3. Corrected(l, s, gt, mode) = Edit(l, s, x, mode = "manual")
  BY <1>1, <1>2, CorrectedIs
<1>4. Ordered(r.part, r.left, r.right)
  BY <1>1, ClearedOrdered
<1>5. r.left <= r.right
  BY <1>1, BoxOrdered
<1>6. Len(r.part) \in Nat /\ Len(r.part) \in 0..Len(r.part) /\ Len(r.gt) \in 0..Len(r.gt)
  BY JobIs
<1>7. Ordered(To(r, Len(r.part), Len(r.gt)).done, r.left, Edge(r, Len(r.part)))
  BY <1>4, <1>5, <1>6, CutsStay
<1>8. Edge(r, Len(r.part)) = r.right
  BY <1>6 DEF Edge
<1>9. Ordered(x, BoxLeft(l, s), BoxRight(l, s))
  BY <1>1, <1>2, <1>7, <1>8 DEF Done
<1>10. PICK m \in BOOLEAN : m = (mode = "manual")
  OBVIOUS
<1>11. Ordered(Edit(l, s, x, m), Left, Right)
  BY <1>9, EditOrdered
<1>. QED BY <1>3, <1>10, <1>11

CutsOrdered == Ordered(given, Left, Right) => Ordered(line, Left, Right)

(* In order is what the property says it is. *)
LEMMA OrderlyIs ==
  ASSUME NEW l \in Seq(DbChar)
  PROVE  Orderly(l) <=> Ordered(l, Left, Right)
<1>1. DOMAIN l = 1..Len(l) /\ Left = 0 /\ Right \in Nat
  BY LineBoxIs
<1>2. \A h \in 1..Len(l) : l[h].cut \in Int
  BY CutType
<1>3. \A h \in 1..Len(l) : l[h].cut \in Left..Right <=> Left <= l[h].cut /\ l[h].cut <= Right
  BY <1>1, <1>2
<1>. QED BY <1>1, <1>3 DEF Orderly, Ordered

(* The cuts of a line stay in order and within the line's box if those of  *)
(* its last OCR result are so.                                             *)
THEOREM CutsKeepTheirOrder == Spec => []CutsInOrder
<1>1. Init => CutsOrdered
  BY DEF Init, CutsOrdered
<1>2. TypeOK /\ CutsOrdered /\ [Next]_vars => CutsOrdered'
  <2>1. SUFFICES ASSUME TypeOK, CutsOrdered, [Next]_vars, Ordered(given', Left, Right)
                 PROVE  Ordered(line', Left, Right)
    BY DEF CutsOrdered, Left, Right, Ordered
  <2>2. line \in Seq(DbChar)
    BY <2>1 DEF TypeOK
  <2>3. \A s \in Slices(line) : Proper(line, s)
    BY <2>2, SlicesProper
  <2>4. ASSUME UNCHANGED given
        PROVE  Ordered(line, Left, Right)
    BY <2>1, <2>4 DEF CutsOrdered
  <2>5. ASSUME NEW s \in Slices(line), NEW gt \in Text, NEW mode \in Mode, UNCHANGED given,
               line' = Corrected(line, s, gt, mode)
        PROVE  Ordered(line', Left, Right)
    <3>1. gt \in Seq(Letter)
      BY TextIs
    <3>2. Ordered(line, Left, Right)
      BY <2>4, <2>5
    <3>. QED BY <2>2, <2>3, <2>5, <3>1, <3>2, CorrectedOrdered
  <2>6. ASSUME NEW s \in Slices(line), UNCHANGED given, line' = Reset(line, s)
        PROVE  Ordered(line', Left, Right)
    <3>1. Ordered(line, Left, Right)
      BY <2>4, <2>6
    <3>. QED BY <2>2, <2>3, <2>6, <3>1, ResetOrdered
  <2>7. CASE UNCHANGED vars
    <3>1. UNCHANGED given /\ line' = line
      BY <2>7 DEF vars
    <3>. QED BY <2>4, <3>1
  <2>8. CASE Next
    <3>1. CASE line' = given'
      BY <2>1, <3>1
    <3>. QED BY <2>5, <2>6, <2>8, <3>1, Steps
  <2>. QED BY <2>1, <2>7, <2>8
<1>3. TypeOK /\ CutsOrdered => CutsInOrder
  BY OrderlyIs DEF TypeOK, CutsOrdered, CutsInOrder
<1>. QED BY <1>1, <1>2, <1>3, TypeCorrect, PTL DEF Spec


-----------------------------------------------------------------------------
(* Manual corrections.                                                     *)

(* Nothing is kept of a list without members of C. *)
LEMMA ThoseNone ==
  ASSUME NEW l \in Seq(DbChar), NEW C, \A i \in 1..Len(l) : l[i] \notin C
  PROVE  Those(l, C) = <<>>
<1>1. l \in Seq(DbChar \ C)
  OBVIOUS
<1>2. (DbChar \ C) \cap C = {}
  OBVIOUS
<1>3. Those(l, C) \in Seq((DbChar \ C) \cap C)
  BY <1>1, ThoseType
<1>4. PICK t \in Seq({}) : t = Those(l, C)
  BY <1>2, <1>3
<1>5. t = <<>>
  OBVIOUS
<1>. QED BY <1>4, <1>5

(* An edit of a slice without a character of C that puts none there leaves *)
(* those of the line.                                                      *)
LEMMA EditLeaves ==
  ASSUME NEW l \in Seq(DbChar), NEW s, Proper(l, s), NEW x \in Seq(DbChar), NEW m \in BOOLEAN, NEW C,
         Those(Part(l, s), C) = <<>>, Those(SetType(x, m), C) = <<>>
  PROVE  Those(Edit(l, s, x, m), C) = Those(l, C)
<1>1. PICK p \in Seq(DbChar) : p = Prefix(l, s)
  BY CutUp
<1>2. PICK q \in Seq(DbChar) : q = Part(l, s)
  BY CutUp
<1>3. PICK t \in Seq(DbChar) : t = Suffix(l, s)
  BY CutUp
<1>4. PICK y \in Seq(DbChar) : y = SetType(x, m)
  BY SetTypeIs
<1>5. Cat(Cat(p, q), t) = l
  BY <1>1, <1>2, <1>3, CutUp
<1>6. ASSUME NEW z \in Seq(DbChar), Those(z, C) = <<>>
      PROVE  Those(Cat(Cat(p, z), t), C) = Cat(Those(p, C), Those(t, C))
  <2>1. Cat(p, z) \in Seq(DbChar)
    BY CatIs
  <2>2. Those(Cat(Cat(p, z), t), C) = Cat(Those(Cat(p, z), C), Those(t, C))
    BY <2>1, ThoseCat
  <2>3. Those(Cat(p, z), C) = Cat(Those(p, C), Those(z, C))
    BY ThoseCat
  <2>4. Those(p, C) \in Seq(DbChar)
    BY ThoseType
  <2>5. Cat(Those(p, C), <<>>) = Those(p, C)
    BY <2>4, CatEmpty
  <2>. QED BY <1>6, <2>2, <2>3, <2>5
<1>7. Those(Cat(Cat(p, y), t), C) = Those(Cat(Cat(p, q), t), C)
  BY <1>2, <1>4, <1>6
<1>. QED BY <1>1, <1>3, <1>4, <1>5, <1>7 DEF Edit

\* The characters whose correction is manual.
ByHand == {c \in DbChar : c.manually}

(* An automatic correction that is not refused leaves the manual           *)
(* characters.                                                             *)
LEMMA AutomaticLeaves ==
  ASSUME NEW l \in Seq(DbChar), NEW s, Proper(l, s), ~Conflict(l, s, "automatic"),
         NEW gt \in Seq(Letter)
  PROVE  Those(Corrected(l, s, gt, "automatic"), ByHand) = Those(l, ByHand)
<1>1. PICK m \in BOOLEAN : m = ("automatic" = "manual")
  OBVIOUS
<1>2. m = FALSE
  BY <1>1
<1>3. PICK x \in Seq(DbChar) : x = Done(JobOf(l, s, gt))
  BY CorrectedIs
<1>4. Corrected(l, s, gt, "automatic") = Edit(l, s, x, m)
  BY <1>1, <1>3, CorrectedIs
<1>5. Those(Part(l, s), ByHand) = <<>>
  <2>1. PICK q \in Seq(DbChar) : q = Part(l, s)
    BY CutUp
  <2>2. Len(q) = s.to - s.from /\ \A i \in 1..s.to - s.from : q[i] = l[s.from - 1 + i]
    <3>1. Len(Part(l, s)) = s.to - s.from
      BY CutUp
    <3>2. \A i \in 1..s.to - s.from : Part(l, s)[i] = l[s.from - 1 + i]
      BY CutUp
    <3>. QED BY <2>1, <3>1, <3>2
  <2>3. PICK a \in Int : a = s.from
    BY DEF Proper
  <2>4. PICK b \in Int : b = s.to
    BY DEF Proper
  <2>5. \A i \in a..b - 1 : ~l[i].manually
    BY <2>3, <2>4 DEF Conflict
  <2>6. \A i \in 1..b - a : a - 1 + i \in a..b - 1
    BY <2>3, <2>4, SMTT(30)
  <2>7. \A i \in 1..Len(q) : ~q[i].manually
    BY <2>2, <2>3, <2>4, <2>5, <2>6
  <2>8. \A i \in 1..Len(q) : q[i] \notin ByHand
    BY <2>7 DEF ByHand
  <2>. QED BY <2>1, <2>8, ThoseNone
<1>6. Those(SetType(x, m), ByHand) = <<>>
  <2>1. PICK y \in Seq(DbChar) : y = SetType(x, m) /\ Len(y) = Len(x) /\ \A i \in 1..Len(x) : y[i] = Marked(x[i], m)
    BY SetTypeIs
  <2>2. \A i \in 1..Len(x) : x[i] \in DbChar
    OBVIOUS
  <2>3. \A i \in 1..Len(y) : y[i].manually = FALSE
    BY <1>2, <2>1, <2>2, MarkedIs
  <2>4. \A i \in 1..Len(y) : y[i] \notin ByHand
    BY <2>3 DEF ByHand
  <2>. QED BY <2>1, <2>4, ThoseNone
<1>7. Those(Edit(l, s, x, m), ByHand) = Those(l, ByHand)
  BY <1>5, <1>6, EditLeaves
<1>. QED BY <1>4, <1>7

(* An automatic correction that is not refused leaves the manually         *)
(* corrected characters of the line.                                       *)
THEOREM AutomaticLeavesManual == Spec => []AutomaticKeepsManual
<1>1. TypeOK => AutomaticKeepsManual
  <2>1. SUFFICES ASSUME TypeOK, NEW s \in Slices(line), ~Conflict(line, s, "automatic"), NEW gt \in Text
                 PROVE  Those(Corrected(line, s, gt, "automatic"), ByHand) = Those(line, ByHand)
    BY DEF AutomaticKeepsManual, ByHand
  <2>2. line \in Seq(DbChar) /\ gt \in Seq(Letter)
    BY <2>1, TextIs DEF TypeOK
  <2>3. Proper(line, s)
    BY <2>2, SlicesProper
  <2>. QED BY <2>1, <2>2, <2>3, AutomaticLeaves
<1>. QED BY <1>1, TypeCorrect, PTL


-----------------------------------------------------------------------------
(* Corrections of the whole line.                                          *)

LEMMA WholeIs ==
  ASSUME NEW l \in Seq(DbChar)
  PROVE  /\ Proper(l, Whole(l)) /\ Whole(l).from = 1 /\ Whole(l).to = Len(l) + 1
         /\ Prefix(l, Whole(l)) = <<>> /\ Part(l, Whole(l)) = l /\ Suffix(l, Whole(l)) = <<>>
<1>1. PICK n \in Nat : n = Len(l)
  OBVIOUS
<1>2. Whole(l).from = 1 /\ Whole(l).to = n + 1
  BY <1>1 DEF Whole
<1>3. Proper(l, Whole(l))
  BY <1>1, <1>2 DEF Proper
<1>4. Prefix(l, Whole(l)) = <<>> /\ Part(l, Whole(l)) = l /\ Suffix(l, Whole(l)) = <<>>
  BY <1>1, <1>2 DEF Part, Prefix, Suffix
<1>. QED BY <1>1, <1>2, <1>3, <1>4

LEMMA WholeEdit ==
  ASSUME NEW l \in Seq(DbChar), NEW x \in Seq(DbChar), NEW m \in BOOLEAN
  PROVE  Edit(l, Whole(l), x, m) = SetType(x, m)
<1>1. PICK y \in Seq(DbChar) : y = SetType(x, m)
  BY SetTypeIs
<1>2. Cat(Cat(<<>>, y), <<>>) = y
  BY CatEmpty
<1>. QED BY <1>1, <1>2, WholeIs DEF Edit

(* A correction of the whole line starts with the characters of the OCR,   *)
(* numbered and without a correction.                                      *)
LEMMA WholeJob ==
  ASSUME NEW l \in Seq(DbChar), NEW gt \in Seq(Letter)
  PROVE  \E r \in Job :
           /\ r = JobOf(l, Whole(l), gt) /\ r.gt = gt /\ r.size = Len(r.part)
           /\ Map(r.part, OCR) = Sift(l, OCR, Pos)
           /\ \A h \in 1..Len(r.part) : r.part[h].id = h - 1 /\ r.part[h].cor = NoChar
<1>1. PICK s : s = Whole(l) /\ Proper(l, s) /\ s.from = 1 /\ s.to = Len(l) + 1 /\ Part(l, s) = l
  BY WholeIs
<1>2. PICK kept \in Seq(OcrChar) :
           /\ kept = Those(Part(l, s), OcrChar)
           /\ Cleared(l, s) \in Seq(OcrChar) /\ Len(Cleared(l, s)) = Len(kept)
           /\ \A i \in 1..Len(kept) : /\ kept[i] \in OcrChar
                                      /\ Cleared(l, s)[i] = Bare(kept[i], s.from - 2 + i)
                                      /\ s.from - 2 + i \in Nat
  BY <1>1, ClearedIs
<1>3. PICK r \in Job : r = JobOf(l, s, gt)
  BY <1>1, JobOfIs
<1>4. r.part = Cleared(l, s) /\ r.gt = gt /\ r.size = Len(l) - (s.to - s.from) + Len(Cleared(l, s))
  BY <1>1, <1>3, JobOfIs
<1>5. r.size = Len(r.part)
  <2>1. PICK n \in Nat : n = Len(l)
    OBVIOUS
  <2>2. PICK k \in Nat : k = Len(r.part)
    BY JobIs
  <2>3. r.size = n - ((n + 1) - 1) + k
    BY <1>1, <1>4, <2>1, <2>2
  <2>. QED BY <2>2, <2>3
<1>6. Map(Cleared(l, s), OCR) = Sift(Part(l, s), OCR, Pos)
  BY <1>1, OcrStable, FunctionsOfChars, ClearedKeeps
<1>7. ASSUME NEW h \in 1..Len(r.part)
      PROVE  r.part[h].id = h - 1 /\ r.part[h].cor = NoChar
  <2>1. PICK id \in Nat : id = s.from - 2 + h /\ id = h - 1
    BY <1>1, <1>2, <1>4
  <2>2. r.part[h] = Bare(kept[h], id) /\ kept[h] \in OcrChar
    BY <1>2, <1>4, <2>1
  <2>3. Bare(kept[h], id).id = id /\ Bare(kept[h], id).cor = NoChar
    BY <2>2, BareIs
  <2>. QED BY <2>1, <2>2, <2>3
<1>. QED BY <1>1, <1>3, <1>4, <1>5, <1>6, <1>7

\* No two characters have the same id.
Distinct(l) == \A h, k \in 1..Len(l) : h # k => l[h].id # l[k].id

(* What a correction of the whole line is. *)
LEMMA WholeCorrected ==
  ASSUME NEW l \in Seq(DbChar), NEW gt \in Seq(Letter), NEW mode,
         NEW r \in Job, r = JobOf(l, Whole(l), gt)
  PROVE  /\ Done(r) \in Seq(DbChar)
         /\ Corrected(l, Whole(l), gt, mode) = SetType(Done(r), mode = "manual")
<1>1. Proper(l, Whole(l))
  BY WholeIs
<1>2. PICK x \in Seq(DbChar) : x = Done(r)
  BY <1>1, CorrectedIs
<1>3. PICK m \in BOOLEAN : m = (mode = "manual")
  OBVIOUS
<1>4. Corrected(l, Whole(l), gt, mode) = Edit(l, Whole(l), x, m)
  BY <1>1, <1>2, <1>3, CorrectedIs
<1>5. Edit(l, Whole(l), x, m) = SetType(x, m)
  BY WholeEdit
<1>. QED BY <1>2, <1>3, <1>4, <1>5

(* It numbers the line so that no id occurs twice. *)
LEMMA WholeDistinct ==
  ASSUME NEW l \in Seq(DbChar), NEW gt \in Seq(Letter), NEW mode
  PROVE  Distinct(Corrected(l, Whole(l), gt, mode))
<1>1. PICK r \in Job :
           /\ r = JobOf(l, Whole(l), gt) /\ r.gt = gt /\ r.size = Len(r.part)
           /\ Map(r.part, OCR) = Sift(l, OCR, Pos)
           /\ \A h \in 1..Len(r.part) : r.part[h].id = h - 1 /\ r.part[h].cor = NoChar
  BY WholeJob
<1>2. PICK x \in Seq(DbChar) : x = Done(r)
  BY <1>1, WholeCorrected
<1>3. PICK m \in BOOLEAN : m = (mode = "manual")
  OBVIOUS
<1>4. Corrected(l, Whole(l), gt, mode) = SetType(x, m)
  BY <1>1, <1>2, <1>3, WholeCorrected
<1>5. Len(r.part) \in 0..Len(r.part) /\ Len(r.gt) \in 0..Len(r.gt)
  BY JobIs
<1>6. Numbered(To(r, Len(r.part), Len(r.gt)).done, Len(r.part), Len(r.part), To(r, Len(r.part), Len(r.gt)).size)
  BY <1>1, <1>5, IdsStay
<1>7. \A h, k \in 1..Len(x) : h # k => x[h].id # x[k].id
  BY <1>2, <1>6 DEF Numbered, Done
<1>8. PICK y \in Seq(DbChar) : y = SetType(x, m) /\ Len(y) = Len(x) /\ \A i \in 1..Len(x) : y[i] = Marked(x[i], m)
  BY SetTypeIs
<1>9. \A i \in 1..Len(x) : y[i].id = x[i].id
  BY <1>8, CutType, MarkedIs
<1>10. Distinct(y)
  BY <1>7, <1>8, <1>9 DEF Distinct
<1>. QED BY <1>4, <1>8, <1>10

(* Ids that are no other character's lead to their tokens.                 *)
LEMMA DistinctFound ==
  ASSUME NEW l \in Seq(DbChar), Distinct(l)
  PROVE  TokensFound(l)
<1>1. PICK n \in Nat : n = Len(l) /\ DOMAIN l = 1..n
  OBVIOUS
<1>2. SUFFICES ASSUME NEW t \in Tokens(l)
               PROVE  Slice(l, l[t.from].id, -1) = t
  BY DEF TokensFound
<1>3. /\ t \in [from : 1..n, to : 2..n + 1] /\ t.from < t.to
      /\ \A i \in t.from..t.to - 1 : ~IsBoundary(l[i])
      /\ t.to = n + 1 \/ IsBoundary(l[t.to])
  BY <1>1, <1>2 DEF Tokens
<1>4. PICK a \in 1..n : a = t.from
  BY <1>3
<1>5. PICK b \in 2..n + 1 : b = t.to
  BY <1>3
<1>6. t = [from |-> a, to |-> b]
  BY <1>3, <1>4, <1>5
<1>7. PICK id : id = l[a].id
  OBVIOUS
<1>8. Find(l, id) = a
  <2>1. PICK S \in SUBSET Nat : S = {i \in DOMAIN l : l[i].id = id}
    <3>1. {i \in DOMAIN l : l[i].id = id} \in SUBSET Nat
      BY <1>1
    <3>. QED BY <3>1
  <2>2. a \in S /\ \A i \in S : i = a
    BY <1>1, <1>7, <2>1 DEF Distinct
  <2>3. Find(l, id) = Min(S)
    BY <2>1, <2>2 DEF Find
  <2>4. Min(S) \in S
    BY <2>2, MinOf
  <2>. QED BY <2>2, <2>3, <2>4
<1>9. NextPos(l, a, -1) = b
  <2>1. PICK S \in SUBSET Nat : S = {n + 1} \cup {i \in a..n : IsBoundary(l[i])}
    <3>1. {n + 1} \cup {i \in a..n : IsBoundary(l[i])} \in SUBSET Nat
      BY <1>1
    <3>. QED BY <3>1
  <2>2. NextPos(l, a, -1) = Min(S)
    <3>1. -1 < 0
      OBVIOUS
    <3>2. {i \in a..n : IF -1 < 0 THEN IsBoundary(l[i]) ELSE i = a + (-1)} = {i \in a..n : IsBoundary(l[i])}
      BY <3>1
    <3>. QED BY <1>1, <2>1, <3>2 DEF NextPos
  <2>3. b \in S
    <3>1. CASE b = n + 1
      BY <2>1, <3>1
    <3>2. CASE b # n + 1
      <4>1. b \in a..n /\ IsBoundary(l[b])
        BY <1>3, <1>4, <1>5, <3>2
      <4>. QED BY <2>1, <4>1
    <3>. QED BY <3>1, <3>2
  <2>4. Min(S) \in S /\ Min(S) \in Nat /\ Min(S) <= b
    BY <2>3, MinOf
  <2>5. PICK k \in Nat : k = Min(S)
    BY <2>4
  <2>6. ~(k < b)
    <3>1. SUFFICES ASSUME k < b PROVE FALSE
      OBVIOUS
    <3>2. k # n + 1 /\ k \in S
      BY <2>4, <2>5, <3>1
    <3>3. k \in a..n /\ IsBoundary(l[k])
      BY <2>1, <3>2
    <3>4. k \in a..b - 1
      BY <3>1, <3>3
    <3>. QED BY <1>3, <1>4, <1>5, <3>3, <3>4
  <2>. QED BY <2>2, <2>4, <2>5, <2>6
<1>10. Slice(l, id, -1) = [from |-> a, to |-> b]
  BY <1>8, <1>9 DEF Slice
<1>. QED BY <1>4, <1>6, <1>7, <1>10

(* A correction of the whole line makes the ids of its tokens lead to them *)
(* again, whatever corrections of tokens have done to them.                *)
THEOREM LineCorrectionMakesIdsUnique == Spec => []LineCorrectionRenumbers
<1>1. TypeOK => LineCorrectionRenumbers
  <2>1. SUFFICES ASSUME TypeOK, NEW gt \in Text
                 PROVE  TokensFound(Corrected(line, Whole(line), gt, "manual"))
    BY DEF LineCorrectionRenumbers
  <2>2. line \in Seq(DbChar) /\ gt \in Seq(Letter)
    BY <2>1, TextIs DEF TypeOK
  <2>3. Distinct(Corrected(line, Whole(line), gt, "manual"))
    BY <2>2, WholeDistinct
  <2>4. Corrected(line, Whole(line), gt, "manual") \in Seq(DbChar)
    BY <2>2, WholeIs, EditType
  <2>. QED BY <2>3, <2>4, DistinctFound
<1>. QED BY <1>1, TypeCorrect, PTL


\* A list of characters but for their cuts.
Uncut(l) == [i \in DOMAIN l |-> [l[i] EXCEPT !.cut = 0]]

(* Lists that are alike are the same but for the cuts, once both have the  *)
(* same flags.                                                             *)
LEMMA UncutAlike ==
  ASSUME NEW l \in Seq(DbChar), NEW k \in Seq(DbChar), Alike(l, k), NEW m \in BOOLEAN
  PROVE  Uncut(SetType(l, m)) = Uncut(SetType(k, m))
<1>1. PICK n \in Nat : n = Len(l) /\ n = Len(k)
  BY DEF Alike
<1>2. PICK x \in Seq(DbChar) : x = SetType(l, m) /\ Len(x) = Len(l) /\ \A i \in 1..Len(l) : x[i] = Marked(l[i], m)
  BY SetTypeIs
<1>3. PICK y \in Seq(DbChar) : y = SetType(k, m) /\ Len(y) = Len(k) /\ \A i \in 1..Len(k) : y[i] = Marked(k[i], m)
  BY SetTypeIs
<1>4. DOMAIN x = 1..n /\ DOMAIN y = 1..n
  BY <1>1, <1>2, <1>3
<1>5. ASSUME NEW c \in DbChar
      PROVE  [Marked(c, m) EXCEPT !.cut = 0] =
               [ocr |-> c.ocr, cor |-> c.cor, cut |-> 0, id |-> c.id, manually |-> m]
  <2>1. c = [ocr |-> c.ocr, cor |-> c.cor, cut |-> c.cut, id |-> c.id, manually |-> c.manually]
    BY DEF DbChar
  <2>2. Marked(c, m) = [ocr |-> c.ocr, cor |-> c.cor, cut |-> c.cut, id |-> c.id, manually |-> m]
    BY <2>1 DEF Marked
  <2>. QED BY <2>2
<1>6. ASSUME NEW i \in 1..n
      PROVE  [x[i] EXCEPT !.cut = 0] = [y[i] EXCEPT !.cut = 0]
  <2>1. PICK c \in DbChar : c = l[i]
    <3>1. l[i] \in DbChar
      BY <1>1, CutType
    <3>. QED BY <3>1
  <2>2. PICK d \in DbChar : d = k[i]
    <3>1. k[i] \in DbChar
      BY <1>1, CutType
    <3>. QED BY <3>1
  <2>3. c.ocr = d.ocr /\ c.cor = d.cor /\ c.id = d.id
    BY <1>1, <2>1, <2>2 DEF Alike, Same
  <2>4. x[i] = Marked(c, m) /\ y[i] = Marked(d, m)
    BY <1>1, <1>2, <1>3, <2>1, <2>2
  <2>5. [x[i] EXCEPT !.cut = 0] = [ocr |-> c.ocr, cor |-> c.cor, cut |-> 0, id |-> c.id, manually |-> m]
    BY <1>5, <2>4
  <2>6. [y[i] EXCEPT !.cut = 0] = [ocr |-> d.ocr, cor |-> d.cor, cut |-> 0, id |-> d.id, manually |-> m]
    BY <1>5, <2>4
  <2>. QED BY <2>3, <2>5, <2>6
<1>7. Uncut(x) = Uncut(y)
  BY <1>4, <1>6 DEF Uncut
<1>. QED BY <1>2, <1>3, <1>7

(* Two lines with the same OCR result are corrected alike. *)
LEMMA SameOcrAlike ==
  ASSUME NEW l \in Seq(DbChar), NEW k \in Seq(DbChar), Keep(k, l, OCR, Pos), NEW gt \in Seq(Letter),
         NEW mode
  PROVE  Uncut(Corrected(k, Whole(k), gt, mode)) = Uncut(Corrected(l, Whole(l), gt, mode))
<1>1. PICK r \in Job :
           /\ r = JobOf(l, Whole(l), gt) /\ r.gt = gt /\ r.size = Len(r.part)
           /\ Map(r.part, OCR) = Sift(l, OCR, Pos)
           /\ \A h \in 1..Len(r.part) : r.part[h].id = h - 1 /\ r.part[h].cor = NoChar
  BY WholeJob
<1>2. PICK q \in Job :
           /\ q = JobOf(k, Whole(k), gt) /\ q.gt = gt /\ q.size = Len(q.part)
           /\ Map(q.part, OCR) = Sift(k, OCR, Pos)
           /\ \A h \in 1..Len(q.part) : q.part[h].id = h - 1 /\ q.part[h].cor = NoChar
  BY WholeJob
<1>3. PICK u \in Seq(OcrChar) : u = r.part /\ u \in Seq(DbChar)
  BY JobIs
<1>4. PICK v \in Seq(OcrChar) : v = q.part /\ v \in Seq(DbChar)
  BY JobIs
<1>5. Map(u, OCR) = Map(v, OCR)
  BY <1>1, <1>2, <1>3, <1>4 DEF Keep
<1>6. /\ DOMAIN u = 1..Len(u) /\ DOMAIN v = 1..Len(v) /\ Len(u) \in Nat /\ Len(v) \in Nat
      /\ \A h \in 1..Len(u) : u[h] \in DbChar
      /\ \A h \in 1..Len(v) : v[h] \in DbChar
  BY <1>3, <1>4
<1>7. DOMAIN Map(u, OCR) = 1..Len(u) /\ DOMAIN Map(v, OCR) = 1..Len(v)
  BY <1>6 DEF Map
<1>8. Len(u) = Len(v)
  <2>1. 1..Len(u) = 1..Len(v)
    BY <1>5, <1>7
  <2>. QED BY <1>6, <2>1, SameRange
<1>9. \A h \in 1..Len(u) : u[h].ocr = v[h].ocr
  <2>1. \A h \in 1..Len(u) : Map(u, OCR)[h] = OCR[u[h]] /\ Map(v, OCR)[h] = OCR[v[h]]
    BY <1>6, <1>8 DEF Map
  <2>2. \A h \in 1..Len(u) : OCR[u[h]] = u[h].ocr /\ OCR[v[h]] = v[h].ocr
    BY <1>6, <1>8 DEF OCR
  <2>. QED BY <1>5, <2>1, <2>2
<1>10. Alike(q.part, r.part)
  <2>1. \A h \in 1..Len(v) : /\ u[h].id = h - 1 /\ v[h].id = h - 1
                             /\ u[h].cor = NoChar /\ v[h].cor = NoChar
    BY <1>1, <1>2, <1>3, <1>4, <1>8
  <2>2. Alike(v, u)
    BY <1>8, <1>9, <2>1 DEF Alike, Same
  <2>. QED BY <1>3, <1>4, <2>2
<1>11. q.gt = r.gt /\ q.size = r.size
  BY <1>1, <1>2, <1>3, <1>4, <1>8
<1>12. Len(r.part) \in 0..Len(r.part) /\ Len(r.gt) \in 0..Len(r.gt)
  BY JobIs
<1>13. Alike(To(q, Len(r.part), Len(r.gt)).done, To(r, Len(r.part), Len(r.gt)).done)
  BY <1>10, <1>11, <1>12, CorrectedAlike
<1>14. Alike(Done(q), Done(r))
  BY <1>3, <1>4, <1>8, <1>11, <1>13 DEF Done
<1>15. PICK m \in BOOLEAN : m = (mode = "manual")
  OBVIOUS
<1>16. PICK x \in Seq(DbChar) : x = Done(r) /\ Corrected(l, Whole(l), gt, mode) = SetType(x, m)
  BY <1>1, <1>15, WholeCorrected
<1>17. PICK y \in Seq(DbChar) : y = Done(q) /\ Corrected(k, Whole(k), gt, mode) = SetType(y, m)
  <2>1. Done(q) \in Seq(DbChar)
    BY <1>2, WholeCorrected
  <2>2. Corrected(k, Whole(k), gt, mode) = SetType(Done(q), mode = "manual")
    BY <1>2, WholeCorrected
  <2>. QED BY <1>15, <2>1, <2>2
<1>18. Alike(y, x)
  BY <1>14, <1>16, <1>17
<1>. QED BY <1>16, <1>17, <1>18, UncutAlike

(* A correction of the line that is repeated changes no character, id or   *)
(* flag again.                                                             *)
THEOREM RetryChangesNothing == Spec => []RetryIsHarmless
<1>1. TypeOK => RetryIsHarmless
  <2>1. SUFFICES ASSUME TypeOK, NEW gt \in Text, NEW mode \in Mode, NEW new,
                        new = Corrected(line, Whole(line), gt, mode)
                 PROVE  Uncut(Corrected(new, Whole(new), gt, mode)) = Uncut(new)
    BY DEF RetryIsHarmless, Uncut
  <2>2. line \in Seq(DbChar) /\ gt \in Seq(Letter)
    BY <2>1, TextIs DEF TypeOK
  <2>3. Proper(line, Whole(line))
    BY <2>2, WholeIs
  <2>4. new \in Seq(DbChar)
    BY <2>1, <2>2, <2>3, EditType
  <2>5. Keep(Corrected(line, Whole(line), gt, mode), line, OCR, Pos)
    BY <2>2, <2>3, OcrStays
  <2>6. Keep(new, line, OCR, Pos)
    BY <2>1, <2>5
  <2>. QED BY <2>1, <2>2, <2>4, <2>6, SameOcrAlike
<1>. QED BY <1>1, TypeCorrect, PTL


-----------------------------------------------------------------------------
(* The distance of two strings.                                            *)

(* The edges of the table, and a cell from its neighbours. *)
LEMMA TableEdge ==
  ASSUME NEW ocr, NEW gt, Len(ocr) \in Nat, Len(gt) \in Nat,
         NEW i \in 0..Len(ocr), NEW j \in 0..Len(gt), i = 0 \/ j = 0
  PROVE  Table(ocr, gt)[<<i, j>>] = i + j
<1>1. Table(ocr, gt)[<<i, j>>] = Entry(Table(ocr, gt), ocr, gt, i, j)
  BY TableIs
<1>2. Entry(Table(ocr, gt), ocr, gt, i, j) = i + j
  BY DEF Entry
<1>. QED BY <1>1, <1>2

\* An entry from the three before it.
Best(same, d, a, b, c) ==
  IF same THEN d = a
  ELSE d <= a + 1 /\ d <= b + 1 /\ d <= c + 1 /\ (d = a + 1 \/ d = b + 1 \/ d = c + 1)

(* An inner entry is the best of its neighbours. *)
LEMMA TableStep ==
  ASSUME NEW ocr, NEW gt, Len(ocr) \in Nat, Len(gt) \in Nat,
         NEW i \in 1..Len(ocr), NEW j \in 1..Len(gt)
  PROVE  Best(ocr[i] = gt[j], Table(ocr, gt)[<<i, j>>], Table(ocr, gt)[<<i-1, j-1>>],
              Table(ocr, gt)[<<i-1, j>>], Table(ocr, gt)[<<i, j-1>>])
<1>0. PICK l : l = Table(ocr, gt)
  OBVIOUS
<1>1. \A h \in 0..Len(ocr), k \in 0..Len(gt) : l[<<h, k>>] \in Nat
  BY <1>0, TableType
<1>2. i \in 0..Len(ocr) /\ j \in 0..Len(gt) /\ i-1 \in 0..Len(ocr) /\ j-1 \in 0..Len(gt)
  OBVIOUS
<1>3. l[<<i, j>>] = Entry(l, ocr, gt, i, j)
  BY <1>0, <1>2, TableIs
<1>4. PICK a \in Nat : a = l[<<i-1, j-1>>]
  BY <1>1, <1>2
<1>5. PICK b \in Nat : b = l[<<i-1, j>>]
  BY <1>1, <1>2
<1>6. PICK c \in Nat : c = l[<<i, j-1>>]
  BY <1>1, <1>2
<1>7. PICK d \in Nat : d = l[<<i, j>>]
  BY <1>1, <1>2
<1>8. d = IF ocr[i] = gt[j] THEN a ELSE 1 + Min({a, b, c})
  BY <1>3, <1>4, <1>5, <1>6, <1>7 DEF Entry
<1>9. PICK k \in Nat : k = Min({a, b, c}) /\ k \in {a, b, c} /\ k <= a /\ k <= b /\ k <= c
  <2>1. PICK S \in SUBSET Nat : S = {a, b, c} /\ S # {}
    OBVIOUS
  <2>2. Min(S) \in S /\ Min(S) \in Nat /\ \A h \in S : Min(S) <= h
    BY <2>1, MinOf
  <2>. QED BY <2>1, <2>2
<1>10. Best(ocr[i] = gt[j], d, a, b, c)
  BY <1>8, <1>9, SMTT(30) DEF Best
<1>. QED BY <1>0, <1>4, <1>5, <1>6, <1>7, <1>10

\* The entries of neighbours differ by one at most.
Near(l, i, j) ==
  /\ i > 0 => l[<<i, j>>] <= l[<<i-1, j>>] + 1 /\ l[<<i-1, j>>] <= l[<<i, j>>] + 1
  /\ j > 0 => l[<<i, j>>] <= l[<<i, j-1>>] + 1 /\ l[<<i, j-1>>] <= l[<<i, j>>] + 1

(* Entries next to each other differ by one at most. *)
LEMMA TableNear ==
  ASSUME NEW ocr, NEW gt, Len(ocr) \in Nat, Len(gt) \in Nat,
         NEW i \in 0..Len(ocr), NEW j \in 0..Len(gt)
  PROVE  Near(Table(ocr, gt), i, j)
<1>1. PICK l : l = Table(ocr, gt)
  OBVIOUS
<1>. DEFINE A == {p \in Cells(ocr, gt) : Near(l, p[1], p[2])}
<1>2. \A h \in 0..Len(ocr), k \in 0..Len(gt) : <<h, k>> \in A <=> Near(l, h, k)
  BY CellsAre
<1>3. A \in SUBSET Cells(ocr, gt)
  OBVIOUS
<1>. HIDE DEF A
<1>4. ASSUME NEW h \in 0..Len(ocr), NEW k \in 0..Len(gt),
             h > 0 => <<h-1, k>> \in A,
             k > 0 => <<h, k-1>> \in A,
             h > 0 /\ k > 0 => <<h-1, k-1>> \in A
      PROVE  <<h, k>> \in A
  <2>1. (h > 0 => h-1 \in 0..Len(ocr)) /\ (k > 0 => k-1 \in 0..Len(gt))
    OBVIOUS
  <2>2. CASE h = 0 \/ k = 0
    <3>0. l[<<h, k>>] = h + k
      BY <1>1, <2>2, TableEdge
    <3>1. h > 0 => l[<<h, k>>] = h /\ l[<<h-1, k>>] = h-1
      <4>1. h > 0 => l[<<h-1, k>>] = (h-1) + k /\ k = 0
        BY <1>1, <2>1, <2>2, TableEdge
      <4>. QED BY <3>0, <4>1
    <3>2. k > 0 => l[<<h, k>>] = k /\ l[<<h, k-1>>] = k-1
      <4>1. k > 0 => l[<<h, k-1>>] = h + (k-1) /\ h = 0
        BY <1>1, <2>1, <2>2, TableEdge
      <4>. QED BY <3>0, <4>1
    <3>3. Near(l, h, k)
      BY <3>1, <3>2 DEF Near
    <3>. QED BY <1>2, <3>3
  <2>3. CASE h > 0 /\ k > 0
    <3>0. \A x \in 0..Len(ocr), y \in 0..Len(gt) : l[<<x, y>>] \in Nat
      BY <1>1, TableType
    <3>1. PICK a \in Nat : a = l[<<h-1, k-1>>]
      BY <2>1, <2>3, <3>0
    <3>2. PICK b \in Nat : b = l[<<h-1, k>>]
      BY <2>1, <2>3, <3>0
    <3>3. PICK c \in Nat : c = l[<<h, k-1>>]
      BY <2>1, <2>3, <3>0
    <3>4. PICK d \in Nat : d = l[<<h, k>>]
      BY <3>0
    <3>5. PICK same : same = (ocr[h] = gt[k])
      OBVIOUS
    <3>6. Best(same, d, a, b, c)
      <4>1. h \in 1..Len(ocr) /\ k \in 1..Len(gt)
        BY <2>3
      <4>2. Best(ocr[h] = gt[k], l[<<h, k>>], l[<<h-1, k-1>>], l[<<h-1, k>>], l[<<h, k-1>>])
        BY <1>1, <4>1, TableStep
      <4>. QED BY <3>1, <3>2, <3>3, <3>4, <3>5, <4>2
    <3>7. b <= a + 1 /\ a <= b + 1
      <4>1. Near(l, h-1, k)
        BY <1>2, <1>4, <2>1, <2>3
      <4>. QED BY <2>3, <3>1, <3>2, <4>1 DEF Near
    <3>8. c <= a + 1 /\ a <= c + 1
      <4>1. Near(l, h, k-1)
        BY <1>2, <1>4, <2>1, <2>3
      <4>. QED BY <2>3, <3>1, <3>3, <4>1 DEF Near
    <3>9. d <= b + 1 /\ b <= d + 1 /\ d <= c + 1 /\ c <= d + 1
      BY <3>6, <3>7, <3>8 DEF Best
    <3>10. Near(l, h, k)
      BY <3>2, <3>3, <3>4, <3>9 DEF Near
    <3>. QED BY <1>2, <3>10
  <2>. QED BY <2>2, <2>3
<1>5. A = Cells(ocr, gt)
  BY <1>3, <1>4, CellInduction
<1>6. Near(l, i, j)
  BY <1>2, <1>5, CellsAre
<1>. QED BY <1>1, <1>6

\* The pairings of the first i characters of one string with the first j of
\* the other, and what they cost.
Pairings(i, j) == {m \in SUBSET ((1..i) \X (1..j)) : InOrder(m)}
Wrong(ocr, gt, m) == {p \in m : ocr[p[1]] # gt[p[2]]}
CostOf(ocr, gt, i, j, m) ==
  (i - Cardinality(m)) + (j - Cardinality(m)) + Cardinality(Wrong(ocr, gt, m))

(* Pairings are finite, so that they have a cost. *)
LEMMA PairingIs ==
  ASSUME NEW ocr, NEW gt, NEW i \in Nat, NEW j \in Nat, NEW m \in Pairings(i, j)
  PROVE  /\ IsFiniteSet(m) /\ Cardinality(m) \in Nat
         /\ IsFiniteSet(Wrong(ocr, gt, m)) /\ Cardinality(Wrong(ocr, gt, m)) \in Nat
         /\ CostOf(ocr, gt, i, j, m) \in Int
<1>1. IsFiniteSet(1..i) /\ IsFiniteSet(1..j)
  BY FS_Interval
<1>2. IsFiniteSet((1..i) \X (1..j))
  BY <1>1, FS_Product
<1>3. IsFiniteSet(m)
  BY <1>2, FS_Subset DEF Pairings
<1>4. IsFiniteSet(Wrong(ocr, gt, m))
  BY <1>3, FS_Subset DEF Wrong
<1>5. Cardinality(m) \in Nat /\ Cardinality(Wrong(ocr, gt, m)) \in Nat
  BY <1>3, <1>4, FS_CardinalityType
<1>. QED BY <1>3, <1>4, <1>5 DEF CostOf

LEMMA NoPairs ==
  ASSUME NEW i \in Nat, NEW j \in Nat, i = 0 \/ j = 0
  PROVE  Pairings(i, j) = {{}}
<1>1. {} \in Pairings(i, j)
  BY DEF Pairings, InOrder
<1>2. (1..i) \X (1..j) = {}
  OBVIOUS
<1>. QED BY <1>1, <1>2 DEF Pairings

LEMMA CostOfNone ==
  ASSUME NEW ocr, NEW gt, NEW i \in Nat, NEW j \in Nat, NEW m, m = {}
  PROVE  CostOf(ocr, gt, i, j, m) = i + j
<1>1. Wrong(ocr, gt, m) = {} /\ Cardinality({}) = 0
  BY FS_EmptySet DEF Wrong
<1>2. (i - 0) + (j - 0) + 0 = i + j
  OBVIOUS
<1>. QED BY <1>1, <1>2 DEF CostOf

(* One more character of a string that is not paired costs one more. *)
LEMMA PairSkip ==
  ASSUME NEW ocr, NEW gt, NEW i \in Nat, NEW j \in Nat
  PROVE  /\ \A m \in Pairings(i, j) : /\ m \in Pairings(i + 1, j) /\ m \in Pairings(i, j + 1)
                                      /\ CostOf(ocr, gt, i + 1, j, m) = CostOf(ocr, gt, i, j, m) + 1
                                      /\ CostOf(ocr, gt, i, j + 1, m) = CostOf(ocr, gt, i, j, m) + 1
<1>1. SUFFICES ASSUME NEW m \in Pairings(i, j)
               PROVE  /\ m \in Pairings(i + 1, j) /\ m \in Pairings(i, j + 1)
                      /\ CostOf(ocr, gt, i + 1, j, m) = CostOf(ocr, gt, i, j, m) + 1
                      /\ CostOf(ocr, gt, i, j + 1, m) = CostOf(ocr, gt, i, j, m) + 1
  OBVIOUS
<1>2. m \in Pairings(i + 1, j) /\ m \in Pairings(i, j + 1)
  <2>1. 1..i \subseteq 1..i+1 /\ 1..j \subseteq 1..j+1
    OBVIOUS
  <2>. QED BY <2>1 DEF Pairings
<1>3. PICK c \in Nat : c = Cardinality(m)
  BY PairingIs
<1>4. PICK w \in Nat : w = Cardinality(Wrong(ocr, gt, m))
  BY PairingIs
<1>5. CostOf(ocr, gt, i + 1, j, m) = CostOf(ocr, gt, i, j, m) + 1
  <2>1. ((i + 1) - c) + (j - c) + w = ((i - c) + (j - c) + w) + 1
    OBVIOUS
  <2>. QED BY <1>3, <1>4, <2>1 DEF CostOf
<1>6. CostOf(ocr, gt, i, j + 1, m) = CostOf(ocr, gt, i, j, m) + 1
  <2>1. (i - c) + ((j + 1) - c) + w = ((i - c) + (j - c) + w) + 1
    OBVIOUS
  <2>. QED BY <1>3, <1>4, <2>1 DEF CostOf
<1>. QED BY <1>2, <1>5, <1>6

(* The next two characters paired: a substitution, if they differ. *)
LEMMA PairAdd ==
  ASSUME NEW ocr, NEW gt, NEW i \in Nat, NEW j \in Nat, NEW m \in Pairings(i, j),
         NEW n, n = m \cup {<<i + 1, j + 1>>}
  PROVE  /\ n \in Pairings(i + 1, j + 1)
         /\ ocr[i + 1] = gt[j + 1] => CostOf(ocr, gt, i + 1, j + 1, n) = CostOf(ocr, gt, i, j, m)
         /\ ocr[i + 1] # gt[j + 1] => CostOf(ocr, gt, i + 1, j + 1, n) = CostOf(ocr, gt, i, j, m) + 1
<1>1. PICK e : e = <<i + 1, j + 1>> /\ e[1] = i + 1 /\ e[2] = j + 1
  <2>1. <<i + 1, j + 1>>[1] = i + 1 /\ <<i + 1, j + 1>>[2] = j + 1
    OBVIOUS
  <2>. QED BY <2>1
<1>2. n = m \cup {e}
  BY <1>1
<1>3. /\ InOrder(m)
      /\ \A p \in m : p \in (1..i) \X (1..j)
  BY DEF Pairings
<1>4. \A p \in m : /\ p[1] \in 1..i /\ p[2] \in 1..j /\ p \in (1..i+1) \X (1..j+1)
                   /\ p[1] < e[1] /\ p[2] < e[2]
  BY <1>1, <1>3
<1>5. e \notin m
  BY <1>1, <1>4
<1>6. e \in (1..i+1) \X (1..j+1)
  BY <1>1
<1>7. InOrder(n)
  <2>1. ASSUME NEW p \in n, NEW q \in n, p # q
        PROVE  \/ p[1] < q[1] /\ p[2] < q[2]
               \/ p[1] > q[1] /\ p[2] > q[2]
    <3>1. CASE p \in m /\ q \in m
      BY <1>3, <2>1, <3>1 DEF InOrder
    <3>2. CASE p \in m /\ q = e
      BY <1>4, <3>2
    <3>3. CASE p = e /\ q \in m
      <4>1. q[1] < e[1] /\ q[2] < e[2] /\ q[1] \in Int /\ q[2] \in Int /\ e[1] \in Int /\ e[2] \in Int
        BY <1>1, <1>4, <3>3
      <4>. QED BY <3>3, <4>1
    <3>. QED BY <1>2, <2>1, <3>1, <3>2, <3>3
  <2>. QED BY <2>1 DEF InOrder
<1>8. n \in Pairings(i + 1, j + 1)
  BY <1>2, <1>4, <1>6, <1>7 DEF Pairings
<1>9. IsFiniteSet(m) /\ IsFiniteSet(Wrong(ocr, gt, m))
  BY PairingIs
<1>10. PICK c \in Nat : c = Cardinality(m)
  BY PairingIs
<1>11. PICK w \in Nat : w = Cardinality(Wrong(ocr, gt, m))
  BY PairingIs
<1>12. Cardinality(n) = c + 1
  BY <1>2, <1>5, <1>9, <1>10, FS_AddElement
<1>13. CASE ocr[i + 1] = gt[j + 1]
  <2>1. Wrong(ocr, gt, n) = Wrong(ocr, gt, m)
    BY <1>1, <1>2, <1>13 DEF Wrong
  <2>2. ((i + 1) - (c + 1)) + ((j + 1) - (c + 1)) + w = (i - c) + (j - c) + w
    OBVIOUS
  <2>3. CostOf(ocr, gt, i + 1, j + 1, n) = CostOf(ocr, gt, i, j, m)
    BY <1>10, <1>11, <1>12, <2>1, <2>2 DEF CostOf
  <2>. QED BY <1>1, <1>2, <1>8, <1>13, <2>3
<1>14. CASE ocr[i + 1] # gt[j + 1]
  <2>1. Wrong(ocr, gt, n) = Wrong(ocr, gt, m) \cup {e} /\ e \notin Wrong(ocr, gt, m)
    BY <1>1, <1>2, <1>5, <1>14 DEF Wrong
  <2>2. Cardinality(Wrong(ocr, gt, n)) = w + 1
    BY <1>9, <1>11, <2>1, FS_AddElement
  <2>3. ((i + 1) - (c + 1)) + ((j + 1) - (c + 1)) + (w + 1) = ((i - c) + (j - c) + w) + 1
    OBVIOUS
  <2>4. CostOf(ocr, gt, i + 1, j + 1, n) = CostOf(ocr, gt, i, j, m) + 1
    BY <1>10, <1>11, <1>12, <2>2, <2>3 DEF CostOf
  <2>. QED BY <1>1, <1>2, <1>8, <1>14, <2>4
<1>. QED BY <1>13, <1>14

(* In a pairing in order the last two characters are paired, or one of     *)
(* them is not paired at all.                                              *)
LEMMA PairLast ==
  ASSUME NEW i \in Nat, NEW j \in Nat, NEW m \in Pairings(i + 1, j + 1)
  PROVE  \/ m \in Pairings(i, j + 1)
         \/ m \in Pairings(i + 1, j)
         \/ \E k \in Pairings(i, j) : m = k \cup {<<i + 1, j + 1>>}
<1>1. PICK e : e = <<i + 1, j + 1>> /\ e[1] = i + 1 /\ e[2] = j + 1
  <2>1. <<i + 1, j + 1>>[1] = i + 1 /\ <<i + 1, j + 1>>[2] = j + 1
    OBVIOUS
  <2>. QED BY <2>1
<1>2. InOrder(m) /\ \A p \in m : /\ p[1] \in 1..i+1 /\ p[2] \in 1..j+1 /\ p = <<p[1], p[2]>>
  BY DEF Pairings
<1>3. ASSUME NEW a \in Nat, NEW b \in Nat, NEW n \in SUBSET m, \A p \in n : p[1] <= a /\ p[2] <= b
      PROVE  n \in Pairings(a, b)
  <2>1. InOrder(n)
    BY <1>2 DEF InOrder
  <2>2. \A p \in n : p \in (1..a) \X (1..b)
    <3>1. ASSUME NEW p \in n
          PROVE  p \in (1..a) \X (1..b)
      <4>1. p[1] \in 1..a /\ p[2] \in 1..b /\ p = <<p[1], p[2]>>
        BY <1>2, <1>3
      <4>. QED BY <4>1
    <3>. QED BY <3>1
  <2>. QED BY <2>1, <2>2 DEF Pairings
<1>4. CASE e \in m
  <2>1. PICK k \in SUBSET m : k = m \ {e}
    OBVIOUS
  <2>2. ASSUME NEW p \in k
        PROVE  p[1] <= i /\ p[2] <= j
    <3>1. \/ p[1] < e[1] /\ p[2] < e[2]
          \/ p[1] > e[1] /\ p[2] > e[2]
      BY <1>2, <1>4, <2>1 DEF InOrder
    <3>2. p[1] \in 1..i+1 /\ p[2] \in 1..j+1
      BY <1>2, <2>1
    <3>. QED BY <1>1, <3>1, <3>2
  <2>3. k \in Pairings(i, j)
    BY <1>3, <2>2
  <2>4. m = k \cup {e}
    BY <1>4, <2>1
  <2>. QED BY <1>1, <2>3, <2>4
<1>5. CASE e \notin m
  <2>1. ASSUME NEW p \in m, p[1] = i + 1, NEW q \in m, q[2] = j + 1
        PROVE  FALSE
    <3>1. p[2] \in 1..j+1 /\ q[1] \in 1..i+1 /\ p = <<p[1], p[2]>> /\ q = <<q[1], q[2]>>
      BY <1>2
    <3>2. p[2] # j + 1 /\ q[1] # i + 1
      BY <1>1, <1>5, <2>1, <3>1
    <3>3. p # q
      BY <2>1, <3>2
    <3>4. \/ p[1] < q[1] /\ p[2] < q[2]
          \/ p[1] > q[1] /\ p[2] > q[2]
      BY <1>2, <3>3 DEF InOrder
    <3>. QED BY <2>1, <3>1, <3>2, <3>4
  <2>2. CASE \A p \in m : p[1] # i + 1
    <3>1. \A p \in m : p[1] <= i /\ p[2] <= j + 1
      BY <1>2, <2>2
    <3>. QED BY <1>3, <3>1
  <2>3. CASE \A p \in m : p[2] # j + 1
    <3>1. \A p \in m : p[1] <= i + 1 /\ p[2] <= j
      BY <1>2, <2>3
    <3>. QED BY <1>3, <3>1
  <2>. QED BY <2>1, <2>2, <2>3
<1>. QED BY <1>4, <1>5

\* An entry of the table is the cost of a cheapest pairing.
Cheapest(l, ocr, gt, i, j) ==
  /\ \A m \in Pairings(i, j) : l[<<i, j>>] <= CostOf(ocr, gt, i, j, m)
  /\ \E m \in Pairings(i, j) : l[<<i, j>>] = CostOf(ocr, gt, i, j, m)

(* An entry is the least cost, if its neighbours are. *)
LEMMA CheapestStep ==
  ASSUME NEW ocr, NEW gt, Len(ocr) \in Nat, Len(gt) \in Nat, NEW l, l = Table(ocr, gt),
         NEW i \in Nat, NEW j \in Nat, i + 1 \in 0..Len(ocr), j + 1 \in 0..Len(gt),
         Cheapest(l, ocr, gt, i, j), Cheapest(l, ocr, gt, i + 1, j), Cheapest(l, ocr, gt, i, j + 1)
  PROVE  Cheapest(l, ocr, gt, i + 1, j + 1)
<1>1. PICK x : x = i + 1 /\ x - 1 = i /\ x \in 1..Len(ocr) /\ x \in 0..Len(ocr) /\ x - 1 \in 0..Len(ocr)
  OBVIOUS
<1>2. PICK y : y = j + 1 /\ y - 1 = j /\ y \in 1..Len(gt) /\ y \in 0..Len(gt) /\ y - 1 \in 0..Len(gt)
  OBVIOUS
<1>3. \A h \in 0..Len(ocr), k \in 0..Len(gt) : l[<<h, k>>] \in Nat
  BY TableType
<1>4. PICK a \in Nat : a = l[<<i, j>>]
  BY <1>1, <1>2, <1>3
<1>5. PICK b \in Nat : b = l[<<i, j + 1>>]
  BY <1>1, <1>2, <1>3
<1>6. PICK c \in Nat : c = l[<<i + 1, j>>]
  BY <1>1, <1>2, <1>3
<1>7. PICK d \in Nat : d = l[<<i + 1, j + 1>>]
  BY <1>1, <1>2, <1>3
<1>8. Best(ocr[x] = gt[y], l[<<x, y>>], l[<<x-1, y-1>>], l[<<x-1, y>>], l[<<x, y-1>>])
  BY <1>1, <1>2, TableStep
<1>9. /\ ocr[i + 1] = gt[j + 1] => d = a
      /\ ocr[i + 1] # gt[j + 1] => d <= a + 1 /\ (d = a + 1 \/ d = b + 1 \/ d = c + 1)
  BY <1>1, <1>2, <1>4, <1>5, <1>6, <1>7, <1>8 DEF Best
<1>10. d <= b + 1 /\ d <= c + 1
  <2>1. Near(l, x, y)
    BY <1>1, <1>2, TableNear
  <2>2. x > 0 /\ y > 0
    BY <1>1, <1>2
  <2>. QED BY <1>1, <1>2, <1>5, <1>6, <1>7, <2>1, <2>2 DEF Near
<1>12. ASSUME NEW m \in Pairings(i + 1, j + 1)
       PROVE  d <= CostOf(ocr, gt, i + 1, j + 1, m)
  <2>1. CASE m \in Pairings(i, j + 1)
    <3>1. PICK z \in Int : z = CostOf(ocr, gt, i, j + 1, m)
      BY <2>1, PairingIs
    <3>2. CostOf(ocr, gt, i + 1, j + 1, m) = z + 1
      BY <2>1, <3>1, PairSkip
    <3>3. b <= z
      BY <1>5, <2>1, <3>1 DEF Cheapest
    <3>. QED BY <1>10, <3>2, <3>3
  <2>2. CASE m \in Pairings(i + 1, j)
    <3>1. PICK z \in Int : z = CostOf(ocr, gt, i + 1, j, m)
      BY <2>2, PairingIs
    <3>2. CostOf(ocr, gt, i + 1, j + 1, m) = z + 1
      BY <2>2, <3>1, PairSkip
    <3>3. c <= z
      BY <1>6, <2>2, <3>1 DEF Cheapest
    <3>. QED BY <1>10, <3>2, <3>3
  <2>3. ASSUME NEW k \in Pairings(i, j), m = k \cup {<<i + 1, j + 1>>}
        PROVE  d <= CostOf(ocr, gt, i + 1, j + 1, m)
    <3>1. PICK z \in Int : z = CostOf(ocr, gt, i, j, k)
      BY PairingIs
    <3>3. a <= z
      BY <1>4, <3>1 DEF Cheapest
    <3>4. CASE ocr[i + 1] = gt[j + 1]
      <4>1. CostOf(ocr, gt, i + 1, j + 1, m) = z
        BY <2>3, <3>1, <3>4, PairAdd
      <4>. QED BY <1>9, <3>3, <3>4, <4>1
    <3>5. CASE ocr[i + 1] # gt[j + 1]
      <4>1. CostOf(ocr, gt, i + 1, j + 1, m) = z + 1
        BY <2>3, <3>1, <3>5, PairAdd
      <4>. QED BY <1>9, <3>3, <3>5, <4>1
    <3>. QED BY <3>4, <3>5
  <2>. QED BY <2>1, <2>2, <2>3, PairLast
<1>13. \E m \in Pairings(i + 1, j + 1) : d = CostOf(ocr, gt, i + 1, j + 1, m)
  <2>1. CASE ocr[i + 1] = gt[j + 1] \/ d = a + 1
    <3>1. PICK m \in Pairings(i, j) : a = CostOf(ocr, gt, i, j, m)
      BY <1>4 DEF Cheapest
    <3>2. PICK n : n = m \cup {<<i + 1, j + 1>>}
      OBVIOUS
    <3>3. n \in Pairings(i + 1, j + 1)
      BY <3>2, PairAdd
    <3>4. PICK z \in Int : z = CostOf(ocr, gt, i, j, m) /\ z = a
      BY <3>1
    <3>5. CostOf(ocr, gt, i + 1, j + 1, n) = d
      <4>1. CASE ocr[i + 1] = gt[j + 1]
        <5>1. CostOf(ocr, gt, i + 1, j + 1, n) = CostOf(ocr, gt, i, j, m)
          BY <3>1, <3>2, <4>1, PairAdd
        <5>. QED BY <1>9, <3>2, <3>4, <4>1, <5>1
      <4>2. CASE ocr[i + 1] # gt[j + 1]
        <5>1. CostOf(ocr, gt, i + 1, j + 1, n) = CostOf(ocr, gt, i, j, m) + 1
          BY <3>1, <3>2, <4>2, PairAdd
        <5>. QED BY <2>1, <3>2, <3>4, <4>2, <5>1
      <4>. QED BY <4>1, <4>2
    <3>. QED BY <3>3, <3>5
  <2>2. CASE d = b + 1
    <3>1. PICK m \in Pairings(i, j + 1) : b = CostOf(ocr, gt, i, j + 1, m)
      BY <1>5 DEF Cheapest
    <3>2. m \in Pairings(i + 1, j + 1) /\ CostOf(ocr, gt, i + 1, j + 1, m) = b + 1
      BY <3>1, PairSkip
    <3>. QED BY <2>2, <3>2
  <2>3. CASE d = c + 1
    <3>1. PICK m \in Pairings(i + 1, j) : c = CostOf(ocr, gt, i + 1, j, m)
      BY <1>6 DEF Cheapest
    <3>2. m \in Pairings(i + 1, j + 1) /\ CostOf(ocr, gt, i + 1, j + 1, m) = c + 1
      BY <3>1, PairSkip
    <3>. QED BY <2>3, <3>2
  <2>. QED BY <1>9, <2>1, <2>2, <2>3
<1>. QED BY <1>7, <1>12, <1>13 DEF Cheapest


(* Every entry is the least cost of the pairings of its prefixes. *)
LEMMA TableCheapest ==
  ASSUME NEW ocr, NEW gt, Len(ocr) \in Nat, Len(gt) \in Nat,
         NEW i \in 0..Len(ocr), NEW j \in 0..Len(gt)
  PROVE  Cheapest(Table(ocr, gt), ocr, gt, i, j)
<1>1. PICK l : l = Table(ocr, gt)
  OBVIOUS
<1>. DEFINE A == {p \in Cells(ocr, gt) : Cheapest(l, ocr, gt, p[1], p[2])}
<1>2. \A h \in 0..Len(ocr), k \in 0..Len(gt) : <<h, k>> \in A <=> Cheapest(l, ocr, gt, h, k)
  BY CellsAre
<1>3. A \in SUBSET Cells(ocr, gt)
  OBVIOUS
<1>. HIDE DEF A
<1>4. ASSUME NEW h \in 0..Len(ocr), NEW k \in 0..Len(gt),
             h > 0 => <<h-1, k>> \in A,
             k > 0 => <<h, k-1>> \in A,
             h > 0 /\ k > 0 => <<h-1, k-1>> \in A
      PROVE  <<h, k>> \in A
  <2>1. h \in Nat /\ k \in Nat
    OBVIOUS
  <2>2. CASE h = 0 \/ k = 0
    <3>1. l[<<h, k>>] = h + k
      BY <1>1, <2>2, TableEdge
    <3>2. Pairings(h, k) = {{}} /\ CostOf(ocr, gt, h, k, {}) = h + k
      <4>1. Pairings(h, k) = {{}}
        BY <2>1, <2>2, NoPairs
      <4>2. PICK m : m = {}
        OBVIOUS
      <4>3. CostOf(ocr, gt, h, k, m) = h + k
        BY <2>1, <4>2, CostOfNone
      <4>. QED BY <4>1, <4>2, <4>3
    <3>3. Cheapest(l, ocr, gt, h, k)
      BY <2>1, <3>1, <3>2 DEF Cheapest
    <3>. QED BY <1>2, <3>3
  <2>3. CASE h > 0 /\ k > 0
    <3>1. PICK x \in Nat : h = x + 1 /\ x = h - 1 /\ x \in 0..Len(ocr)
      <4>1. h - 1 \in Nat /\ h = (h - 1) + 1 /\ h - 1 \in 0..Len(ocr)
        BY <2>3
      <4>. QED BY <4>1
    <3>2. PICK y \in Nat : k = y + 1 /\ y = k - 1 /\ y \in 0..Len(gt)
      <4>1. k - 1 \in Nat /\ k = (k - 1) + 1 /\ k - 1 \in 0..Len(gt)
        BY <2>3
      <4>. QED BY <4>1
    <3>3. Cheapest(l, ocr, gt, x, y) /\ Cheapest(l, ocr, gt, x + 1, y) /\ Cheapest(l, ocr, gt, x, y + 1)
      BY <1>2, <1>4, <2>3, <3>1, <3>2
    <3>4. Cheapest(l, ocr, gt, x + 1, y + 1)
      BY <1>1, <3>1, <3>2, <3>3, CheapestStep
    <3>. QED BY <1>2, <3>1, <3>2, <3>4
  <2>. QED BY <2>2, <2>3
<1>5. A = Cells(ocr, gt)
  BY <1>3, <1>4, CellInduction
<1>6. Cheapest(l, ocr, gt, i, j)
  BY <1>2, <1>5, CellsAre
<1>. QED BY <1>1, <1>6

(* What operator() returns is the distance of the two strings. *)
LEMMA LevIsDistance ==
  ASSUME NEW S, NEW ocr \in Seq(S), NEW gt \in Seq(S)
  PROVE  Lev(ocr, gt) = EditDistance(ocr, gt)
<1>1. PICK i \in Nat : i = Len(ocr) /\ i \in 0..Len(ocr) /\ DOMAIN ocr = 1..i
  OBVIOUS
<1>2. PICK j \in Nat : j = Len(gt) /\ j \in 0..Len(gt) /\ DOMAIN gt = 1..j
  OBVIOUS
<1>3. PICK l : l = Table(ocr, gt)
  OBVIOUS
<1>4. PICK d \in Nat : d = l[<<i, j>>]
  BY <1>1, <1>2, <1>3, TableType
<1>5. Cheapest(l, ocr, gt, i, j)
  BY <1>1, <1>2, <1>3, TableCheapest
<1>6. \A m : PairingCost(ocr, gt, m) = CostOf(ocr, gt, i, j, m)
  BY <1>1, <1>2 DEF PairingCost, CostOf, Wrong
<1>7. EditDistance(ocr, gt) = Min({PairingCost(ocr, gt, m) : m \in Pairings(i, j)})
  BY <1>1, <1>2 DEF EditDistance, Pairings
<1>8. PICK T : T = {PairingCost(ocr, gt, m) : m \in Pairings(i, j)}
  OBVIOUS
<1>9. /\ \A m \in Pairings(i, j) : d <= PairingCost(ocr, gt, m) /\ PairingCost(ocr, gt, m) \in Int
      /\ \E m \in Pairings(i, j) : d = PairingCost(ocr, gt, m)
  BY <1>4, <1>5, <1>6, PairingIs DEF Cheapest
<1>10. T \in SUBSET Nat /\ d \in T /\ \A c \in T : d <= c
  BY <1>8, <1>9
<1>11. Min(T) \in T /\ Min(T) \in Nat /\ \A c \in T : Min(T) <= c
  BY <1>10, MinOf
<1>12. Min(T) = d
  BY <1>10, <1>11
<1>. QED BY <1>1, <1>2, <1>3, <1>4, <1>7, <1>8, <1>12 DEF Lev

\* What a step of the backtracking costs.
Costs(l, op, i, j) ==
  /\ op = "Del" /\ j > 0 => l[<<i, j>>] = l[<<i, j-1>>] + 1
  /\ op = "Ins" /\ i > 0 => l[<<i, j>>] = l[<<i-1, j>>] + 1
  /\ op = "Nop" /\ i > 0 /\ j > 0 => l[<<i, j>>] = l[<<i-1, j-1>>]
  /\ op = "Sub" /\ i > 0 /\ j > 0 => l[<<i, j>>] = l[<<i-1, j-1>>] + 1

(* What the chosen move adds is the difference of the entries. *)
LEMMA MoveCost ==
  ASSUME NEW ocr, NEW gt, Len(ocr) \in Nat, Len(gt) \in Nat, NEW l, l = Table(ocr, gt),
         NEW i \in 0..Len(ocr), NEW j \in 0..Len(gt)
  PROVE  Costs(l, Move(ocr, gt, i, j), i, j)
<1>1. \A h \in 0..Len(ocr), k \in 0..Len(gt) : l[<<h, k>>] \in Nat
  BY TableType
<1>2. CASE i = 0
  <2>1. Move(ocr, gt, i, j) = "Del"
    BY <1>2 DEF Move, Choice
  <2>2. j > 0 => l[<<i, j>>] = i + j /\ l[<<i, j-1>>] = i + (j-1)
    BY <1>2, TableEdge
  <2>. QED BY <1>2, <2>1, <2>2 DEF Costs
<1>3. CASE i > 0 /\ j = 0
  <2>1. Move(ocr, gt, i, j) = "Ins"
    BY <1>3 DEF Move, Choice
  <2>2. i-1 \in 0..Len(ocr) /\ j \in 0..Len(gt)
    BY <1>3
  <2>3. l[<<i, j>>] = i + j /\ l[<<i-1, j>>] = (i-1) + j
    BY <1>3, <2>2, TableEdge
  <2>. QED BY <1>3, <2>1, <2>3 DEF Costs
<1>4. CASE i > 0 /\ j > 0
  <2>1. i-1 \in 0..Len(ocr) /\ j-1 \in 0..Len(gt) /\ i \in 1..Len(ocr) /\ j \in 1..Len(gt)
    BY <1>4
  <2>2. PICK a \in Nat : a = l[<<i-1, j-1>>]
    BY <1>1, <2>1
  <2>3. PICK b \in Nat : b = l[<<i-1, j>>]
    BY <1>1, <2>1
  <2>4. PICK c \in Nat : c = l[<<i, j-1>>]
    BY <1>1, <2>1
  <2>5. PICK d \in Nat : d = l[<<i, j>>]
    BY <1>1
  <2>6. PICK k \in Nat : k = Min({a, c, b}) /\ k \in {a, b, c} /\ k <= a /\ k <= b /\ k <= c
    <3>1. PICK S \in SUBSET Nat : S = {a, c, b} /\ S # {}
      OBVIOUS
    <3>2. Min(S) \in S /\ Min(S) \in Nat /\ \A h \in S : Min(S) <= h
      BY <3>1, MinOf
    <3>. QED BY <3>1, <3>2
  <2>7. Choice(l, i, j) = IF a = k THEN IF a = d THEN "Nop" ELSE "Sub"
                          ELSE IF c = k THEN "Del" ELSE "Ins"
    BY <1>4, <2>2, <2>3, <2>4, <2>5, <2>6 DEF Choice
  <2>8. Best(ocr[i] = gt[j], l[<<i, j>>], l[<<i-1, j-1>>], l[<<i-1, j>>], l[<<i, j-1>>])
    BY <2>1, TableStep
  <2>9. d = a \/ (d <= a + 1 /\ d <= b + 1 /\ d <= c + 1 /\ (d = a + 1 \/ d = b + 1 \/ d = c + 1))
    BY <2>2, <2>3, <2>4, <2>5, <2>8 DEF Best
  <2>10. Near(l, i, j) /\ Near(l, i, j-1) /\ Near(l, i-1, j)
    BY <2>1, TableNear
  <2>11. d <= b + 1 /\ d <= c + 1
    BY <1>4, <2>3, <2>4, <2>5, <2>10 DEF Near
  <2>12. Choice(l, i, j) = "Del" => d = c + 1
    BY <2>6, <2>7, <2>9, <2>11
  <2>13. Choice(l, i, j) = "Ins" => d = b + 1
    BY <2>6, <2>7, <2>9, <2>11
  <2>14. Choice(l, i, j) = "Nop" => d = a
    BY <2>7
  <2>15. Choice(l, i, j) = "Sub" => d = a + 1
    BY <2>6, <2>7, <2>9, <2>11
  <2>. QED BY <2>2, <2>3, <2>4, <2>5, <2>12, <2>13, <2>14, <2>15 DEF Move, Costs
<1>. QED BY <1>2, <1>3, <1>4

LEMMA CostEmpty == ScriptCost(<<>>) = 0
<1>1. {k \in DOMAIN <<>> : <<>>[k].op # "Nop"} = {}
  OBVIOUS
<1>. QED BY <1>1, FS_EmptySet DEF ScriptCost

(* The cost of a script that is one operation longer. *)
LEMMA CostAdd ==
  ASSUME NEW s \in Seq(Op), NEW e \in Op
  PROVE  /\ e.op = "Nop" => ScriptCost(Add(s, e)) = ScriptCost(s)
         /\ e.op # "Nop" => ScriptCost(Add(s, e)) = ScriptCost(s) + 1
<1>1. PICK t : t = Add(s, e)
  OBVIOUS
<1>2. PICK n \in Nat : n = Len(s) /\ DOMAIN s = 1..n
  OBVIOUS
<1>3. t \in Seq(Op) /\ Len(t) = n + 1 /\ t[n + 1] = e
  <2>1. Add(s, e) \in Seq(Op) /\ Len(Add(s, e)) = Len(s) + 1 /\ Add(s, e)[Len(s) + 1] = e
    BY AddIs
  <2>. QED BY <1>1, <1>2, <2>1
<1>4. \A i \in 1..n : t[i] = s[i]
  <2>1. \A i \in 1..Len(s) : Add(s, e)[i] = s[i]
    BY AddIs
  <2>. QED BY <1>1, <1>2, <2>1
<1>5. DOMAIN t = 1..n+1 /\ n + 1 \notin 1..n
  BY <1>3
<1>6. PICK A : A = {k \in DOMAIN s : s[k].op # "Nop"}
  OBVIOUS
<1>7. PICK B : B = {k \in DOMAIN t : t[k].op # "Nop"}
  OBVIOUS
<1>8. IsFiniteSet(A) /\ n + 1 \notin A
  <2>1. IsFiniteSet(1..n)
    BY FS_Interval
  <2>. QED BY <1>2, <1>5, <1>6, <2>1, FS_Subset
<1>9. ScriptCost(s) = Cardinality(A) /\ ScriptCost(t) = Cardinality(B)
  BY <1>6, <1>7 DEF ScriptCost
<1>10. CASE e.op = "Nop"
  <2>1. B = A
    BY <1>2, <1>3, <1>4, <1>5, <1>6, <1>7, <1>10
  <2>. QED BY <1>1, <1>9, <1>10, <2>1
<1>11. CASE e.op # "Nop"
  <2>1. B = A \cup {n + 1}
    BY <1>2, <1>3, <1>4, <1>5, <1>6, <1>7, <1>11
  <2>2. Cardinality(B) = Cardinality(A) + 1
    BY <1>8, <2>1, FS_AddElement
  <2>. QED BY <1>1, <1>9, <1>11, <2>2
<1>. QED BY <1>10, <1>11

(* The script costs what the table says. *)
LEMMA CostIsEntry ==
  ASSUME NEW ocr, NEW gt \in Seq(Nat), Len(ocr) \in Nat,
         NEW i \in 0..Len(ocr), NEW j \in 0..Len(gt)
  PROVE  ScriptCost(Back(ocr, gt)[<<i, j>>]) = Table(ocr, gt)[<<i, j>>]
<1>0. Len(gt) \in Nat
  OBVIOUS
<1>1. PICK l : l = Table(ocr, gt)
  OBVIOUS
<1>2. PICK b : b = Back(ocr, gt)
  OBVIOUS
<1>. DEFINE A == {p \in Cells(ocr, gt) : ScriptCost(b[p]) = l[p]}
<1>3. \A h \in 0..Len(ocr), k \in 0..Len(gt) : <<h, k>> \in A <=> ScriptCost(b[<<h, k>>]) = l[<<h, k>>]
  BY <1>0, CellsAre
<1>4. A \in SUBSET Cells(ocr, gt)
  OBVIOUS
<1>. HIDE DEF A
<1>5. ASSUME NEW h \in 0..Len(ocr), NEW k \in 0..Len(gt),
             h > 0 => <<h-1, k>> \in A,
             k > 0 => <<h, k-1>> \in A,
             h > 0 /\ k > 0 => <<h-1, k-1>> \in A
      PROVE  <<h, k>> \in A
  <2>1. (h > 0 => h-1 \in 0..Len(ocr)) /\ (k > 0 => k-1 \in 0..Len(gt) /\ gt[k] \in Nat)
    OBVIOUS
  <2>2. \A x \in 0..Len(ocr), y \in 0..Len(gt) : b[<<x, y>>] \in Seq(Op)
    BY <1>2, BackType
  <2>3. Extends(b, ocr, gt, h, k)
    BY <1>0, <1>2, BackStep
  <2>4. SUFFICES ScriptCost(b[<<h, k>>]) = l[<<h, k>>]
    BY <1>3
  <2>10. Costs(l, Move(ocr, gt, h, k), h, k)
    BY <1>0, <1>1, MoveCost
  <2>5. CASE h = 0 /\ k = 0 /\ b[<<h, k>>] = <<>>
    <3>1. l[<<h, k>>] = h + k
      BY <1>0, <1>1, <2>5, TableEdge
    <3>. QED BY <2>5, <3>1, CostEmpty
  <2>6. CASE /\ k > 0 /\ Move(ocr, gt, h, k) = "Del"
             /\ b[<<h, k>>] = Add(b[<<h, k-1>>], [op |-> "Del", c |-> gt[k]])
    <3>1. PICK s \in Seq(Op) : s = b[<<h, k-1>>]
      BY <2>1, <2>2, <2>6
    <3>2. PICK e \in Op : e = [op |-> "Del", c |-> gt[k]] /\ e.op = "Del"
      BY <2>1, <2>6 DEF Op
    <3>3. ScriptCost(Add(s, e)) = ScriptCost(s) + 1
      BY <3>2, CostAdd
    <3>4. ScriptCost(s) = l[<<h, k-1>>]
      BY <1>3, <1>5, <2>1, <2>6, <3>1
    <3>5. l[<<h, k>>] = l[<<h, k-1>>] + 1
      BY <2>6, <2>10 DEF Costs
    <3>. QED BY <2>6, <3>1, <3>2, <3>3, <3>4, <3>5
  <2>7. CASE /\ h > 0 /\ Move(ocr, gt, h, k) = "Ins"
             /\ b[<<h, k>>] = Add(b[<<h-1, k>>], [op |-> "Ins", c |-> 0])
    <3>1. PICK s \in Seq(Op) : s = b[<<h-1, k>>]
      BY <2>1, <2>2, <2>7
    <3>2. PICK e \in Op : e = [op |-> "Ins", c |-> 0] /\ e.op = "Ins"
      <4>1. [op |-> "Ins", c |-> 0] \in Op
        BY DEF Op
      <4>. QED BY <4>1
    <3>3. ScriptCost(Add(s, e)) = ScriptCost(s) + 1
      BY <3>2, CostAdd
    <3>4. ScriptCost(s) = l[<<h-1, k>>]
      BY <1>3, <1>5, <2>1, <2>7, <3>1
    <3>5. l[<<h, k>>] = l[<<h-1, k>>] + 1
      BY <2>7, <2>10 DEF Costs
    <3>. QED BY <2>7, <3>1, <3>2, <3>3, <3>4, <3>5
  <2>8. CASE /\ h > 0 /\ k > 0 /\ Move(ocr, gt, h, k) = "Nop"
             /\ b[<<h, k>>] = Add(b[<<h-1, k-1>>], [op |-> "Nop", c |-> gt[k]])
    <3>1. PICK s \in Seq(Op) : s = b[<<h-1, k-1>>]
      BY <2>1, <2>2, <2>8
    <3>2. PICK e \in Op : e = [op |-> "Nop", c |-> gt[k]] /\ e.op = "Nop"
      BY <2>1, <2>8 DEF Op
    <3>3. ScriptCost(Add(s, e)) = ScriptCost(s)
      BY <3>2, CostAdd
    <3>4. ScriptCost(s) = l[<<h-1, k-1>>]
      BY <1>3, <1>5, <2>1, <2>8, <3>1
    <3>5. l[<<h, k>>] = l[<<h-1, k-1>>]
      BY <2>8, <2>10 DEF Costs
    <3>. QED BY <2>8, <3>1, <3>2, <3>3, <3>4, <3>5
  <2>9. CASE /\ h > 0 /\ k > 0 /\ Move(ocr, gt, h, k) = "Sub"
             /\ b[<<h, k>>] = Add(b[<<h-1, k-1>>], [op |-> "Sub", c |-> gt[k]])
    <3>1. PICK s \in Seq(Op) : s = b[<<h-1, k-1>>]
      BY <2>1, <2>2, <2>9
    <3>2. PICK e \in Op : e = [op |-> "Sub", c |-> gt[k]] /\ e.op = "Sub"
      BY <2>1, <2>9 DEF Op
    <3>3. ScriptCost(Add(s, e)) = ScriptCost(s) + 1
      BY <3>2, CostAdd
    <3>4. ScriptCost(s) = l[<<h-1, k-1>>]
      BY <1>3, <1>5, <2>1, <2>9, <3>1
    <3>5. l[<<h, k>>] = l[<<h-1, k-1>>] + 1
      BY <2>9, <2>10 DEF Costs
    <3>. QED BY <2>9, <3>1, <3>2, <3>3, <3>4, <3>5
  <2>. QED BY <2>3, <2>5, <2>6, <2>7, <2>8, <2>9 DEF Extends
<1>6. A = Cells(ocr, gt)
  BY <1>0, <1>4, <1>5, CellInduction
<1>7. ScriptCost(b[<<i, j>>]) = l[<<i, j>>]
  BY <1>0, <1>3, <1>6, CellsAre
<1>. QED BY <1>1, <1>2, <1>7

(* The script that backtracking reads off the table is a cheapest way to   *)
(* turn the OCR result into the correction, and operator() returns its     *)
(* cost.                                                                   *)
THEOREM ScriptsAreMinimal == Spec => []ScriptIsMinimal
<1>1. FromOcr => ScriptIsMinimal
  <2>1. SUFFICES ASSUME FromOcr, NEW gt \in Text, NEW ocr, ocr = Wocr(line)
                 PROVE  /\ ScriptCost(Script(ocr, gt)) = Distances[ocr][gt]
                        /\ Lev(ocr, gt) = Distances[ocr][gt]
    BY DEF ScriptIsMinimal
  <2>2. ocr \in Ocr
    BY <2>1 DEF FromOcr
  <2>3. Distances[ocr][gt] = EditDistance(ocr, gt)
    BY <2>2 DEF Distances
  <2>4. ocr \in Seq(Nat) /\ gt \in Seq(Nat)
    <3>1. Letter \subseteq Nat
      BY LettersAre
    <3>2. ocr \in Seq(Letter) /\ gt \in Seq(Letter)
      BY <2>2, TextIs
    <3>. QED BY <3>1, <3>2, SeqMonotonic
  <2>5. Lev(ocr, gt) = EditDistance(ocr, gt)
    BY <2>4, LevIsDistance
  <2>6. Len(ocr) \in 0..Len(ocr) /\ Len(gt) \in 0..Len(gt) /\ Len(ocr) \in Nat
    BY <2>4
  <2>7. ScriptCost(Back(ocr, gt)[<<Len(ocr), Len(gt)>>]) = Table(ocr, gt)[<<Len(ocr), Len(gt)>>]
    BY <2>4, <2>6, CostIsEntry
  <2>8. ScriptCost(Script(ocr, gt)) = Lev(ocr, gt)
    BY <2>7 DEF Script, Lev
  <2>. QED BY <2>3, <2>5, <2>8
<1>. QED BY <1>1, FrameKept, PTL

=============================================================================
