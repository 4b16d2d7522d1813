----------------------------- MODULE PageOrder -----------------------------
(***************************************************************************)
(* Numbers in their order: the lists the services make of the ids of a     *)
(* book's pages, or of a page's lines, and how src/services/pcwpkg/split.go *)
(* deals the pages of a book to its packages and links them.               *)
(***************************************************************************)
EXTENDS Integers, Sequences, FiniteSets

Orders(S) == {s \in [1..Cardinality(S) -> S] : \A i, j \in DOMAIN s : i # j => s[i] # s[j]}

Increasing(s) == \A i, j \in DOMAIN s : i < j => s[i] < s[j]

\* order by pageid asc, sort.Slice
Ascending(S) == CHOOSE s \in Orders(S) : Increasing(s)

PagesOf(s) == {s[i] : i \in DOMAIN s}

(* insertPageIDs, and insert_pages_into_project_pages of the book routes:  *)
(* the ends of the chain are their own neighbours.                         *)
Chain(s) ==
  [g \in PagesOf(s) |->
     LET i == CHOOSE i \in DOMAIN s : s[i] = g
     IN  [prev |-> IF i > 1 THEN s[i - 1] ELSE g,
          next |-> IF i + 1 <= Len(s) THEN s[i + 1] ELSE g]]

\* Mutant: the remainder is dropped.
DealtDown(total, n, i) == i * (total \div n)

\* Pages dealt to the first i of n packages: x of them get one more.
Dealt(total, n, i) ==
  LET d == total \div n
      x == total % n
  IN  i * d + (IF i < x THEN i ELSE x)

\* The i-th of n parts of the list.
Part(order, n, i) ==
  SubSeq(order, Dealt(Len(order), n, i - 1) + 1, Dealt(Len(order), n, i))

\* Mutant: a random share stays unsorted.
ShareUnsorted(order, n, i, random) == Part(order, n, i)

(* distribute: what the i-th package gets of the pages in this order. *)
Share(order, n, i, random) ==
  IF random THEN Ascending(PagesOf(Part(order, n, i))) ELSE Part(order, n, i)

=============================================================================
