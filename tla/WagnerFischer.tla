---------------------------- MODULE WagnerFischer ----------------------------
(***************************************************************************)
(* The alignment of an OCR result with a correction (core/WagnerFischer):  *)
(* the table of edit distances, and the script that backtracking reads off *)
(* it.  The names of the operations are those of the C++ enumeration: an   *)
(* Ins is a character the OCR should not have inserted, a Del one that it  *)
(* left out.                                                               *)
(***************************************************************************)
EXTENDS Integers, Sequences, FiniteSetsExt

\* The indices of l_.  (Functions of pairs and operators for what one cell
\* holds, rather than LETs: the proofs need both.)
Cells(ocr, gt) == (0..Len(ocr)) \X (0..Len(gt))

\* An entry, given its neighbours.
Entry(l, ocr, gt, i, j) ==
  CASE i = 0           -> j
    [] i > 0 /\ j = 0  -> i
    [] OTHER           -> IF ocr[i] = gt[j]
                          THEN l[<<i-1, j-1>>]
                          ELSE 1 + Min({l[<<i-1, j-1>>], l[<<i-1, j>>], l[<<i, j-1>>]})

(* The table l_; getMin gives the entries inside. *)
Table(ocr, gt) ==
  LET l[p \in Cells(ocr, gt)] == Entry(l, ocr, gt, p[1], p[2])
  IN  l

\* Mutants: Nop and Sub swapped; Del preferred to the diagonal.
ChoiceSwapped(l, i, j) ==
  LET least == Min({l[<<i-1, j-1>>], l[<<i, j-1>>], l[<<i-1, j>>]}) IN
  CASE i = 0                -> "Del"
    [] i > 0 /\ j = 0       -> "Ins"
    [] i > 0 /\ j > 0 /\ l[<<i-1, j-1>>] = least ->
         IF l[<<i-1, j-1>>] # l[<<i, j>>] THEN "Nop" ELSE "Sub"
    [] i > 0 /\ j > 0 /\ l[<<i-1, j-1>>] # least /\ l[<<i, j-1>>] = least -> "Del"
    [] OTHER                -> "Ins"

ChoiceGreedy(l, i, j) ==
  CASE i = 0 \/ (j > 0 /\ l[<<i, j-1>>] <= l[<<i-1, j-1>>]) -> "Del"
    [] j = 0                                        -> "Ins"
    [] OTHER -> IF l[<<i-1, j-1>>] = l[<<i, j>>] THEN "Nop" ELSE "Sub"

(* One step of the backtracking from <<i, j>>: the first minimum of the    *)
(* diagonal, the left and the upper neighbour.                             *)
Choice(l, i, j) ==
  LET least == Min({l[<<i-1, j-1>>], l[<<i, j-1>>], l[<<i-1, j>>]}) IN
  CASE i = 0                -> "Del"
    [] i > 0 /\ j = 0       -> "Ins"
    [] i > 0 /\ j > 0 /\ l[<<i-1, j-1>>] = least ->
         IF l[<<i-1, j-1>>] = l[<<i, j>>] THEN "Nop" ELSE "Sub"
    [] i > 0 /\ j > 0 /\ l[<<i-1, j-1>>] # least /\ l[<<i, j-1>>] = least -> "Del"
    [] OTHER                -> "Ins"

\* The script that ends in <<i, j>>, given the scripts of the neighbours.
Traced(back, l, gt, i, j) ==
  LET op == Choice(l, i, j) IN
  CASE i = 0 /\ j = 0 -> <<>>
    [] ~(i = 0 /\ j = 0) /\ op = "Del" -> Append(back[<<i, j-1>>], [op |-> op, c |-> gt[j]])
    [] ~(i = 0 /\ j = 0) /\ op = "Ins" -> Append(back[<<i-1, j>>], [op |-> op, c |-> 0])
    [] OTHER -> Append(back[<<i-1, j-1>>], [op |-> op, c |-> gt[j]])

Back(ocr, gt) ==
  LET l == Table(ocr, gt)
      back[p \in Cells(ocr, gt)] == Traced(back, l, gt, p[1], p[2])
  IN  back

(* The operations with the characters of gt_ they write, padded by '~'     *)
(* where the OCR has one too many (here 0).                                *)
Script(ocr, gt) == Back(ocr, gt)[<<Len(ocr), Len(gt)>>]

\* What operator() returns.
Lev(ocr, gt) == Table(ocr, gt)[<<Len(ocr), Len(gt)>>]

-----------------------------------------------------------------------------
(* The reference: the cheapest of all ways to pair characters of ocr with  *)
(* characters of gt in order.                                              *)

InOrder(pairs) ==
  \A p, q \in pairs : p # q => \/ p[1] < q[1] /\ p[2] < q[2]
                               \/ p[1] > q[1] /\ p[2] > q[2]

PairingCost(ocr, gt, pairs) ==
  (Len(ocr) - Cardinality(pairs)) + (Len(gt) - Cardinality(pairs))
    + Cardinality({p \in pairs : ocr[p[1]] # gt[p[2]]})

EditDistance(ocr, gt) ==
  Min({PairingCost(ocr, gt, pairs) :
         pairs \in {m \in SUBSET ((DOMAIN ocr) \X (DOMAIN gt)) : InOrder(m)}})

ScriptCost(script) == Cardinality({k \in DOMAIN script : script[k].op # "Nop"})

=============================================================================
