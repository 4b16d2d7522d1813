------------------------- MODULE CorrectionRegister -------------------------
(***************************************************************************)
(* What the line routes promise: every line is a register, and a request   *)
(* reads, checks and rewrites it in one step.  Locks, connections, copies  *)
(* and failures are not part of the promise.                               *)
(***************************************************************************)
EXTENDS CorrectedLine

VARIABLE register   \* register[row] is the line clients see, or NoContent

Init == register \in [Row -> {Fresh(t) : t \in Text}]

(* A correction, a reset or an OCR update of the line as it is now; an     *)
(* automatic correction of a slot with manual corrections is refused.      *)
Post(q) ==
  /\ q.method = "POST"
  /\ register[RowOf(q)] # NoContent
  /\ ~Conflicting(q, register[RowOf(q)])
  /\ register' = [register EXCEPT ![RowOf(q)] = Edit(q, @)]

Delete(q) ==
  /\ q.method = "DELETE"
  /\ register' = [register EXCEPT ![RowOf(q)] = NoContent]

Next == \E q \in Request : Post(q) \/ Delete(q)

Spec == Init /\ [][Next]_register

=============================================================================
