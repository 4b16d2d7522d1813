------------------------ MODULE ConnectionPoolProofs ------------------------
(***************************************************************************)
(* Proofs about ConnectionPool, for any number of workers and connections. *)
(***************************************************************************)
EXTENDS ConnectionPool, TLAPS

(* Where a handler holds which connections. *)
HandlerInv ==
  \A w \in Worker :
    /\ mutex = w <=> pc[w] = "search"
    /\ pc[w] # "search" => at[w] = 1
    /\ pc[w] = "idle" => conn[w] = NoSlot
    /\ pc[w] \in {"work", "transaction"} => conn[w] # NoSlot
    /\ pc[w] \in {"idle", "want", "search", "refused", "transaction"} => inner[w] = NoSlot
    /\ pc[w] \in {"want", "search"} /\ conn[w] # NoSlot => kind[w] = "navigate"
    /\ inner[w] # NoSlot => kind[w] = "navigate"

(* Nobody but the holder of the mutex marks a connection, so that the      *)
(* connections it finds in use were in use when it began.                  *)
SearchInv ==
  \A w \in Worker :
    /\ pc[w] = "search" => Used \cup 1..at[w] - 1 \subseteq busy[w]
    /\ pc[w] = "refused" => busy[w] = Slot

(* An open transaction is one of a handler that is inside of it. *)
TransactionInv ==
  \A s \in tx : \E w \in Worker : pc[w] = "transaction" /\ conn[w] = s

-----------------------------------------------------------------------------
LEMMA InitTypes == Init => TypeOK /\ HandlerInv
  BY PoolAssumption DEF Init, TypeOK, HandlerInv, Slot, NoSlot, Kinds, Places

LEMMA StepTypes == TypeOK /\ HandlerInv /\ [Next]_vars => TypeOK' /\ HandlerInv'
<1> SUFFICES ASSUME TypeOK, HandlerInv, [Next]_vars PROVE TypeOK' /\ HandlerInv'
  OBVIOUS
<1> USE PoolAssumption DEF TypeOK, HandlerInv, Slot, NoSlot, Kinds, Places, Goto, Used, Done
<1>1. ASSUME NEW w \in Worker, Step(w) PROVE TypeOK' /\ HandlerInv'
  <2>1. CASE Lock(w)
    BY <2>1 DEF Lock
  <2>2. CASE Skip(w)
    BY <2>2 DEF Skip
  <2>3. CASE Take(w)
    <3>1. TypeOK'
      BY <2>3 DEF Take
    <3>2. HandlerInv'
      BY <2>3 DEF Take
    <3> QED BY <3>1, <3>2
  <2>4. CASE ConnectFails(w)
    BY <2>4 DEF ConnectFails
  <2>5. CASE Refuse(w)
    BY <2>5 DEF Refuse
  <2>6. CASE Navigate(w)
    BY <2>6 DEF Navigate
  <2>7. CASE StartTransaction(w)
    BY <2>7 DEF StartTransaction
  <2>8. CASE EndTransaction(w)
    BY <2>8 DEF EndTransaction
  <2>9. CASE Leave(w)
    BY <2>9 DEF Leave
  <2>10. CASE ReleaseInner(w)
    BY <2>10 DEF ReleaseInner
  <2>11. CASE Release(w)
    BY <2>11 DEF Release
  <2>12. CASE Answer(w)
    BY <2>12 DEF Answer
  <2> QED
    BY <1>1, <2>1, <2>2, <2>3, <2>4, <2>5, <2>6, <2>7, <2>8, <2>9, <2>10, <2>11, <2>12 DEF Step
<1>2. ASSUME NEW w \in Worker, NEW k \in Kinds, Request(w, k) PROVE TypeOK' /\ HandlerInv'
  BY <1>2 DEF Request
<1>3. CASE UNCHANGED vars
  BY <1>3 DEF vars
<1> QED
  BY <1>1, <1>2, <1>3 DEF Next

-----------------------------------------------------------------------------
LEMMA StepHeld == TypeOK /\ HandlerInv /\ HeldOnce /\ [Next]_vars => HeldOnce'
<1> SUFFICES ASSUME TypeOK, HandlerInv, HeldOnce, [Next]_vars PROVE HeldOnce'
  OBVIOUS
<1> USE PoolAssumption DEF TypeOK, HandlerInv, HeldOnce, Slot, NoSlot, Used
<1>1. ASSUME NEW w \in Worker, Take(w) PROVE HeldOnce'
  BY <1>1 DEF Take, Done, Goto, Holds
<1>2. ASSUME NEW w \in Worker, NEW s \in Slot, Holds(w, s),
             slot' = [slot EXCEPT ![s] = "free"],
             \A v \in Worker, t \in Slot : Holds(v, t)' <=> Holds(v, t) /\ t # s,
             \A v \in Worker : conn'[v] = inner'[v] => conn'[v] = NoSlot
      PROVE  HeldOnce'
  <2>1. \A t \in Slot : t \in Used' <=> t \in Used /\ t # s
    BY <1>2
  <2> QED
    BY <1>2, <2>1
<1>3. ASSUME NEW w \in Worker, ReleaseInner(w) \/ Release(w) PROVE HeldOnce'
  <2>1. CASE ReleaseInner(w)
    <3>1. \A v \in Worker, t \in Slot : Holds(v, t)' <=> Holds(v, t) /\ t # inner[w]
      BY <2>1 DEF ReleaseInner, Holds
    <3> QED
      BY <2>1, <3>1, <1>2 DEF ReleaseInner, Holds
  <2>2. CASE Release(w)
    <3>1. \A v \in Worker, t \in Slot : Holds(v, t)' <=> Holds(v, t) /\ t # conn[w]
      BY <2>2 DEF Release, Holds
    <3> QED
      BY <2>2, <3>1, <1>2 DEF Release, Holds
  <2> QED BY <1>3, <2>1, <2>2
<1>4. CASE UNCHANGED <<slot, conn, inner>>
  BY <1>4 DEF Holds
<1> QED
  BY <1>1, <1>3, <1>4
  DEF Next, Step, vars, Lock, Skip, ConnectFails, Refuse, Navigate, StartTransaction,
      EndTransaction, Leave, Answer, Request

-----------------------------------------------------------------------------
LEMMA StepSearch == TypeOK /\ HandlerInv /\ SearchInv /\ [Next]_vars => SearchInv'
<1> SUFFICES ASSUME TypeOK, HandlerInv, SearchInv, [Next]_vars PROVE SearchInv'
  OBVIOUS
<1> USE PoolAssumption DEF TypeOK, HandlerInv, SearchInv, Slot, NoSlot, Used, Goto, Done, Places
<1>1. ASSUME NEW w \in Worker, Step(w) PROVE SearchInv'
  <2>1. CASE Lock(w)
    BY <2>1 DEF Lock
  <2>2. CASE Skip(w)
    BY <2>2 DEF Skip
  <2>3. CASE Take(w)
    BY <2>3 DEF Take
  <2>4. CASE ConnectFails(w)
    BY <2>4 DEF ConnectFails
  <2>5. CASE Refuse(w)
    <3>1. at[w] = PoolSize + 1
      BY <2>5 DEF Refuse
    <3>2. 1..PoolSize \subseteq busy[w] /\ busy[w] \subseteq Slot
      BY <2>5, <3>1 DEF Refuse
    <3> QED
      BY <2>5, <3>2 DEF Refuse
  <2>6. CASE ReleaseInner(w)
    BY <2>6 DEF ReleaseInner
  <2>7. CASE Release(w)
    BY <2>7 DEF Release
  <2>8. CASE Answer(w)
    BY <2>8 DEF Answer
  <2>9. CASE Navigate(w) \/ StartTransaction(w) \/ EndTransaction(w) \/ Leave(w)
    BY <2>9 DEF Navigate, StartTransaction, EndTransaction, Leave
  <2> QED
    BY <1>1, <2>1, <2>2, <2>3, <2>4, <2>5, <2>6, <2>7, <2>8, <2>9 DEF Step
<1>2. ASSUME NEW w \in Worker, NEW k \in Kinds, Request(w, k) PROVE SearchInv'
  BY <1>2 DEF Request
<1>3. CASE UNCHANGED vars
  BY <1>3 DEF vars
<1> QED
  BY <1>1, <1>2, <1>3 DEF Next

-----------------------------------------------------------------------------
LEMMA StepTransaction ==
  TypeOK /\ HandlerInv /\ TransactionInv /\ [Next]_vars => TransactionInv'
<1> SUFFICES ASSUME TypeOK, HandlerInv, TransactionInv, [Next]_vars PROVE TransactionInv'
  OBVIOUS
<1> USE DEF TypeOK, HandlerInv, TransactionInv, NoSlot, Goto
<1>1. ASSUME NEW w \in Worker, StartTransaction(w) PROVE TransactionInv'
  BY <1>1 DEF StartTransaction
<1>2. ASSUME NEW w \in Worker, EndTransaction(w) PROVE TransactionInv'
  BY <1>2 DEF EndTransaction
<1>3. ASSUME NEW w \in Worker, pc[w] # "transaction", tx' = tx,
             \A v \in Worker \ {w} : pc'[v] = pc[v] /\ conn'[v] = conn[v]
      PROVE TransactionInv'
  BY <1>3
<1>4. ASSUME NEW w \in Worker, Step(w), ~StartTransaction(w), ~EndTransaction(w)
      PROVE TransactionInv'
  BY <1>3, <1>4
  DEF Step, Lock, Skip, Take, Done, ConnectFails, Refuse, Navigate, Leave, ReleaseInner,
      Release, Answer
<1>5. ASSUME NEW w \in Worker, NEW k \in Kinds, Request(w, k) PROVE TransactionInv'
  BY <1>3, <1>5 DEF Request
<1>6. CASE UNCHANGED vars
  BY <1>6 DEF vars
<1> QED
  BY <1>1, <1>2, <1>4, <1>5, <1>6 DEF Next

-----------------------------------------------------------------------------
PoolInv == TypeOK /\ HandlerInv /\ HeldOnce /\ SearchInv /\ TransactionInv

LEMMA PoolInvariant == Spec => []PoolInv
<1>1. Init => PoolInv
  <2>1. Init => HeldOnce
    BY DEF Init, HeldOnce, Holds, Used, NoSlot, Slot
  <2>2. Init => SearchInv /\ TransactionInv
    BY DEF Init, SearchInv, TransactionInv
  <2> QED
    BY <2>1, <2>2, InitTypes DEF PoolInv
<1>2. PoolInv /\ [Next]_vars => PoolInv'
  BY StepTypes, StepHeld, StepSearch, StepTransaction DEF PoolInv
<1> QED
  BY <1>1, <1>2, PTL DEF Spec

(* The variables have their types, and a handler holds connections only    *)
(* between get_connection and the destructors.                             *)
THEOREM TypeCorrect == Spec => [](TypeOK /\ HandlerInv)
<1>1. PoolInv => TypeOK /\ HandlerInv
  BY DEF PoolInv
<1> QED
  BY <1>1, PoolInvariant, PTL

(* No connection is handed out twice, and none is lost, with any number of *)
(* workers and connections, nested handlers included.                      *)
THEOREM ConnectionsHeldOnce == Spec => []HeldOnce
<1>1. PoolInv => HeldOnce
  BY DEF PoolInv
<1> QED
  BY <1>1, PoolInvariant, PTL

(* A request that is answered with 503 has met a full pool. *)
THEOREM RefusalsCorrect == Spec => []RefusedWhenFull
<1>1. PoolInv => RefusedWhenFull
  BY DEF PoolInv, SearchInv, RefusedWhenFull
<1> QED
  BY <1>1, PoolInvariant, PTL

(* No connection is handed out in the middle of a transaction. *)
THEOREM TransactionsClosed == Spec => []NoTransactionLeft
<1>1. PoolInv => NoTransactionLeft
  BY DEF PoolInv, HeldOnce, Holds, TransactionInv, NoTransactionLeft, TypeOK
<1> QED
  BY <1>1, PoolInvariant, PTL

=============================================================================
