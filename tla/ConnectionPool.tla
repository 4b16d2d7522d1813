--------------------------- MODULE ConnectionPool ---------------------------
(***************************************************************************)
(* The pool of database connections (database/ConnectionPool.hpp) under    *)
(* the handlers of the REST server.                                        *)
(*                                                                         *)
(* A handler asks for a connection once (`read', `write') or, when one     *)
(* page route calls another, a second time while it holds the first        *)
(* (`navigate').  The search for a free connection runs under a mutex, but *)
(* connections are given back without it, by the destructor of Connection. *)
(***************************************************************************)
EXTENDS Naturals

CONSTANTS
  Worker,   \* worker threads, each serving one request at a time
  PoolSize, \* connections of the pool
  Nobody    \* the holder of a free mutex

ASSUME PoolAssumption == PoolSize \in Nat /\ Nobody \notin Worker

VARIABLES
  slot,  \* pool_: a null pointer, or a connection that is in use or not
  mutex, \* who holds mutex_
  at,    \* the element of pool_ a worker's search looks at next
  conn,  \* the connection a worker's handler holds
  inner, \* the connection held by the handler it calls
  tx,    \* the connections with an open transaction
  pc,    \* where each worker is in its handler
  kind,  \* the handler it runs
  busy   \* history: the connections that were in use when its search began

vars == <<slot, mutex, at, conn, inner, tx, pc, kind, busy>>

Slot   == 1..PoolSize
NoSlot == 0
Kinds  == {"read", "write", "navigate"}
Places == {"idle", "want", "search", "refused", "work", "transaction", "unwind"}

Init ==
  /\ slot = [s \in Slot |-> "null"]
  /\ mutex = Nobody
  /\ at = [w \in Worker |-> 1]
  /\ conn = [w \in Worker |-> NoSlot]
  /\ inner = [w \in Worker |-> NoSlot]
  /\ tx = {}
  /\ pc = [w \in Worker |-> "idle"]
  /\ kind = [w \in Worker |-> "read"]
  /\ busy = [w \in Worker |-> {}]

Used == {s \in Slot : slot[s] = "used"}

Goto(w, place) == pc' = [pc EXCEPT ![w] = place]

Request(w, k) ==
  /\ pc[w] = "idle"
  /\ kind' = [kind EXCEPT ![w] = k]
  /\ Goto(w, "want")
  /\ UNCHANGED <<slot, mutex, at, conn, inner, tx, busy>>

-----------------------------------------------------------------------------
(* get_connection. *)

(* The end of get_connection: lock_guard and the iterator go out of scope. *)
Done(w) ==
  /\ mutex' = Nobody
  /\ at' = [at EXCEPT ![w] = 1]

Lock(w) ==
  /\ pc[w] = "want"
  /\ mutex = Nobody
  /\ mutex' = w
  /\ busy' = [busy EXCEPT ![w] = Used]
  /\ Goto(w, "search")
  /\ UNCHANGED <<slot, at, conn, inner, tx, kind>>

\* Mutants: the search does not look at the last element, or runs past it.
SkipLast(w) ==
  /\ pc[w] = "search"
  /\ at[w] \in Used \cup {PoolSize}
  /\ at' = [at EXCEPT ![w] = @ + 1]
  /\ UNCHANGED <<slot, mutex, conn, inner, tx, pc, kind, busy>>

SkipPastEnd(w) ==
  /\ pc[w] = "search"
  /\ at[w] \in Used \cup {PoolSize + 1}
  /\ at' = [at EXCEPT ![w] = @ + 1]
  /\ UNCHANGED <<slot, mutex, conn, inner, tx, pc, kind, busy>>

Skip(w) ==
  /\ pc[w] = "search"
  /\ at[w] \in Used
  /\ at' = [at EXCEPT ![w] = @ + 1]
  /\ UNCHANGED <<slot, mutex, conn, inner, tx, pc, kind, busy>>

\* Mutant: the connection is not marked.
TakeUnmarked(w) ==
  /\ pc[w] = "search"
  /\ at[w] \in Slot \ Used
  /\ slot' = [slot EXCEPT ![at[w]] = "free"]
  /\ conn' = [conn EXCEPT ![w] = IF @ = NoSlot THEN at[w] ELSE @]
  /\ inner' = [inner EXCEPT ![w] = IF conn[w] = NoSlot THEN @ ELSE at[w]]
  /\ Done(w)
  /\ busy' = [busy EXCEPT ![w] = {}]
  /\ Goto(w, "work")
  /\ UNCHANGED <<tx, kind>>

(* The first element that is null or not in use; a null pointer is         *)
(* replaced by a new connection.                                           *)
Take(w) ==
  /\ pc[w] = "search"
  /\ at[w] \in Slot \ Used
  /\ slot' = [slot EXCEPT ![at[w]] = "used"]
  /\ conn' = [conn EXCEPT ![w] = IF @ = NoSlot THEN at[w] ELSE @]
  /\ inner' = [inner EXCEPT ![w] = IF conn[w] = NoSlot THEN @ ELSE at[w]]
  /\ Done(w)
  /\ busy' = [busy EXCEPT ![w] = {}]
  /\ Goto(w, "work")
  /\ UNCHANGED <<tx, kind>>

\* Mutant: the exception leaves the mutex locked.
ConnectFailsLocked(w) ==
  /\ pc[w] = "search"
  /\ at[w] \in {s \in Slot : slot[s] = "null"}
  /\ Goto(w, "unwind")
  /\ UNCHANGED <<slot, mutex, at, conn, inner, tx, kind, busy>>

(* The database refuses the new connection: new_connection throws. *)
ConnectFails(w) ==
  /\ pc[w] = "search"
  /\ at[w] \in {s \in Slot : slot[s] = "null"}
  /\ Done(w)
  /\ busy' = [busy EXCEPT ![w] = {}]
  /\ Goto(w, "unwind")
  /\ UNCHANGED <<slot, conn, inner, tx, kind>>

(* The search has come to the end: must_get_connection throws, 503. *)
Refuse(w) ==
  /\ pc[w] = "search"
  /\ at[w] > PoolSize
  /\ Done(w)
  /\ Goto(w, "refused")
  /\ UNCHANGED <<slot, conn, inner, tx, kind, busy>>

-----------------------------------------------------------------------------
(* The rest of the handler. *)

(* PageRoute::first, last, next and prev call the route of the page they   *)
(* have found, which takes a connection of its own.                        *)
Navigate(w) ==
  /\ pc[w] = "work"
  /\ kind[w] = "navigate"
  /\ inner[w] = NoSlot
  /\ Goto(w, "want")
  /\ UNCHANGED <<slot, mutex, at, conn, inner, tx, kind, busy>>

\* The constructor of MysqlCommitter.
StartTransaction(w) ==
  /\ pc[w] = "work"
  /\ kind[w] = "write"
  /\ tx' = tx \cup {conn[w]}
  /\ Goto(w, "transaction")
  /\ UNCHANGED <<slot, mutex, at, conn, inner, kind, busy>>

\* Mutant: leaving the scope does not roll back.
EndTransactionOpen(w) ==
  /\ pc[w] = "transaction"
  /\ tx' \in {tx, tx \ {conn[w]}}
  /\ Goto(w, "unwind")
  /\ UNCHANGED <<slot, mutex, at, conn, inner, kind, busy>>

(* commit, or an exception and the destructor's rollback; the committer    *)
(* is destroyed before the connection.                                     *)
EndTransaction(w) ==
  /\ pc[w] = "transaction"
  /\ tx' = tx \ {conn[w]}
  /\ Goto(w, "unwind")
  /\ UNCHANGED <<slot, mutex, at, conn, inner, kind, busy>>

\* Return or throw.
Leave(w) ==
  /\ pc[w] = "work"
  /\ Goto(w, "unwind")
  /\ UNCHANGED <<slot, mutex, at, conn, inner, tx, kind, busy>>

(* The destructors of the connections, the called handler's first. *)
ReleaseInner(w) ==
  /\ pc[w] \in {"unwind", "refused"}
  /\ inner[w] # NoSlot
  /\ slot' = [slot EXCEPT ![inner[w]] = "free"]
  /\ inner' = [inner EXCEPT ![w] = NoSlot]
  /\ Goto(w, "unwind")
  /\ UNCHANGED <<mutex, at, conn, tx, kind, busy>>

Release(w) ==
  /\ pc[w] \in {"unwind", "refused"}
  /\ inner[w] = NoSlot
  /\ conn[w] # NoSlot
  /\ slot' = [slot EXCEPT ![conn[w]] = "free"]
  /\ conn' = [conn EXCEPT ![w] = NoSlot]
  /\ Goto(w, "unwind")
  /\ UNCHANGED <<mutex, at, inner, tx, kind, busy>>

Answer(w) ==
  /\ pc[w] \in {"unwind", "refused"}
  /\ conn[w] = NoSlot
  /\ inner[w] = NoSlot
  /\ busy' = [busy EXCEPT ![w] = {}]
  /\ kind' = [kind EXCEPT ![w] = "read"]
  /\ Goto(w, "idle")
  /\ UNCHANGED <<slot, mutex, at, conn, inner, tx>>

Step(w) ==
  \/ Lock(w) \/ Skip(w) \/ Take(w) \/ ConnectFails(w) \/ Refuse(w)
  \/ Navigate(w) \/ StartTransaction(w) \/ EndTransaction(w) \/ Leave(w)
  \/ ReleaseInner(w) \/ Release(w) \/ Answer(w)

Next == \E w \in Worker : Step(w) \/ \E k \in Kinds : Request(w, k)

\* The operating system schedules every thread, and the database answers.
Fairness == \A w \in Worker : WF_vars(Step(w))

Spec == Init /\ [][Next]_vars /\ Fairness

-----------------------------------------------------------------------------
(* Properties.                                                             *)

(* The values of the variables (ConnectionPoolConnection, Connection).     *)
TypeOK ==
  /\ slot \in [Slot -> {"null", "free", "used"}]
  /\ mutex \in Worker \cup {Nobody}
  /\ at \in [Worker -> 1..PoolSize + 1]
  /\ conn \in [Worker -> Slot \cup {NoSlot}]
  /\ inner \in [Worker -> Slot \cup {NoSlot}]
  /\ tx \subseteq Slot
  /\ pc \in [Worker -> Places]
  /\ kind \in [Worker -> Kinds]
  /\ busy \in [Worker -> SUBSET Slot]

Holds(w, s) == conn[w] = s \/ inner[w] = s

(* A connection that is in use is held by one handler, in one place, and   *)
(* is not lost on any path out of it.  The assertions in get_connection    *)
(* and in the destructor of Connection follow.                             *)
HeldOnce ==
  /\ \A s \in Slot : s \in Used <=> \E w \in Worker : Holds(w, s)
  /\ \A s \in Slot, v, w \in Worker : Holds(v, s) /\ Holds(w, s) => v = w
  /\ \A w \in Worker : conn[w] = inner[w] => conn[w] = NoSlot

(* A request is only refused with 503 if there was a moment in which every *)
(* connection was in use, though the search reads the flags one by one     *)
(* while other handlers clear them.                                        *)
RefusedWhenFull == \A w \in Worker : pc[w] = "refused" => busy[w] = Slot

(* No request sees the open transaction of another one: a connection that  *)
(* can be handed out has none.                                             *)
NoTransactionLeft == tx \cap (Slot \ Used) = {}

(* The mutex is always given up, also if the database is unreachable, and  *)
(* so no request waits for ever on a stopped search.                       *)
MutexReleased == \A w \in Worker : mutex = w ~> mutex # w

=============================================================================
