--------------------------- MODULE LineCorrection ---------------------------
(***************************************************************************)
(* The handlers of rest/src/api/LineRoute.cpp, run by the worker threads   *)
(* of the REST server against one database.                                *)
(*                                                                         *)
(* POST takes a connection from the pool, spins until the line's key is    *)
(* not in ID_SET, loads the line, edits its copy, writes the copy back in  *)
(* one transaction, and then gives up the lock and the connection, in this *)
(* order (the order of the destructors).  GET and DELETE take no lock.     *)
(***************************************************************************)
EXTENDS CorrectedLine, Naturals

CONSTANTS
  Worker,    \* worker threads, each serving one request at a time
  PoolSize,  \* connections of the pool
  NoRequest  \* what an idle worker serves

ASSUME PoolAssumption ==
  /\ PoolSize \in Nat
  /\ IsFiniteSet(Worker)
  /\ NoRequest \notin Request

VARIABLES
  idSet,     \* ID_SET, the keys of the locked lines
  conns,     \* the workers that hold a connection
  textlines, \* the rows of `textlines`
  contents,  \* the characters of each line
  pc,        \* where each worker is in its handler
  req,       \* the request it serves
  local,     \* its DbLine, the copy of the line
  reply      \* the answer it will give

vars == <<idSet, conns, textlines, contents, pc, req, local, reply>>
handler == <<pc, req, local, reply>>

Places  == {"idle", "connected", "locked", "loaded", "edited", "unwind", "closing"}
Replies == {"none", "ok", "notFound", "badRequest", "conflict", "error"}

\* Where a POST holds the lock of its line.
Holding(w) == req[w] # NoRequest /\ req[w].method = "POST"
              /\ pc[w] \in {"locked", "loaded", "edited", "unwind"}

\* The line as DbLine::load finds it: both tables have it.
Stored == [r \in Row |-> IF r \in textlines THEN contents[r] ELSE NoContent]

Init ==
  /\ idSet = {}
  /\ conns = {}
  /\ textlines = Row
  /\ contents \in [Row -> {Fresh(t) : t \in Text}]
  /\ pc = [w \in Worker |-> "idle"]
  /\ req = [w \in Worker |-> NoRequest]
  /\ local = [w \in Worker |-> NoContent]
  /\ reply = [w \in Worker |-> "none"]

-----------------------------------------------------------------------------
Goto(w, place) == pc' = [pc EXCEPT ![w] = place]

\* Leave the handler's body with an answer; the guards go out of scope next.
Answer(w, r) ==
  /\ reply' = [reply EXCEPT ![w] = r]
  /\ Goto(w, IF req[w].method = "POST" THEN "unwind" ELSE "closing")

(* must_get_connection finds a connection that is not in use.  (When there *)
(* is none the request is answered with 503 and nothing else happens.)     *)
Accept(w, q) ==
  /\ pc[w] = "idle"
  /\ Cardinality(conns) < PoolSize
  /\ conns' = conns \cup {w}
  /\ req' = [req EXCEPT ![w] = q]
  /\ Goto(w, "connected")
  /\ UNCHANGED <<idSet, textlines, contents, local, reply>>

\* Mutant: the lock is taken without a test.
LockUntested(w) ==
  /\ pc[w] = "connected"
  /\ req[w].method = "POST"
  /\ idSet' = idSet \cup {KeyOf(req[w])}
  /\ Goto(w, "locked")
  /\ UNCHANGED <<conns, textlines, contents, req, local, reply>>

(* line_lock_guard: test and insert under the mutex LOCK; otherwise spin.  *)
Lock(w) ==
  /\ pc[w] = "connected"
  /\ req[w].method = "POST"
  /\ KeyOf(req[w]) \notin idSet
  /\ idSet' = idSet \cup {KeyOf(req[w])}
  /\ Goto(w, "locked")
  /\ UNCHANGED <<conns, textlines, contents, req, local, reply>>

\* The line has been asked for: under the lock by POST, without by the rest.
Loading(w) == pc[w] = IF req[w].method = "POST" THEN "locked" ELSE "connected"

(* DbLine::load, one select over projects, textlines and contents. *)
Load(w) ==
  /\ pc[w] \in {"connected", "locked"}
  /\ Loading(w)
  /\ Stored[RowOf(req[w])] # NoContent
  /\ local' = [local EXCEPT ![w] = Stored[RowOf(req[w])]]
  /\ Goto(w, "loaded")
  /\ UNCHANGED <<idSet, conns, textlines, contents, req, reply>>

NotFound(w) ==
  /\ pc[w] \in {"connected", "locked"}
  /\ Loading(w)
  /\ Stored[RowOf(req[w])] = NoContent
  /\ Answer(w, "notFound")
  /\ UNCHANGED <<idSet, conns, textlines, contents, req, local>>

(* An unknown type, no correction in the body, cuts and OCR of different   *)
(* lengths.                                                                *)
BadRequest(w) ==
  /\ pc[w] = "loaded"
  /\ req[w].method = "POST"
  /\ Answer(w, "badRequest")
  /\ UNCHANGED <<idSet, conns, textlines, contents, req, local>>

Conflict(w) ==
  /\ pc[w] = "loaded"
  /\ req[w].method = "POST"
  /\ Conflicting(req[w], local[w])
  /\ Answer(w, "conflict")
  /\ UNCHANGED <<idSet, conns, textlines, contents, req, local>>

\* Mutant: no check for manual corrections.
EditUnchecked(w) ==
  /\ pc[w] = "loaded"
  /\ req[w].method = "POST"
  /\ local' = [local EXCEPT ![w] = Edit(req[w], @)]
  /\ Goto(w, "edited")
  /\ UNCHANGED <<idSet, conns, textlines, contents, req, reply>>

(* updateOCR, correct and reset change the copy only. *)
EditCopy(w) ==
  /\ pc[w] = "loaded"
  /\ req[w].method = "POST"
  /\ ~Conflicting(req[w], local[w])
  /\ local' = [local EXCEPT ![w] = Edit(req[w], @)]
  /\ Goto(w, "edited")
  /\ UNCHANGED <<idSet, conns, textlines, contents, req, reply>>

(* LineRoute::update: a transaction that updates the row of `textlines`,   *)
(* deletes the line's characters and inserts those of the copy.  It does   *)
(* not look whether the row of `textlines` is still there.                 *)
Update(w) ==
  /\ pc[w] = "edited"
  /\ contents' = [contents EXCEPT ![RowOf(req[w])] = local[w]]
  /\ Answer(w, "ok")
  /\ UNCHANGED <<idSet, conns, textlines, req, local>>

(* The transaction of DELETE: the characters and the row of `textlines`.   *)
Remove(w) ==
  /\ pc[w] = "loaded"
  /\ req[w].method = "DELETE"
  /\ contents' = [contents EXCEPT ![RowOf(req[w])] = NoContent]
  /\ textlines' = textlines \ {RowOf(req[w])}
  /\ Answer(w, "ok")
  /\ UNCHANGED <<idSet, conns, req, local>>

Get(w) ==
  /\ pc[w] = "loaded"
  /\ req[w].method = "GET"
  /\ Answer(w, "ok")
  /\ UNCHANGED <<idSet, conns, textlines, contents, req, local>>

\* Mutants: a failed update answers 200; an exception leaves the key in ID_SET.
ThrowOk(w) ==
  /\ pc[w] \in {"connected", "locked", "loaded", "edited"}
  /\ Loading(w) \/ pc[w] \in {"loaded", "edited"}
  /\ Answer(w, "ok")
  /\ UNCHANGED <<idSet, conns, textlines, contents, req, local>>

ThrowLocked(w) ==
  /\ pc[w] \in {"connected", "locked", "loaded", "edited"}
  /\ Loading(w) \/ pc[w] \in {"loaded", "edited"}
  /\ reply' = [reply EXCEPT ![w] = "error"]
  /\ Goto(w, "closing")
  /\ UNCHANGED <<idSet, conns, textlines, contents, req, local>>

(* The database (or the image file of an OCR update) fails: an exception   *)
(* unwinds the handler, and an open transaction is rolled back.            *)
Throw(w) ==
  /\ pc[w] \in {"connected", "locked", "loaded", "edited"}
  /\ Loading(w) \/ pc[w] \in {"loaded", "edited"}
  /\ Answer(w, "error")
  /\ UNCHANGED <<idSet, conns, textlines, contents, req, local>>

(* ~DbLine, then ~line_lock_guard. *)
Unlock(w) ==
  /\ pc[w] = "unwind"
  /\ idSet' = idSet \ {KeyOf(req[w])}
  /\ local' = [local EXCEPT ![w] = NoContent]
  /\ Goto(w, "closing")
  /\ UNCHANGED <<conns, textlines, contents, req, reply>>

\* Mutant: the connection is not given back.
CloseLeaking(w) ==
  /\ pc[w] = "closing"
  /\ req' = [req EXCEPT ![w] = NoRequest]
  /\ local' = [local EXCEPT ![w] = NoContent]
  /\ reply' = [reply EXCEPT ![w] = "none"]
  /\ Goto(w, "idle")
  /\ UNCHANGED <<idSet, conns, textlines, contents>>

(* ~Connection, and the answer is sent. *)
Close(w) ==
  /\ pc[w] = "closing"
  /\ conns' = conns \ {w}
  /\ req' = [req EXCEPT ![w] = NoRequest]
  /\ local' = [local EXCEPT ![w] = NoContent]
  /\ reply' = [reply EXCEPT ![w] = "none"]
  /\ Goto(w, "idle")
  /\ UNCHANGED <<idSet, textlines, contents>>

Step(w) ==
  \/ Lock(w) \/ Load(w) \/ NotFound(w) \/ BadRequest(w) \/ Conflict(w) \/ EditCopy(w)
  \/ Update(w) \/ Remove(w) \/ Get(w) \/ Throw(w) \/ Unlock(w) \/ Close(w)

Next == \E w \in Worker : Step(w) \/ \E q \in Request : Accept(w, q)

\* The operating system schedules every thread, and the database answers.
Fairness == \A w \in Worker : WF_vars(Step(w))

Spec == Init /\ [][Next]_vars /\ Fairness

-----------------------------------------------------------------------------
(* Properties.                                                             *)

(* The values of the variables (the types of LineRoute.cpp's locals, of    *)
(* ID_SET and of the two tables).                                          *)
TypeOK ==
  /\ idSet \subseteq Key
  /\ conns \subseteq Worker
  /\ textlines \subseteq Row
  /\ contents \in [Row -> Content \cup {NoContent}]
  /\ pc \in [Worker -> Places]
  /\ req \in [Worker -> Request \cup {NoRequest}]
  /\ local \in [Worker -> Content \cup {NoContent}]
  /\ reply \in [Worker -> Replies]

(* ID_SET holds the keys of the POSTs that are between the constructor and *)
(* the destructor of their line_lock_guard, one POST for each key, on every *)
(* path out of the handler.  The destructor's assertion that it finds its  *)
(* key follows.                                                            *)
LockInv ==
  /\ idSet = {KeyOf(req[w]) : w \in {v \in Worker : Holding(v)}}
  /\ \A v, w \in Worker :
       Holding(v) /\ Holding(w) /\ KeyOf(req[v]) = KeyOf(req[w]) => v = w

(* A connection is given back on every path, also by a request that was    *)
(* refused or failed, and the pool never hands out more than it has.       *)
ConnectionsHeld ==
  /\ conns = {w \in Worker : pc[w] # "idle"}
  /\ Cardinality(conns) <= PoolSize

(* Under its lock a POST edits the line as it is stored: nobody has        *)
(* rewritten the line since the copy was loaded (it may have been deleted, *)
(* DELETE takes no lock).                                                  *)
CopyIsCurrent ==
  \A w \in Worker :
    Holding(w) /\ RowOf(req[w]) \in textlines =>
      LET stored == Stored[RowOf(req[w])] IN
      /\ pc[w] = "loaded" => local[w] = stored
      /\ pc[w] = "edited" => /\ stored # NoContent
                             /\ ~Conflicting(req[w], stored)
                             /\ local[w] = Edit(req[w], stored)

(* The answers of a POST are true while it still has the lock: after 200   *)
(* the line is stored as the handler serializes it, after 409 the slice    *)
(* has a manual correction (unless the line was deleted meanwhile).        *)
HonestAnswers ==
  \A w \in Worker :
    LET stored == Stored[RowOf(req[w])] IN
    pc[w] = "unwind" /\ stored # NoContent =>
      /\ reply[w] = "ok" => local[w] = stored
      /\ reply[w] = "conflict" => Conflicting(req[w], stored)

\* The step in which w writes its copy back, or removes the line.
Stores(w) == pc[w] \in {"loaded", "edited"} /\ reply'[w] = "ok"

\* What a step leaves of the manual corrections.
ManualKept ==
  \A r \in Row : Stored[r] # NoContent =>
    \A s \in {t \in Slot : Stored[r].manually[t]} :
      \/ /\ Stored'[r] # NoContent
         /\ Stored'[r].manually[s]
         /\ Stored'[r].cor[s] = Stored[r].cor[s]
      \/ \E w \in Worker : /\ Stores(w)
                          /\ RowOf(req[w]) = r
                          /\ s \in req[w].slots
                          /\ req[w].type # "automatic"

(* A manual correction is only ever changed by a manual correction, a      *)
(* reset or an OCR update of its slot, or with its line by DELETE:         *)
(* LineRoute.cpp, "can only overwrite manual correctinos with other manual *)
(* corrections".                                                           *)
ManualSurvives == [][ManualKept]_vars

(* A deleted line leaves nothing behind: DELETE removes the characters and *)
(* the row of `textlines` together, and no character of it comes back.     *)
NoOrphans == \A r \in Row : contents[r] # NoContent => r \in textlines

(* Every lock is given up, whatever becomes of the request that took it.   *)
LockReleased == \A k \in Key : k \in idSet ~> k \notin idSet

(* The handlers together behave like registers that each request rewrites  *)
(* in one step.                                                            *)
Register == INSTANCE CorrectionRegister WITH register <- Stored
ImplementsRegister == Register!Spec

=============================================================================
