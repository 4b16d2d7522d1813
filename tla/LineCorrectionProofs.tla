------------------------ MODULE LineCorrectionProofs ------------------------
(***************************************************************************)
(* What holds of the line routes for any number of workers, projects,      *)
(* lines, slots and texts.                                                 *)
(***************************************************************************)
EXTENDS LineCorrection, FiniteSetTheorems, TLAPS

(* No book is reached through two ids: the condition under which the lock  *)
(* of a line protects the line.                                            *)
OneKeyPerRow == \A p, q \in Project : BookOf[p] = BookOf[q] => p = q

(* Where a worker is says what it serves and what it has. *)
HandlerInv ==
  \A w \in Worker :
    /\ pc[w] = "idle" <=> req[w] = NoRequest
    /\ pc[w] \in {"locked", "edited", "unwind"} => req[w].method = "POST"
    /\ pc[w] = "loaded" => local[w] \in Content

-----------------------------------------------------------------------------
(* Facts about requests and lines.                                         *)

(* A request names a project and a line, and slots of the line. *)
LEMMA RequestFields ==
  ASSUME NEW q \in Request
  PROVE  /\ q.project \in Project
         /\ q.line \in Line
         /\ q.method \in {"GET", "POST", "DELETE"}
         /\ q.slots \subseteq Slot
         /\ q.type \in {"manual", "automatic", "reset", "ocr", "none"}
         /\ q.text \in Text \cup {NoText}
         /\ q.type \in {"manual", "automatic"} => q.text \in Text
         /\ q.method = "POST" <=> q.type # "none"
         /\ q.type \in {"ocr", "none"} => q.slots = Slot
         /\ RowOf(q) \in Row
         /\ KeyOf(q) \in Key
BY LineAssumption DEF Request, Correction, Reset, OcrUpdate, Plain, RowOf, KeyOf, Row, Key

(* With one key per row, requests for the same row use the same key. *)
LEMMA SameRowSameKey ==
  ASSUME OneKeyPerRow, NEW p \in Request, NEW q \in Request, RowOf(p) = RowOf(q)
  PROVE  KeyOf(p) = KeyOf(q)
BY RequestFields DEF OneKeyPerRow, RowOf, KeyOf

(* A line without corrections is a line, or no line at all. *)
LEMMA FreshType ==
  ASSUME NEW t \in Text \cup {NoText}
  PROVE  Fresh(t) \in Content \cup {NoContent}
BY DEF Fresh, Content

(* Editing a line gives a line, or no line at all. *)
LEMMA EditType ==
  ASSUME NEW q \in Request, q.method = "POST", NEW c \in Content
  PROVE  Edit(q, c) \in Content \cup {NoContent}
<1>. USE RequestFields
<1>1. CASE q.type = "ocr"
  BY <1>1, FreshType DEF Edit
<1>2. CASE q.type = "reset"
  BY <1>2 DEF Edit, Set, Content
<1>3. CASE q.type \notin {"ocr", "reset"}
  BY <1>3 DEF Edit, Set, Content
<1>. QED BY <1>1, <1>2, <1>3

-----------------------------------------------------------------------------
(* Type correctness.                                                       *)

LEMMA InitType == Init => TypeOK /\ HandlerInv
<1>. SUFFICES ASSUME Init PROVE TypeOK /\ HandlerInv
  OBVIOUS
<1>1. \A t \in Text : Fresh(t) \in Content \cup {NoContent}
  BY FreshType
<1>. QED BY <1>1 DEF Init, TypeOK, HandlerInv, Places, Replies

LEMMA StepType ==
  ASSUME TypeOK, HandlerInv, [Next]_vars
  PROVE  TypeOK' /\ HandlerInv'
<1>. USE DEF TypeOK, HandlerInv, Places, Replies
<1>1. ASSUME NEW w \in Worker, NEW q \in Request, Accept(w, q) PROVE TypeOK' /\ HandlerInv'
  BY <1>1, PoolAssumption DEF Accept, Goto
<1>2. ASSUME NEW w \in Worker, Lock(w) PROVE TypeOK' /\ HandlerInv'
  <2>1. KeyOf(req[w]) \in Key
    BY <1>2, RequestFields DEF Lock
  <2>. QED BY <1>2, <2>1 DEF Lock, Goto
<1>3. ASSUME NEW w \in Worker, Load(w) PROVE TypeOK' /\ HandlerInv'
  <2>1. Stored[RowOf(req[w])] \in Content
    BY <1>3, RequestFields DEF Load, Stored
  <2>. QED BY <1>3, <2>1 DEF Load, Goto
<1>4. ASSUME NEW w \in Worker, NotFound(w) PROVE TypeOK' /\ HandlerInv'
  BY <1>4 DEF NotFound, Answer, Goto
<1>5. ASSUME NEW w \in Worker, BadRequest(w) PROVE TypeOK' /\ HandlerInv'
  BY <1>5 DEF BadRequest, Answer, Goto
<1>6. ASSUME NEW w \in Worker, Conflict(w) PROVE TypeOK' /\ HandlerInv'
  BY <1>6 DEF Conflict, Answer, Goto
<1>7. ASSUME NEW w \in Worker, EditCopy(w) PROVE TypeOK' /\ HandlerInv'
  <2>1. Edit(req[w], local[w]) \in Content \cup {NoContent}
    BY <1>7, EditType DEF EditCopy
  <2>. QED BY <1>7, <2>1 DEF EditCopy, Goto
<1>8. ASSUME NEW w \in Worker, Update(w) PROVE TypeOK' /\ HandlerInv'
  BY <1>8 DEF Update, Answer, Goto
<1>9. ASSUME NEW w \in Worker, Remove(w) PROVE TypeOK' /\ HandlerInv'
  BY <1>9 DEF Remove, Answer, Goto
<1>10. ASSUME NEW w \in Worker, Get(w) PROVE TypeOK' /\ HandlerInv'
  BY <1>10 DEF Get, Answer, Goto
<1>11. ASSUME NEW w \in Worker, Throw(w) PROVE TypeOK' /\ HandlerInv'
  BY <1>11 DEF Throw, Answer, Goto
<1>12. ASSUME NEW w \in Worker, Unlock(w) PROVE TypeOK' /\ HandlerInv'
  BY <1>12 DEF Unlock, Goto
<1>13. ASSUME NEW w \in Worker, Close(w) PROVE TypeOK' /\ HandlerInv'
  BY <1>13 DEF Close, Goto
<1>14. CASE UNCHANGED vars
  BY <1>14 DEF vars
<1>. QED
  BY <1>1, <1>2, <1>3, <1>4, <1>5, <1>6, <1>7, <1>8, <1>9, <1>10, <1>11, <1>12, <1>13, <1>14
     DEF Next, Step

(* The variables keep their types. *)
THEOREM TypeCorrect == Spec => [](TypeOK /\ HandlerInv)
BY InitType, StepType, PTL DEF Spec

-----------------------------------------------------------------------------
(* The lock.                                                               *)

LEMMA InitLock == Init => LockInv
BY DEF Init, LockInv, Holding

LEMMA StepLock ==
  ASSUME TypeOK, HandlerInv, LockInv, [Next]_vars
  PROVE  LockInv'
<1>. USE DEF LockInv, Holding
\* A worker that takes the lock is the only new holder, and its key was free.
<1>1. ASSUME NEW w \in Worker, Lock(w) PROVE LockInv'
  <2>1. /\ pc' = [pc EXCEPT ![w] = "locked"]
        /\ req' = req
        /\ idSet' = idSet \cup {KeyOf(req[w])}
        /\ req[w] # NoRequest /\ req[w].method = "POST"
    BY <1>1 DEF Lock, Goto, HandlerInv
  <2>2. \A v \in Worker : Holding(v)' <=> Holding(v) \/ v = w
    BY <2>1 DEF TypeOK
  <2>3. idSet' = {KeyOf(req[v])' : v \in {u \in Worker : Holding(u)'}}
    BY <2>1, <2>2
  <2>4. ASSUME NEW u \in Worker, NEW v \in Worker, Holding(u)', Holding(v)',
               KeyOf(req[u]) = KeyOf(req[v])
        PROVE  u = v
    BY <1>1, <2>2, <2>4 DEF Lock
  <2>. QED BY <2>1, <2>3, <2>4
\* A worker that unlocks was the only holder of its key.
<1>2. ASSUME NEW w \in Worker, Unlock(w) PROVE LockInv'
  <2>1. /\ pc' = [pc EXCEPT ![w] = "closing"]
        /\ req' = req
        /\ idSet' = idSet \ {KeyOf(req[w])}
        /\ Holding(w)
    BY <1>2 DEF Unlock, Goto, HandlerInv
  <2>2. \A v \in Worker : Holding(v)' <=> Holding(v) /\ v # w
    BY <2>1 DEF TypeOK
  <2>3. idSet' = {KeyOf(req[v])' : v \in {u \in Worker : Holding(u)'}}
    BY <2>1, <2>2
  <2>. QED BY <2>1, <2>2, <2>3
\* The other steps lock and unlock nothing.
<1>3. ASSUME idSet' = idSet,
             \A v \in Worker : /\ Holding(v)' <=> Holding(v)
                               /\ Holding(v) => req'[v] = req[v]
      PROVE  LockInv'
  BY <1>3
<1>4. ASSUME NEW w \in Worker, NEW q \in Request, Accept(w, q) PROVE LockInv'
  BY <1>3, <1>4 DEF Accept, Goto, TypeOK
<1>5. ASSUME NEW w \in Worker, Load(w) PROVE LockInv'
  BY <1>3, <1>5 DEF Load, Loading, Goto, TypeOK
<1>6. ASSUME NEW w \in Worker, NotFound(w) PROVE LockInv'
  BY <1>3, <1>6 DEF NotFound, Loading, Answer, Goto, TypeOK
<1>7. ASSUME NEW w \in Worker, BadRequest(w) PROVE LockInv'
  BY <1>3, <1>7 DEF BadRequest, Answer, Goto, TypeOK
<1>8. ASSUME NEW w \in Worker, Conflict(w) PROVE LockInv'
  BY <1>3, <1>8 DEF Conflict, Answer, Goto, TypeOK
<1>9. ASSUME NEW w \in Worker, EditCopy(w) PROVE LockInv'
  BY <1>3, <1>9 DEF EditCopy, Goto, TypeOK
<1>10. ASSUME NEW w \in Worker, Update(w) PROVE LockInv'
  BY <1>3, <1>10 DEF Update, Answer, Goto, TypeOK, HandlerInv
<1>11. ASSUME NEW w \in Worker, Remove(w) PROVE LockInv'
  BY <1>3, <1>11 DEF Remove, Answer, Goto, TypeOK
<1>12. ASSUME NEW w \in Worker, Get(w) PROVE LockInv'
  BY <1>3, <1>12 DEF Get, Answer, Goto, TypeOK
<1>13. ASSUME NEW w \in Worker, Throw(w) PROVE LockInv'
  BY <1>3, <1>13 DEF Throw, Loading, Answer, Goto, TypeOK, HandlerInv
<1>14. ASSUME NEW w \in Worker, Close(w) PROVE LockInv'
  BY <1>3, <1>14 DEF Close, Goto, TypeOK
<1>15. CASE UNCHANGED vars
  BY <1>3, <1>15 DEF vars
<1>. QED
  BY <1>1, <1>2, <1>4, <1>5, <1>6, <1>7, <1>8, <1>9, <1>10, <1>11, <1>12, <1>13, <1>14, <1>15
     DEF Next, Step

(* ID_SET holds the keys of the POSTs that hold a lock, one POST for each  *)
(* key, whatever requests are served.                                      *)
THEOREM LockCorrect == Spec => []LockInv
BY InitLock, StepLock, TypeCorrect, PTL DEF Spec

-----------------------------------------------------------------------------
(* The copies, when every line is reached through one id only.             *)

(* How the steps of a worker change what clients see: only a POST that     *)
(* writes its copy back and a DELETE do.                                   *)
LEMMA StoredByUpdate ==
  ASSUME TypeOK, HandlerInv, NEW w \in Worker, Update(w)
  PROVE  /\ RowOf(req[w]) \in Row
         /\ Stored' = IF RowOf(req[w]) \in textlines
                     THEN [Stored EXCEPT ![RowOf(req[w])] = local[w]]
                     ELSE Stored
<1>1. req[w] \in Request
  BY DEF TypeOK, HandlerInv, Update
<1>2. RowOf(req[w]) \in Row
  BY <1>1, RequestFields
<1>. QED BY <1>2 DEF Update, Stored, TypeOK

LEMMA StoredByRemove ==
  ASSUME TypeOK, HandlerInv, NEW w \in Worker, Remove(w)
  PROVE  /\ RowOf(req[w]) \in Row
         /\ Stored' = [Stored EXCEPT ![RowOf(req[w])] = NoContent]
<1>1. req[w] \in Request
  BY DEF TypeOK, HandlerInv, Remove
<1>2. RowOf(req[w]) \in Row
  BY <1>1, RequestFields
<1>. QED BY <1>2 DEF Remove, Stored, TypeOK

LEMMA StoredElse ==
  ASSUME UNCHANGED <<textlines, contents>>
  PROVE  Stored' = Stored
BY DEF Stored

CopyInv == CopyIsCurrent /\ HonestAnswers

LEMMA InitCopy == Init => CopyInv
BY DEF Init, CopyInv, CopyIsCurrent, HonestAnswers

LEMMA StepCopy ==
  ASSUME OneKeyPerRow, TypeOK, HandlerInv, LockInv, CopyInv, [Next]_vars
  PROVE  CopyInv'
<1>. USE DEF CopyInv, CopyIsCurrent, HonestAnswers, Holding
\* Two POSTs with copies of the same line would hold the same key.
<1>1. ASSUME NEW v \in Worker, NEW w \in Worker, Holding(v), Holding(w),
             RowOf(req[v]) = RowOf(req[w])
      PROVE  v = w
  <2>1. req[v] \in Request /\ req[w] \in Request
    BY <1>1 DEF Holding, TypeOK
  <2>. QED BY <1>1, <2>1, SameRowSameKey DEF LockInv
\* What clients see of a line is in `textlines`.
<1>12. \A v \in Worker : req[v] # NoRequest =>
         /\ RowOf(req[v]) \in Row
         /\ Stored[RowOf(req[v])] # NoContent => RowOf(req[v]) \in textlines
  BY RequestFields DEF Stored, TypeOK
\* The worker that writes its copy back is the only one with a copy of the line.
<1>2. ASSUME NEW w \in Worker, Update(w) PROVE CopyInv'
  <2>1. /\ pc[w] = "edited" /\ pc' = [pc EXCEPT ![w] = "unwind"]
        /\ req' = req /\ local' = local /\ reply' = [reply EXCEPT ![w] = "ok"]
        /\ textlines' = textlines
        /\ Holding(w)
    BY <1>2 DEF Update, Answer, Goto, HandlerInv, Holding
  <2>2. ASSUME NEW v \in Worker, v # w, Holding(v)
        PROVE  Stored'[RowOf(req[v])] = Stored[RowOf(req[v])]
    <3>1. RowOf(req[v]) # RowOf(req[w])
      BY <1>1, <2>1, <2>2
    <3>2. RowOf(req[v]) \in Row
      BY <2>2, RequestFields DEF Holding, TypeOK
    <3>. QED BY <1>2, <3>1, <3>2, StoredByUpdate DEF Stored
  <2>3. Stored'[RowOf(req[w])] # NoContent => Stored'[RowOf(req[w])] = local[w]
    BY <1>2, StoredByUpdate DEF Stored
  <2>4. CopyIsCurrent'
    BY <2>1, <2>2 DEF TypeOK, Holding
  <2>5. HonestAnswers'
    <3> SUFFICES ASSUME NEW v \in Worker, pc'[v] = "unwind",
                        Stored'[RowOf(req[v])] # NoContent
                 PROVE  /\ reply'[v] = "ok" => local[v] = Stored'[RowOf(req[v])]
                        /\ reply'[v] = "conflict" => Conflicting(req[v], Stored'[RowOf(req[v])])
      BY <2>1
    <3>1. CASE v = w
      BY <2>1, <2>3, <3>1 DEF TypeOK
    <3>2. CASE v # w
      BY <2>1, <2>2, <3>2 DEF TypeOK, Holding, HandlerInv
    <3>. QED BY <3>1, <3>2
  <2>. QED BY <2>4, <2>5
\* A deleted line is no line any more.
<1>3. ASSUME NEW w \in Worker, Remove(w) PROVE CopyInv'
  <2>1. /\ pc' = [pc EXCEPT ![w] = "closing"] /\ reply' = [reply EXCEPT ![w] = "ok"]
        /\ req' = req /\ local' = local
        /\ textlines' = textlines \ {RowOf(req[w])}
    BY <1>3 DEF Remove, Answer, Goto
  <2>2. \A r : r \in Row => Stored'[r] = Stored[r] \/ Stored'[r] = NoContent
    BY <1>3, StoredByRemove DEF Stored
  <2>3. \A v \in Worker : req[v] # NoRequest => RowOf(req[v]) \in Row
    BY RequestFields DEF TypeOK
  <2>4. \A r \in textlines' : Stored'[r] = Stored[r]
    BY <1>3, <2>1, StoredByRemove DEF TypeOK, Stored
  <2>5. CopyIsCurrent'
    BY <2>1, <2>3, <2>4 DEF TypeOK
  <2>6. HonestAnswers'
    BY <2>1, <2>2, <2>3 DEF TypeOK, HandlerInv
  <2>. QED BY <2>5, <2>6
\* The other steps leave the lines alone.
<1>4. ASSUME NEW w \in Worker, Load(w) PROVE CopyInv'
  BY <1>4, StoredElse DEF Load, Loading, Goto, TypeOK
<1>5. ASSUME NEW w \in Worker, EditCopy(w) PROVE CopyInv'
  BY <1>5, <1>12, StoredElse, NoContentAssumption DEF EditCopy, Goto, TypeOK, HandlerInv
<1>6. ASSUME NEW w \in Worker, Conflict(w) PROVE CopyInv'
  BY <1>6, <1>12, StoredElse DEF Conflict, Answer, Goto, TypeOK, HandlerInv
<1>7. ASSUME NEW w \in Worker,
             BadRequest(w) \/ NotFound(w) \/ Throw(w) \/ Get(w)
      PROVE  CopyInv'
  BY <1>7, StoredElse DEF BadRequest, NotFound, Throw, Get, Loading, Answer, Goto, TypeOK
<1>8. ASSUME NEW w \in Worker, NEW q \in Request, Accept(w, q) PROVE CopyInv'
  BY <1>8, StoredElse DEF Accept, Goto, TypeOK
<1>9. ASSUME NEW w \in Worker, Lock(w) PROVE CopyInv'
  BY <1>9, StoredElse DEF Lock, Goto, TypeOK
<1>10. ASSUME NEW w \in Worker, Unlock(w) \/ Close(w) PROVE CopyInv'
  BY <1>10, StoredElse DEF Unlock, Close, Goto, TypeOK
<1>11. CASE UNCHANGED vars
  BY <1>11, StoredElse DEF vars
<1>. QED
  BY <1>2, <1>3, <1>4, <1>5, <1>6, <1>7, <1>8, <1>9, <1>10, <1>11 DEF Next, Step

LEMMA CopyCorrect ==
  ASSUME OneKeyPerRow
  PROVE  Spec => []CopyInv
<1>1. Init => CopyInv
  BY InitCopy
<1>2. TypeOK /\ HandlerInv /\ LockInv /\ CopyInv /\ [Next]_vars => CopyInv'
  BY StepCopy
<1>. QED BY <1>1, <1>2, TypeCorrect, LockCorrect, PTL DEF Spec

(* With one id for each book no POST edits a stale copy. *)
THEOREM CopiesCurrent ==
  ASSUME OneKeyPerRow
  PROVE  Spec => []CopyIsCurrent
<1>1. CopyInv => CopyIsCurrent
  BY DEF CopyInv
<1>. QED BY <1>1, CopyCorrect, PTL

(* With one id for each book the answer of a POST is true when it is       *)
(* given: 200 only for a line that is stored as it was edited, 409 only    *)
(* for a slice that has a manual correction.                               *)
THEOREM AnswersHonest ==
  ASSUME OneKeyPerRow
  PROVE  Spec => []HonestAnswers
<1>1. CopyInv => HonestAnswers
  BY DEF CopyInv
<1>. QED BY <1>1, CopyCorrect, PTL

-----------------------------------------------------------------------------
(* What clients see.                                                       *)

(* The data of the registers is the data of the handlers. *)
LEMMA SameData ==
  /\ Register!Request = Request
  /\ Register!Row = Row
  /\ \A q : Register!RowOf(q) = RowOf(q)
  /\ \A t : Register!Fresh(t) = Fresh(t)
  /\ \A q, c : Register!Edit(q, c) = Edit(q, c)
  /\ \A q, c : Register!Conflicting(q, c) <=> Conflicting(q, c)
<1>1. Register!Request = Request
  BY DEF Register!Request, Register!Correction, Register!Reset, Register!OcrUpdate,
         Register!Plain, Request, Correction, Reset, OcrUpdate, Plain
<1>2. /\ Register!Row = Row
      /\ \A q : Register!RowOf(q) = RowOf(q)
  BY DEF Register!Row, Row, Register!RowOf, RowOf
<1>3. \A t : Register!Fresh(t) = Fresh(t)
  BY DEF Register!Fresh, Fresh
<1>4. \A q, c, t, m : Register!Set(q, c, t, m) = Set(q, c, t, m)
  BY DEF Register!Set, Set
<1>5. \A q, c : Register!Edit(q, c) = Edit(q, c)
  BY <1>3, <1>4 DEF Register!Edit, Edit
<1>6. \A q, c : Register!Conflicting(q, c) <=> Conflicting(q, c)
  BY DEF Register!Conflicting, Conflicting
<1>. QED BY <1>1, <1>2, <1>3, <1>5, <1>6

(* The step in which a POST writes its copy back makes of the line what    *)
(* the request makes of the line as it is stored.                          *)
LEMMA UpdateIsPost ==
  ASSUME TypeOK, HandlerInv, CopyIsCurrent, NEW w \in Worker, Update(w),
         RowOf(req[w]) \in textlines
  PROVE  Register!Post(req[w])
<1>1. /\ pc[w] = "edited" /\ req[w] \in Request /\ req[w].method = "POST"
  BY DEF Update, TypeOK, HandlerInv
<1>2. /\ Stored[RowOf(req[w])] # NoContent
      /\ ~Conflicting(req[w], Stored[RowOf(req[w])])
      /\ local[w] = Edit(req[w], Stored[RowOf(req[w])])
  BY <1>1, PoolAssumption DEF CopyIsCurrent, Holding
<1>3. Stored' = [Stored EXCEPT ![RowOf(req[w])] = Edit(req[w], Stored[RowOf(req[w])])]
  BY <1>2, StoredByUpdate
<1>4. Register!RowOf(req[w]) = RowOf(req[w])
  BY SameData
<1>5. Register!Edit(req[w], Stored[RowOf(req[w])]) = Edit(req[w], Stored[RowOf(req[w])])
  BY SameData, Zenon
<1>6. ~Register!Conflicting(req[w], Stored[RowOf(req[w])])
  BY <1>2, SameData, Zenon
<1>. QED BY <1>1, <1>2, <1>3, <1>4, <1>5, <1>6 DEF Register!Post

(* Every step is a step of the registers or leaves them alone. *)
LEMMA StepImplements ==
  ASSUME TypeOK, HandlerInv, CopyIsCurrent, [Next]_vars
  PROVE  [Register!Next]_Stored
<1>1. ASSUME NEW w \in Worker, Update(w) PROVE [Register!Next]_Stored
  <2>1. req[w] \in Request
    BY <1>1 DEF Update, TypeOK, HandlerInv
  <2>2. CASE RowOf(req[w]) \in textlines
    BY <1>1, <2>1, <2>2, UpdateIsPost, SameData DEF Register!Next
  <2>3. CASE RowOf(req[w]) \notin textlines
    BY <1>1, <2>3, StoredByUpdate
  <2>. QED BY <2>2, <2>3
<1>2. ASSUME NEW w \in Worker, Remove(w) PROVE [Register!Next]_Stored
  <2>1. req[w] \in Request /\ req[w].method = "DELETE"
    BY <1>2 DEF Remove, TypeOK, HandlerInv
  <2>2. Register!Delete(req[w])
    BY <1>2, <2>1, StoredByRemove, SameData DEF Register!Delete
  <2>. QED BY <2>1, <2>2, SameData DEF Register!Next
<1>3. CASE UNCHANGED vars
  BY <1>3, StoredElse DEF vars
<1>4. CASE /\ ~UNCHANGED vars
           /\ \A w \in Worker : ~Update(w) /\ ~Remove(w)
  BY <1>4, StoredElse
     DEF Next, Step, Accept, Lock, Load, NotFound, BadRequest, Conflict, EditCopy, Get,
         Throw, Unlock, Close
<1>. QED BY <1>1, <1>2, <1>3, <1>4

LEMMA InitImplements == Init => Register!Init
<1>1. ASSUME Init PROVE Stored \in [Row -> {Fresh(t) : t \in Text}]
  BY <1>1 DEF Init, Stored
<1>. QED BY <1>1, SameData DEF Register!Init

(* With one id for each book the handlers, their locks and copies and      *)
(* failures included, implement a register for each line.                  *)
THEOREM Implements ==
  ASSUME OneKeyPerRow
  PROVE  Spec => ImplementsRegister
<1>1. Init => Register!Init
  BY InitImplements
<1>2. TypeOK /\ HandlerInv /\ CopyIsCurrent /\ [Next]_vars => [Register!Next]_Stored
  BY StepImplements
<1>. QED BY <1>1, <1>2, TypeCorrect, CopiesCurrent, PTL
         DEF Spec, ImplementsRegister, Register!Spec

\* An edit keeps the manual corrections it does not name, and an automatic
\* one that is no conflict names none.
LEMMA EditKeepsManual ==
  ASSUME NEW q \in Request, q.method = "POST", NEW c \in Content, NEW s \in Slot,
         c.manually[s], ~Conflicting(q, c),
         s \notin q.slots \/ q.type = "automatic"
  PROVE  /\ Edit(q, c) \in Content
         /\ Edit(q, c).manually[s]
         /\ Edit(q, c).cor[s] = c.cor[s]
<1>1. s \notin q.slots
  BY DEF Conflicting
<1>2. q.type # "ocr" /\ q.text \in Text \cup {NoText}
  BY <1>1, RequestFields
<1>3. Edit(q, c) = Set(q, c, NoText, FALSE) \/ Edit(q, c) = Set(q, c, q.text, q.type = "manual")
  BY <1>2 DEF Edit
<1>4. ASSUME NEW t \in Text \cup {NoText}, NEW m \in BOOLEAN
      PROVE  /\ Set(q, c, t, m) \in Content
             /\ Set(q, c, t, m).manually[s]
             /\ Set(q, c, t, m).cor[s] = c.cor[s]
  BY <1>1 DEF Set, Content
<1>. QED BY <1>2, <1>3, <1>4

LEMMA StepKeepsManual ==
  ASSUME TypeOK, HandlerInv, CopyIsCurrent, [Next]_vars
  PROVE  ManualKept
<1>1. SUFFICES ASSUME NEW r \in Row, Stored[r] # NoContent, Stored'[r] # Stored[r],
                      NEW s \in Slot, Stored[r].manually[s]
               PROVE  \/ /\ Stored'[r] # NoContent
                         /\ Stored'[r].manually[s]
                         /\ Stored'[r].cor[s] = Stored[r].cor[s]
                      \/ \E w \in Worker : /\ Stores(w)
                                          /\ RowOf(req[w]) = r
                                          /\ s \in req[w].slots
                                          /\ req[w].type # "automatic"
  BY DEF ManualKept
<1>2. Stored[r] \in Content /\ r \in textlines
  BY <1>1 DEF Stored, TypeOK
\* Only an update or a removal changes a line.
<1>3. PICK w \in Worker : Update(w) \/ Remove(w)
  BY <1>1, StoredElse
     DEF Next, Step, Accept, Lock, Load, NotFound, BadRequest, Conflict, EditCopy, Get,
         Throw, Unlock, Close, vars
<1>4. req[w] \in Request
  BY <1>3 DEF Update, Remove, TypeOK, HandlerInv
<1>5. RowOf(req[w]) = r /\ Stores(w)
  BY <1>1, <1>3, StoredByUpdate, StoredByRemove
     DEF Update, Remove, Stores, Answer, Stored, TypeOK
<1>6. CASE Remove(w)
  BY <1>4, <1>5, <1>6, RequestFields DEF Remove
<1>7. CASE Update(w)
  <2>1. req[w].method = "POST" /\ Holding(w) /\ pc[w] = "edited"
    BY <1>4, <1>7, PoolAssumption DEF Update, HandlerInv, Holding
  <2>2. ~Conflicting(req[w], Stored[r]) /\ local[w] = Edit(req[w], Stored[r])
    BY <1>2, <1>5, <2>1 DEF CopyIsCurrent
  <2>3. Stored'[r] = Edit(req[w], Stored[r])
    BY <1>2, <1>5, <1>7, <2>2, StoredByUpdate DEF Stored
  <2>4. CASE s \notin req[w].slots \/ req[w].type = "automatic"
    BY <1>1, <1>2, <1>4, <2>1, <2>2, <2>3, <2>4, EditKeepsManual, NoContentAssumption
  <2>5. CASE s \in req[w].slots /\ req[w].type # "automatic"
    BY <1>5, <2>5
  <2>. QED BY <2>4, <2>5
<1>. QED BY <1>3, <1>6, <1>7

(* With one id for each book an automatic correction never overwrites a    *)
(* manual one, in whatever order requests arrive.                          *)
THEOREM ManualCorrectionsSurvive ==
  ASSUME OneKeyPerRow
  PROVE  Spec => ManualSurvives
<1>1. TypeOK /\ HandlerInv /\ CopyIsCurrent /\ [Next]_vars => ManualKept
  BY StepKeepsManual
<1>. QED BY <1>1, TypeCorrect, CopiesCurrent, PTL DEF Spec, ManualSurvives

-----------------------------------------------------------------------------
(* The connections.                                                        *)

LEMMA StepConnections ==
  ASSUME TypeOK, ConnectionsHeld, [Next]_vars
  PROVE  ConnectionsHeld'
<1>. USE DEF ConnectionsHeld, TypeOK
<1>1. IsFiniteSet(conns)
  BY PoolAssumption, FS_Subset
<1>2. ASSUME NEW w \in Worker, NEW q \in Request, Accept(w, q) PROVE ConnectionsHeld'
  <2>1. Cardinality(conns \cup {w}) = Cardinality(conns) + 1
    BY <1>1, <1>2, FS_AddElement DEF Accept
  <2>2. Cardinality(conns) \in Nat
    BY <1>1, FS_CardinalityType
  <2>3. Cardinality(conns \cup {w}) <= PoolSize
    BY <1>2, <2>1, <2>2, PoolAssumption DEF Accept
  <2>4. conns' = conns \cup {w} /\ pc' = [pc EXCEPT ![w] = "connected"]
    BY <1>2 DEF Accept, Goto
  <2>. QED BY <2>3, <2>4
<1>3. ASSUME NEW w \in Worker, Close(w) PROVE ConnectionsHeld'
  <2>1. conns' = conns \ {w} /\ pc' = [pc EXCEPT ![w] = "idle"]
    BY <1>3 DEF Close, Goto
  <2>2. Cardinality(conns \ {w}) <= Cardinality(conns)
    BY <1>1, FS_Subset
  <2>3. Cardinality(conns \ {w}) \in Nat /\ Cardinality(conns) \in Nat
    BY <1>1, FS_Subset, FS_CardinalityType
  <2>4. Cardinality(conns \ {w}) <= PoolSize
    BY <2>2, <2>3, PoolAssumption
  <2>. QED BY <2>1, <2>4
\* The other steps take no connection and give none back.
<1>4. ASSUME conns' = conns, \A w \in Worker : pc'[w] = "idle" <=> pc[w] = "idle"
      PROVE  ConnectionsHeld'
  BY <1>4
<1>5. ASSUME NEW w \in Worker,
             \/ Lock(w) \/ Load(w) \/ NotFound(w) \/ BadRequest(w) \/ Conflict(w) \/ EditCopy(w)
             \/ Update(w) \/ Remove(w) \/ Get(w) \/ Throw(w) \/ Unlock(w)
      PROVE  ConnectionsHeld'
  BY <1>4, <1>5
     DEF Lock, Load, NotFound, BadRequest, Conflict, EditCopy, Update, Remove, Get, Throw,
         Unlock, Answer, Goto
<1>6. CASE UNCHANGED vars
  BY <1>4, <1>6 DEF vars
<1>. QED BY <1>2, <1>3, <1>5, <1>6 DEF Next, Step

(* A worker has a connection exactly while it serves a request, and no     *)
(* more than PoolSize are in use.                                          *)
THEOREM ConnectionsCorrect == Spec => []ConnectionsHeld
<1>1. Init => ConnectionsHeld
  BY FS_EmptySet, PoolAssumption DEF Init, ConnectionsHeld
<1>2. TypeOK /\ ConnectionsHeld /\ [Next]_vars => ConnectionsHeld'
  BY StepConnections
<1>. QED BY <1>1, <1>2, TypeCorrect, PTL DEF Spec

=============================================================================
