----------------------------- MODULE JobsProofs -----------------------------
(***************************************************************************)
(* What holds of the jobs of a book for any number of tasks, crashes,      *)
(* failures, requests, layouts and clicks.                                 *)
(***************************************************************************)
EXTENDS JobViews, FiniteSetTheorems, TLAPS

\* What the jobs' properties are about: all of jobsVars but the counters.
bookVars == <<row, tasks, up, flags, data, language, updating, put, plain,
              spoiled, wiped, stale>>

(* A step of the whole system as the jobs see it.  What a view does to them *)
(* is to start one.                                                        *)
BookStep == \/ \E k \in Kind : Startable(k) /\ Start(k)
            \/ JobsStep
            \/ UNCHANGED bookVars

\* A task dies with its service.
TasksUp == \A t \in tasks : ServiceOf(t.kind) \in up

(* What a flag of the book says is true, or excused. *)
Backed(k) == \/ Whole(k)
             \/ k = "profile" /\ plain
             \/ Writers(k) # {}
             \/ k \in spoiled

\* Data that is not spoiled is emptied by its one writer.
WriterInv ==
  \A k \in Kind : k \notin spoiled /\ Writers(k) # {} =>
    /\ data[k] = {}
    /\ \A a, b \in Writers(k) : a = b

\* What is a flag, or will be one, is backed.
BackedInv ==
  /\ \A k \in Kind : FlagOf(k) \in flags \cup updating => Backed(k)
  /\ \A t \in tasks : t.pc \in {"storing", "done"} => Backed(t.kind)

\* A job that has ended well has set its flag.
DoneInv ==
  ~wiped /\ ~stale =>
    /\ \A t \in tasks : t.pc = "done" => FlagOf(t.kind) \in flags
    /\ row.status = "done" => FlagOf(row.kind) \in flags

-----------------------------------------------------------------------------
(* Type correctness.                                                       *)

(* What a step of the system is for the jobs. *)
LEMMA NextBookStep ==
  ASSUME TypeOK, [Next]_vars
  PROVE  BookStep
<1>. USE DEF BookStep, bookVars, jobsVars, history, counters
<1>1. CASE UserStep
  BY <1>1 DEF UserStep, Open, StartClicked, GoElsewhere
<1>2. ASSUME NEW r \in asked, Serve(r) PROVE BookStep
  <2>1. r.kind \in Kind
    BY JobViewsAssumption DEF TypeOK
  <2>. QED BY <1>2, <2>1 DEF Serve, GetJob, PostStart
<1>3. ASSUME NEW r \in asked, Receive(r) PROVE BookStep
  BY <1>3 DEF Receive
<1>4. CASE RequestFails
  BY <1>4 DEF RequestFails
<1>5. ASSUME NEW n \in Layout, NEW k \in Shown, Tick(n, k) PROVE BookStep
  BY <1>5 DEF Tick
<1>6. CASE JobsStep
  BY <1>6
<1>7. CASE UNCHANGED vars
  BY <1>7 DEF vars
<1>. QED BY <1>1, <1>2, <1>3, <1>4, <1>5, <1>6, <1>7 DEF Next

(* The kinds of jobs and what belongs to each. *)
LEMMA KindFields ==
  ASSUME NEW k \in Kind
  PROVE  /\ ServiceOf(k) \in Service
         /\ FlagOf(k) \in Flags
         /\ FlagOf(k) # "nothing"
BY DEF Kind, ServiceOf, Service, FlagOf, Flags

(* Each kind has a flag of its own. *)
LEMMA FlagsDiffer ==
  ASSUME NEW j \in Kind, NEW k \in Kind, FlagOf(j) = FlagOf(k)
  PROVE  j = k
BY DEF Kind, FlagOf

LEMMA InitJobsType == Init => JobsTypeOK /\ TasksUp
<1>. SUFFICES ASSUME Init PROVE JobsTypeOK /\ TasksUp
  OBVIOUS
<1>1. flags \subseteq Flags
  BY DEF Init, JobsInit, Flags, FlagOf, Kind
<1>. QED BY <1>1 DEF Init, JobsInit, JobsTypeOK, TasksUp, NoRow, Row, Service, Worker

LEMMA StepJobsType ==
  ASSUME JobsTypeOK, TasksUp, BookStep
  PROVE  JobsTypeOK' /\ TasksUp'
<1>. USE DEF JobsTypeOK, TasksUp, history, counters, RestUnchanged
<1>1. ASSUME NEW k \in Kind, Startable(k), Start(k) PROVE JobsTypeOK' /\ TasksUp'
  BY <1>1 DEF Startable, Start, Task, Plain, Row, NoRow
<1>2. ASSUME NEW t \in tasks, Begin(t) PROVE JobsTypeOK' /\ TasksUp'
  BY <1>2 DEF Begin, Goes
<1>3. ASSUME NEW t \in tasks, Finish(t) PROVE JobsTypeOK' /\ TasksUp'
  BY <1>3 DEF Finish, Goes
<1>4. ASSUME NEW t \in tasks, Store(t) PROVE JobsTypeOK' /\ TasksUp'
  BY <1>4, KindFields DEF Store, Goes
<1>5. ASSUME NEW t \in tasks, TaskFails(t) PROVE JobsTypeOK' /\ TasksUp'
  BY <1>5 DEF TaskFails, Broken, Goes
<1>6. ASSUME NEW t \in tasks, End(t) PROVE JobsTypeOK' /\ TasksUp'
  BY <1>6 DEF End, NoRow, Row
<1>7. ASSUME NEW s \in Service, Crash(s) PROVE JobsTypeOK' /\ TasksUp'
  <2>1. spoiled' \subseteq Kind
    <3>. DEFINE B == UNION {Broken(t) : t \in TasksOf(s)}
    <3>1. \A t \in TasksOf(s) : Broken(t) \subseteq Kind
      BY DEF TasksOf, Broken
    <3>2. B \subseteq Kind
      BY <3>1
    <3>. DEFINE L == IF s = "postcorrection" /\ put = "writing" THEN {"lexicon"} ELSE {}
    <3>0. spoiled' = spoiled \cup B \cup L
      BY <1>7 DEF Crash
    <3>. HIDE DEF B
    <3>3. \A k \in spoiled' : k \in spoiled \/ k \in B \/ k = "lexicon"
      BY <3>0
    <3>4. "lexicon" \in Kind
      BY DEF Kind
    <3>. QED BY <3>2, <3>3, <3>4
  <2>. QED BY <1>7, <2>1 DEF Crash, TasksOf
<1>8. CASE StartProfiler
  BY <1>8 DEF StartProfiler, RemoveRunningProfilngJobs, Service
<1>9. CASE StartPostcorrection
  BY <1>9 DEF StartPostcorrection, Service
<1>10. CASE Others
  BY <1>10 DEF Others, LoadBook, UpdateBook, ReadLexicon, CreateLexicon, WriteLexicon, PutFails, Kind
<1>11. CASE UNCHANGED bookVars
  BY <1>11 DEF bookVars
<1>. QED
  BY <1>1, <1>2, <1>3, <1>4, <1>5, <1>6, <1>7, <1>8, <1>9, <1>10, <1>11
     DEF BookStep, JobsStep, Work, Mishap, Restart

(* What the tab keeps: its part of TypeOK. *)
TabTypeOK ==
  /\ view \in {NoView} \cup [n : Layout, kind : Shown, content : {"step", "loading"}]
  /\ interval \in BOOLEAN /\ (interval => view.content = "loading")
  /\ leaked \subseteq [n : Layout, kind : Shown]
  /\ asked \subseteq [op : Ops, n : Layout,
                      kind : Shown, answer : {"none", "ok", "error", "empty",
                                              "running", "done", "failed"}]
  /\ troubles \subseteq Troubles

(* Asking for a view again. *)
LEMMA LoadType ==
  ASSUME TabTypeOK, NEW k \in Shown, NEW rest, rest \subseteq asked, Load(k, rest)
  PROVE  asked' \subseteq [op : Ops, n : Layout,
                           kind : Shown, answer : {"none", "ok", "error", "empty",
                                                   "running", "done", "failed"}]
BY DEF TabTypeOK, Load, Ask, Fresh, Ops

LEMMA StepTabType ==
  ASSUME JobsTypeOK, TabTypeOK, [Next]_vars
  PROVE  TabTypeOK'
<1>. USE DEF TabTypeOK
<1>0. /\ row.status \in {"empty", "running", "done", "failed"}
      /\ view # NoView =>
           view \in [n : Layout, kind : Shown, content : {"step", "loading"}]
      /\ NoView.content = "none"
      /\ view.content # "none" => view # NoView
  BY DEF JobsTypeOK, NoRow, Row, NoView
<1>1. ASSUME NEW k \in Shown, Open(k) PROVE TabTypeOK'
  BY <1>1, LoadType DEF Open
<1>2. CASE StartClicked
  BY <1>2, <1>0 DEF StartClicked, Ask, Ops
<1>3. CASE GoElsewhere
  BY <1>3 DEF GoElsewhere, Destroy
<1>4. ASSUME NEW r \in asked, Serve(r) PROVE TabTypeOK'
  BY <1>4, <1>0 DEF Serve, GetJob, PostStart, Answered
<1>5. ASSUME NEW r \in asked, Loaded(r) PROVE TabTypeOK'
  <2>1. r.n \in Layout /\ r.kind \in Shown
    OBVIOUS
  <2>2. view' \in [n : Layout, kind : Shown, content : {"step", "loading"}]
    BY <1>5, <2>1 DEF Loaded
  <2>3. CASE r.answer = "running"
    BY <1>5, <2>1, <2>2, <2>3 DEF Loaded, TrackJobStatus
  <2>4. CASE r.answer # "running"
    BY <1>5, <2>2, <2>4 DEF Loaded, Destroy
  <2>. QED BY <2>3, <2>4
<1>6. ASSUME NEW r \in asked, NotLoaded(r) PROVE TabTypeOK'
  BY <1>6 DEF NotLoaded, Trouble, Troubles
<1>7. ASSUME NEW r \in asked, Started(r) PROVE TabTypeOK'
  BY <1>7 DEF Started, Ask, Ops
<1>8. ASSUME NEW r \in asked, Waits(r) PROVE TabTypeOK'
  <2>1. r.n \in Layout /\ r.kind \in Shown
    OBVIOUS
  <2>2. view.n = r.n => view # NoView
    BY <2>1, JobViewsAssumption DEF NoView, Layout
  <2>3. asked' \subseteq asked
    BY <1>8 DEF Waits
  <2>4. CASE r.answer = "running" /\ view.n = r.n
    <3>1. view' = [view EXCEPT !.content = "loading"]
      BY <1>8, <2>4 DEF Waits
    <3>2. view' \in [n : Layout, kind : Shown, content : {"step", "loading"}]
      BY <1>0, <2>2, <2>4, <3>1
    <3>3. view'.content = "loading"
      BY <1>0, <2>2, <2>4, <3>1
    <3>. QED BY <1>8, <2>1, <2>3, <2>4, <3>2, <3>3 DEF Waits, TrackJobStatus
  <2>5. CASE ~(r.answer = "running" /\ view.n = r.n)
    BY <1>8, <2>3, <2>5 DEF Waits
  <2>. QED BY <2>4, <2>5
<1>9. ASSUME NEW r \in asked, CheckJobStatus(r) PROVE TabTypeOK'
  <2>1. asked' \subseteq [op : Ops, n : Layout,
                          kind : Shown, answer : {"none", "ok", "error", "empty",
                                                  "running", "done", "failed"}]
    BY <1>9, LoadType DEF CheckJobStatus
  <2>2. interval' \in BOOLEAN /\ (interval' => interval)
    BY <1>9 DEF CheckJobStatus, StopJobTracking
  <2>3. view' = view /\ leaked' = leaked /\ troubles' \subseteq Troubles
    BY <1>9 DEF CheckJobStatus, Trouble, Troubles
  <2>. QED BY <2>1, <2>2, <2>3
<1>10. CASE RequestFails
  BY <1>10 DEF RequestFails, Answered
<1>11. ASSUME NEW n \in Layout, NEW k \in Shown, Tick(n, k) PROVE TabTypeOK'
  BY <1>11 DEF Tick, Ask, Ops
<1>12. CASE UNCHANGED tabVars
  BY <1>12 DEF tabVars
<1>. QED
  BY <1>1, <1>2, <1>3, <1>4, <1>5, <1>6, <1>7, <1>8, <1>9, <1>10, <1>11, <1>12
     DEF Next, UserStep, Receive, vars

LEMMA TypeParts == TypeOK <=> JobsTypeOK /\ TabTypeOK
BY DEF TypeOK, TabTypeOK

LEMMA TypeInit == Init => TypeOK /\ TasksUp
<1>1. Init => TabTypeOK
  BY DEF Init, TabTypeOK
<1>. QED BY <1>1, InitJobsType, TypeParts

LEMMA TypeStep == TypeOK /\ TasksUp /\ [Next]_vars => (TypeOK /\ TasksUp)'
<1>. SUFFICES ASSUME TypeOK, TasksUp, [Next]_vars PROVE (TypeOK /\ TasksUp)'
  OBVIOUS
<1>1. JobsTypeOK /\ TabTypeOK
  BY TypeParts
<1>2. JobsTypeOK' /\ TasksUp'
  BY <1>1, NextBookStep, StepJobsType
<1>3. TabTypeOK'
  BY <1>1, StepTabType
<1>. QED BY <1>2, <1>3 DEF TypeOK, TabTypeOK

(* The variables keep their types, and no task outlives its service. *)
THEOREM JobsTyped == Spec => [](TypeOK /\ TasksUp)
BY TypeInit, TypeStep, PTL DEF Spec

-----------------------------------------------------------------------------
(* One job for each book.                                                  *)

LEMMA InitOneJob == Init => OneJobPerBook
BY DEF Init, JobsInit, OneJobPerBook, NoRow, Row

LEMMA StepOneJob ==
  ASSUME JobsTypeOK, TasksUp, OneJobPerBook, BookStep
  PROVE  OneJobPerBook'
<1>. USE DEF JobsTypeOK, OneJobPerBook, RestUnchanged, history, counters
<1>1. ASSUME NEW k \in Kind, Startable(k), Start(k) PROVE OneJobPerBook'
  <2>1. ~wiped => tasks = {}
    BY <1>1 DEF Startable, Row
  <2>2. PICK n \in Worker : tasks' = tasks \cup {Task(n, k)}
    BY <1>1 DEF Start
  <2>3. row' = Row("running", k) /\ wiped' = wiped
    BY <1>1 DEF Start
  <2>4. Task(n, k).kind = k
    BY DEF Task
  <2>. QED BY <2>1, <2>2, <2>3, <2>4
<1>2. ASSUME NEW t \in tasks, Begin(t) PROVE OneJobPerBook'
  BY <1>2 DEF Begin, Goes, Row
<1>3. ASSUME NEW t \in tasks, Finish(t) PROVE OneJobPerBook'
  BY <1>3 DEF Finish, Goes, Row
<1>4. ASSUME NEW t \in tasks, Store(t) PROVE OneJobPerBook'
  BY <1>4 DEF Store, Goes, Row
<1>5. ASSUME NEW t \in tasks, TaskFails(t) PROVE OneJobPerBook'
  BY <1>5 DEF TaskFails, Goes, Row
\* The row is the task's, and says how it has ended.
<1>6. ASSUME NEW t \in tasks, End(t) PROVE OneJobPerBook'
  <2>1. ~wiped => row = Row("running", t.kind) /\ tasks' = {}
    BY <1>6 DEF End
  <2>2. ~wiped => row'.status # "running"
    BY <1>6, <2>1 DEF End, Row, NoRow
  <2>. QED BY <1>6, <2>1, <2>2 DEF End
\* A row without a task is one whose service is down.
<1>7. ASSUME NEW s \in Service, Crash(s) PROVE OneJobPerBook'
  BY <1>7 DEF Crash, TasksOf, Row
<1>8. CASE StartProfiler
  <2>1. \A t \in tasks : t.kind # "profile"
    BY <1>8 DEF StartProfiler, TasksUp, ServiceOf
  <2>2. row' = row \/ row' = NoRow
    BY <1>8 DEF StartProfiler, RemoveRunningProfilngJobs
  <2>3. CASE row = Row("running", "profile")
    BY <1>8, <2>1, <2>3 DEF StartProfiler, RemoveRunningProfilngJobs, Row, NoRow
  <2>4. CASE row # Row("running", "profile")
    <3>1. row' = row /\ up' = up \cup {"profiler"} /\ tasks' = tasks /\ wiped' = wiped
      BY <1>8, <2>4 DEF StartProfiler, RemoveRunningProfilngJobs
    <3>2. row.status = "running" => ServiceOf(row.kind) = "postcorrection"
      BY <2>4 DEF Row, NoRow, ServiceOf
    <3>. QED BY <3>1, <3>2
  <2>. QED BY <2>3, <2>4
<1>9. CASE StartPostcorrection
  BY <1>9 DEF StartPostcorrection, NoRow, Row
<1>10. CASE Others
  BY <1>10 DEF Others, LoadBook, UpdateBook, ReadLexicon, CreateLexicon, WriteLexicon, PutFails
<1>11. CASE UNCHANGED bookVars
  BY <1>11 DEF bookVars
<1>. QED
  BY <1>1, <1>2, <1>3, <1>4, <1>5, <1>6, <1>7, <1>8, <1>9, <1>10, <1>11
     DEF BookStep, JobsStep, Work, Mishap, Restart

(* A book has at most one task, the one its row tells of, and a row that    *)
(* says "running" has its task or will be deleted, until a start of the     *)
(* post-correction service has deleted the row of a task at work.           *)
THEOREM OneJobAtATime == Spec => []OneJobPerBook
<1>1. TypeOK /\ TasksUp /\ OneJobPerBook /\ [Next]_vars => OneJobPerBook'
  BY NextBookStep, StepOneJob, TypeParts
<1>. QED BY <1>1, InitOneJob, JobsTyped, PTL DEF Spec

-----------------------------------------------------------------------------
(* Flags and what they tell.                                               *)

(* Data of one writer is whole, and not empty. *)
LEMMA WholeData ==
  ASSUME NEW S
  PROVE  /\ \A x : S = {x} => Cardinality(S) = 1
         /\ Cardinality(S) = 1 => S # {}
BY FS_Singleton, FS_EmptySet

LEMMA InitFlags == Init => WriterInv /\ BackedInv /\ DoneInv
<1>. SUFFICES ASSUME Init PROVE WriterInv /\ BackedInv /\ DoneInv
  OBVIOUS
<1>. USE DEF Init, JobsInit
<1>1. \A k \in Kind : Writers(k) = {}
  BY DEF Writers
<1>2. ASSUME NEW k \in Kind, FlagOf(k) \in flags \cup updating PROVE Whole(k)
  <2>1. data[k] = {Other}
    BY <1>2, KindFields
  <2>. QED BY <2>1, WholeData DEF Whole
<1>. QED BY <1>1, <1>2 DEF WriterInv, BackedInv, Backed, DoneInv, NoRow, Row

LEMMA StepDone ==
  ASSUME JobsTypeOK, TasksUp, OneJobPerBook, DoneInv, BookStep
  PROVE  DoneInv'
<1>. USE DEF JobsTypeOK, DoneInv, RestUnchanged, history, counters
<1>1. ASSUME NEW k \in Kind, Startable(k), Start(k) PROVE DoneInv'
  BY <1>1 DEF Start, Task, Row
<1>2. ASSUME NEW t \in tasks, Begin(t) PROVE DoneInv'
  BY <1>2 DEF Begin, Goes
<1>3. ASSUME NEW t \in tasks, Finish(t) PROVE DoneInv'
  BY <1>3 DEF Finish, Goes
<1>4. ASSUME NEW t \in tasks, Store(t) PROVE DoneInv'
  BY <1>4 DEF Store, Goes
<1>5. ASSUME NEW t \in tasks, TaskFails(t) PROVE DoneInv'
  BY <1>5 DEF TaskFails, Goes
<1>6. ASSUME NEW t \in tasks, End(t) PROVE DoneInv'
  <2>1. ~wiped => row = Row("running", t.kind)
    BY DEF OneJobPerBook
  <2>2. ~wiped /\ row'.status = "done" => t.pc = "done" /\ row'.kind = t.kind
    BY <1>6, <2>1 DEF End, Row, NoRow
  <2>. QED BY <1>6, <2>2 DEF End
<1>7. ASSUME NEW s \in Service, Crash(s) PROVE DoneInv'
  BY <1>7 DEF Crash, TasksOf
<1>8. CASE StartProfiler
  BY <1>8 DEF StartProfiler, RemoveRunningProfilngJobs, NoRow, Row
<1>9. CASE StartPostcorrection
  BY <1>9 DEF StartPostcorrection, NoRow, Row
\* What is written back is what was there, or stale.
<1>10. CASE UpdateBook
  <2>1. ~stale' => ~stale /\ flags' = flags
    BY <1>10 DEF UpdateBook
  <2>2. wiped' = wiped /\ tasks' = tasks /\ row' = row
    BY <1>10 DEF UpdateBook
  <2>. QED BY <2>1, <2>2
<1>11. CASE LoadBook \/ ReadLexicon \/ CreateLexicon \/ WriteLexicon \/ PutFails
  BY <1>11 DEF LoadBook, ReadLexicon, CreateLexicon, WriteLexicon, PutFails
<1>12. CASE UNCHANGED bookVars
  BY <1>12 DEF bookVars
<1>. QED
  BY <1>1, <1>2, <1>3, <1>4, <1>5, <1>6, <1>7, <1>8, <1>9, <1>10, <1>11, <1>12
     DEF BookStep, JobsStep, Work, Mishap, Restart, Others

(* Nobody but the writers themselves make them fewer. *)
LEMMA WritersStay ==
  ASSUME NEW k \in Kind, tasks \subseteq tasks', put' = put
  PROVE  Writers(k) \subseteq Writers(k)'
BY DEF Writers

(* What writes after a task has moved on. *)
LEMMA GoesWriters ==
  ASSUME NEW t \in tasks, NEW place, Goes(t, place), put' = put, JobsTypeOK,
         NEW k \in Kind
  PROVE  /\ k # t.kind => Writers(k)' = Writers(k)
         /\ t.pc # "writing" /\ place # "writing" => Writers(k)' = Writers(k)
         /\ t.pc = "writing" => t \in Writers(t.kind)
         /\ t.pc = "writing" /\ place # "writing" => Writers(k)' = Writers(k) \ {t}
         /\ t.pc # "writing" /\ place = "writing" =>
              Writers(t.kind)' = Writers(t.kind) \cup {[t EXCEPT !.pc = place]}
<1>. DEFINE u == [t EXCEPT !.pc = place]
            Us(j) == IF j = "lexicon" /\ put = "writing"
                     THEN {[n |-> Other, kind |-> j, pc |-> "writing"]} ELSE {}
<1>1. /\ t \in [n : Worker, kind : Kind,
                pc : {"run", "writing", "storing", "done", "failed"}]
      /\ tasks' = (tasks \ {t}) \cup {u}
  BY DEF Goes, JobsTypeOK
<1>2. u.kind = t.kind /\ u.pc = place /\ u.n = t.n /\ u.n # Other
  BY <1>1 DEF Worker, Other
<1>3. /\ Writers(k) = {v \in tasks : v.kind = k /\ v.pc = "writing"} \cup Us(k)
      /\ Writers(t.kind) = {v \in tasks : v.kind = t.kind /\ v.pc = "writing"} \cup Us(t.kind)
      /\ Writers(k)' = {v \in tasks' : v.kind = k /\ v.pc = "writing"} \cup Us(k)
      /\ Writers(t.kind)' = {v \in tasks' : v.kind = t.kind /\ v.pc = "writing"} \cup Us(t.kind)
  BY DEF Writers
<1>4. t \notin Us(k) /\ t \notin Us(t.kind)
  BY <1>1 DEF Worker, Other
<1>. HIDE DEF u, Us
<1>5. k # t.kind => Writers(k)' = Writers(k)
  BY <1>1, <1>2, <1>3
<1>6. t.pc # "writing" /\ place # "writing" => Writers(k)' = Writers(k)
  BY <1>1, <1>2, <1>3
<1>7. t.pc = "writing" => t \in Writers(t.kind)
  BY <1>3
<1>8. t.pc = "writing" /\ place # "writing" => Writers(k)' = Writers(k) \ {t}
  BY <1>1, <1>2, <1>3, <1>4
<1>9. t.pc # "writing" /\ place = "writing" => Writers(t.kind)' = Writers(t.kind) \cup {u}
  BY <1>1, <1>2, <1>3
<1>. QED BY <1>5, <1>6, <1>7, <1>8, <1>9 DEF u

LEMMA StepWriters ==
  ASSUME JobsTypeOK, WriterInv, BookStep
  PROVE  WriterInv'
<1>. USE DEF JobsTypeOK, RestUnchanged, history, counters
\* Nothing that the property speaks of has changed.
<1>0. ASSUME data' = data, spoiled \subseteq spoiled',
             \A k \in Kind : k \notin spoiled' => Writers(k)' \subseteq Writers(k)
      PROVE  WriterInv'
  BY <1>0 DEF WriterInv
<1>1. ASSUME NEW k \in Kind, Startable(k), Start(k) PROVE WriterInv'
  <2>1. PICK n \in Worker : tasks' = tasks \cup {Task(n, k)}
    BY <1>1 DEF Start
  <2>2. Task(n, k).pc # "writing"
    BY DEF Task
  <2>3. put' = put /\ data' = data /\ spoiled' = spoiled
    BY <1>1 DEF Start
  <2>4. \A j \in Kind : Writers(j)' \subseteq Writers(j)
    BY <2>1, <2>2, <2>3 DEF Writers
  <2>. QED BY <1>0, <2>3, <2>4
<1>2. ASSUME NEW t \in tasks, Begin(t) PROVE WriterInv'
  <2>1. /\ Goes(t, "writing") /\ put' = put /\ t.pc = "run" /\ t.kind \in Kind
        /\ data' = [data EXCEPT ![t.kind] = {}]
        /\ spoiled' = IF Writers(t.kind) # {} THEN spoiled \cup {t.kind} ELSE spoiled
    BY <1>2 DEF Begin
  <2>2. ASSUME NEW k \in Kind, k # t.kind, k \notin spoiled', Writers(k)' # {}
        PROVE  data'[k] = {} /\ \A a, b \in Writers(k)' : a = b
    <3>1. Writers(k)' = Writers(k) /\ k \notin spoiled /\ data'[k] = data[k]
      BY <2>1, <2>2, GoesWriters
    <3>. QED BY <2>2, <3>1 DEF WriterInv
  <2>3. ASSUME t.kind \notin spoiled'
        PROVE  data'[t.kind] = {} /\ \A a, b \in Writers(t.kind)' : a = b
    <3>1. Writers(t.kind) = {}
      BY <2>1, <2>3
    <3>2. Writers(t.kind)' = {[t EXCEPT !.pc = "writing"]}
      BY <2>1, <3>1, GoesWriters
    <3>. QED BY <2>1, <3>2
  <2>. QED BY <2>2, <2>3 DEF WriterInv
<1>3. ASSUME NEW t \in tasks, Finish(t) PROVE WriterInv'
  <2>1. /\ Goes(t, "storing") /\ put' = put /\ t.pc = "writing" /\ t.kind \in Kind
        /\ data' = [data EXCEPT ![t.kind] = @ \cup {t.n}]
        /\ spoiled' = spoiled
    BY <1>3 DEF Finish
  <2>2. \A k \in Kind : Writers(k)' = Writers(k) \ {t}
    BY <2>1, GoesWriters
  <2>3. ASSUME NEW k \in Kind, k \notin spoiled', Writers(k)' # {}
        PROVE  k # t.kind
    <3>1. t \in Writers(t.kind)
      BY <2>1, GoesWriters
    <3>. QED BY <2>1, <2>2, <2>3, <3>1 DEF WriterInv
  <2>. QED BY <2>1, <2>2, <2>3 DEF WriterInv
<1>4. ASSUME NEW t \in tasks, Store(t) PROVE WriterInv'
  <2>1. Goes(t, "done") /\ put' = put /\ t.pc # "writing" /\ data' = data /\ spoiled' = spoiled
    BY <1>4 DEF Store
  <2>. QED BY <2>1, <1>0, GoesWriters
<1>5. ASSUME NEW t \in tasks, TaskFails(t) PROVE WriterInv'
  <2>1. /\ Goes(t, "failed") /\ put' = put /\ data' = data
        /\ spoiled' = spoiled \cup Broken(t)
    BY <1>5 DEF TaskFails
  <2>2. \A k \in Kind : Writers(k)' \subseteq Writers(k)
    BY <2>1, GoesWriters
  <2>. QED BY <2>1, <2>2, <1>0
<1>6. ASSUME NEW t \in tasks, End(t) PROVE WriterInv'
  <2>1. tasks' \subseteq tasks /\ put' = put /\ data' = data /\ spoiled' = spoiled
    BY <1>6 DEF End
  <2>2. \A k \in Kind : Writers(k)' \subseteq Writers(k)
    BY <2>1 DEF Writers
  <2>. QED BY <2>1, <2>2, <1>0
<1>7. ASSUME NEW s \in Service, Crash(s) PROVE WriterInv'
  <2>1. /\ tasks' \subseteq tasks /\ (put' = put \/ put' = "idle") /\ data' = data
        /\ spoiled \subseteq spoiled'
    BY <1>7 DEF Crash
  <2>2. \A k \in Kind : Writers(k)' \subseteq Writers(k)
    BY <2>1 DEF Writers
  <2>. QED BY <2>1, <2>2, <1>0
<1>8. CASE StartProfiler \/ StartPostcorrection \/ LoadBook \/ UpdateBook \/ ReadLexicon
           \/ UNCHANGED bookVars
  <2>1. /\ tasks' = tasks /\ data' = data /\ spoiled' = spoiled
        /\ put' = put \/ put' = "read"
    BY <1>8 DEF StartProfiler, StartPostcorrection, LoadBook, UpdateBook, ReadLexicon, bookVars
  <2>2. \A k \in Kind : Writers(k)' \subseteq Writers(k)
    BY <2>1 DEF Writers
  <2>. QED BY <2>1, <2>2, <1>0
<1>9. CASE CreateLexicon
  <2>1. /\ tasks' = tasks /\ put = "read" /\ put' = "writing"
        /\ data' = [data EXCEPT !["lexicon"] = {}]
        /\ spoiled' = IF Writers("lexicon") # {} THEN spoiled \cup {"lexicon"} ELSE spoiled
    BY <1>9 DEF CreateLexicon
  <2>2. ASSUME NEW k \in Kind, k # "lexicon"
        PROVE  Writers(k)' = Writers(k) /\ data'[k] = data[k] /\ (k \in spoiled' <=> k \in spoiled)
    BY <2>1, <2>2 DEF Writers
  <2>3. Writers("lexicon")' = Writers("lexicon") \cup {[n |-> Other, kind |-> "lexicon", pc |-> "writing"]}
    BY <2>1 DEF Writers
  <2>4. "lexicon" \notin spoiled' =>
          data'["lexicon"] = {} /\ \A a, b \in Writers("lexicon")' : a = b
    BY <2>1, <2>3 DEF Kind
  <2>. QED BY <2>2, <2>4 DEF WriterInv
<1>10. CASE WriteLexicon
  <2>. DEFINE me == [n |-> Other, kind |-> "lexicon", pc |-> "writing"]
  <2>1. /\ tasks' = tasks /\ put = "writing" /\ put' = "idle" /\ spoiled' = spoiled
        /\ data' = [data EXCEPT !["lexicon"] = @ \cup {Other}]
    BY <1>10 DEF WriteLexicon, history
  <2>2. ASSUME NEW k \in Kind, k # "lexicon"
        PROVE  Writers(k)' = Writers(k) /\ data'[k] = data[k]
    BY <2>1, <2>2 DEF Writers
  <2>3. me \in Writers("lexicon") /\ "lexicon" \in Kind
    BY <2>1 DEF Writers, Kind
  <2>4. me \notin tasks
    BY DEF Worker, Other
  <2>5. Writers("lexicon")' \subseteq Writers("lexicon") \ {me}
    BY <2>1, <2>4 DEF Writers
  <2>6. "lexicon" \notin spoiled' => Writers("lexicon")' = {}
    BY <2>1, <2>3, <2>5 DEF WriterInv
  <2>. QED BY <2>1, <2>2, <2>6 DEF WriterInv
<1>11. CASE PutFails
  <2>1. tasks' = tasks /\ data' = data /\ spoiled \subseteq spoiled' /\ put' = "idle"
    BY <1>11 DEF PutFails
  <2>2. \A k \in Kind : Writers(k)' \subseteq Writers(k)
    BY <2>1 DEF Writers
  <2>. QED BY <2>1, <2>2, <1>0
<1>. QED
  BY <1>1, <1>2, <1>3, <1>4, <1>5, <1>6, <1>7, <1>8, <1>9, <1>10, <1>11
     DEF BookStep, JobsStep, Work, Mishap, Restart, Others

(* What backs a flag goes on to do so, whatever happens. *)
LEMMA BackedStays ==
  ASSUME JobsTypeOK, WriterInv, BookStep, NEW k \in Kind, Backed(k)
  PROVE  Backed(k)'
<1>. USE DEF JobsTypeOK, RestUnchanged, history, counters
<1>0. ASSUME data'[k] = data[k], plain => plain', Writers(k) \subseteq Writers(k)',
             spoiled \subseteq spoiled'
      PROVE  Backed(k)'
  BY <1>0 DEF Backed, Whole
<1>1. ASSUME NEW j \in Kind, Startable(j), Start(j) PROVE Backed(k)'
  <2>1. tasks \subseteq tasks' /\ put' = put /\ data' = data /\ spoiled' = spoiled
        /\ (plain => plain')
    BY <1>1 DEF Start
  <2>. QED BY <2>1, <1>0, WritersStay
\* The data is emptied, by one who writes it.
<1>2. ASSUME NEW t \in tasks, Begin(t) PROVE Backed(k)'
  <2>1. /\ Goes(t, "writing") /\ put' = put /\ t.pc = "run" /\ t.kind \in Kind
        /\ data' = [data EXCEPT ![t.kind] = {}]
        /\ spoiled \subseteq spoiled'
        /\ plain' = (plain /\ t.kind # "profile")
    BY <1>2 DEF Begin
  <2>2. CASE k = t.kind
    BY <2>1, <2>2, GoesWriters DEF Backed
  <2>3. CASE k # t.kind
    <3>1. Writers(k)' = Writers(k) /\ data'[k] = data[k]
      BY <2>1, <2>3, GoesWriters
    <3>. QED BY <2>1, <2>3, <3>1 DEF Backed, Whole
  <2>. QED BY <2>2, <2>3
\* What was written is whole, if it was written by one.
<1>3. ASSUME NEW t \in tasks, Finish(t) PROVE Backed(k)'
  <2>1. /\ Goes(t, "storing") /\ put' = put /\ t.pc = "writing" /\ t.kind \in Kind
        /\ data' = [data EXCEPT ![t.kind] = @ \cup {t.n}]
        /\ spoiled' = spoiled /\ plain' = plain
    BY <1>3 DEF Finish
  <2>2. CASE k = t.kind /\ k \notin spoiled
    <3>1. t \in Writers(k)
      BY <2>1, <2>2, GoesWriters
    <3>2. data'[k] = {t.n}
      BY <2>1, <2>2, <3>1 DEF WriterInv
    <3>. QED BY <3>2, WholeData DEF Backed, Whole
  <2>3. CASE k # t.kind
    <3>1. Writers(k)' = Writers(k) /\ data'[k] = data[k]
      BY <2>1, <2>3, GoesWriters
    <3>. QED BY <2>1, <3>1, <1>0
  <2>. QED BY <2>1, <2>2, <2>3 DEF Backed
<1>4. ASSUME NEW t \in tasks, Store(t) PROVE Backed(k)'
  <2>1. Goes(t, "done") /\ put' = put /\ t.pc # "writing" /\ data' = data
        /\ spoiled' = spoiled /\ plain' = plain
    BY <1>4 DEF Store
  <2>. QED BY <2>1, <1>0, GoesWriters
<1>5. ASSUME NEW t \in tasks, TaskFails(t) PROVE Backed(k)'
  <2>1. /\ Goes(t, "failed") /\ put' = put /\ data' = data /\ plain' = plain
        /\ spoiled' = spoiled \cup Broken(t)
    BY <1>5 DEF TaskFails
  <2>2. CASE t.pc = "writing" /\ k = t.kind
    BY <2>1, <2>2 DEF Broken, Backed
  <2>3. CASE ~(t.pc = "writing" /\ k = t.kind)
    <3>1. Writers(k)' = Writers(k)
      BY <2>1, <2>3, GoesWriters
    <3>. QED BY <2>1, <3>1, <1>0
  <2>. QED BY <2>2, <2>3
<1>6. ASSUME NEW t \in tasks, End(t) PROVE Backed(k)'
  <2>1. tasks' = tasks \ {t} /\ t.pc # "writing" /\ put' = put /\ data' = data
        /\ spoiled' = spoiled /\ plain' = plain
    BY <1>6 DEF End
  <2>2. Writers(k) \subseteq Writers(k)'
    BY <2>1 DEF Writers
  <2>. QED BY <2>1, <2>2, <1>0
\* What a crash leaves half-written is spoiled.
<1>7. ASSUME NEW s \in Service, Crash(s) PROVE Backed(k)'
  <2>. DEFINE B == UNION {Broken(t) : t \in TasksOf(s)}
              L == IF s = "postcorrection" /\ put = "writing" THEN {"lexicon"} ELSE {}
  <2>1. /\ tasks' = tasks \ TasksOf(s) /\ data' = data /\ plain' = plain
        /\ put' = IF s = "postcorrection" THEN "idle" ELSE put
    BY <1>7 DEF Crash
  <2>2. spoiled' = spoiled \cup B \cup L
    BY <1>7 DEF Crash
  <2>3. ASSUME NEW w \in Writers(k), w \notin Writers(k)' PROVE k \in spoiled'
    <3>1. CASE w \in tasks
      <4>1. w \in TasksOf(s) /\ w.kind = k /\ w.pc = "writing"
        <5>1. w.n # Other
          BY <3>1 DEF Worker, Other
        <5>2. w.kind = k /\ w.pc = "writing"
          BY <2>3 DEF Writers
        <5>3. w \notin tasks'
          BY <2>3, <5>2 DEF Writers
        <5>. QED BY <2>1, <3>1, <5>2, <5>3
      <4>2. Broken(w) = {k}
        BY <4>1 DEF Broken
      <4>3. k \in B
        BY <4>1, <4>2
      <4>. HIDE DEF B
      <4>. QED BY <2>2, <4>3
    <3>2. CASE w \notin tasks
      <4>1. k = "lexicon" /\ put = "writing"
            /\ w = [n |-> Other, kind |-> "lexicon", pc |-> "writing"]
        BY <2>3, <3>2 DEF Writers
      <4>2. put' # "writing"
        BY <2>3, <4>1 DEF Writers
      <4>3. s = "postcorrection"
        BY <2>1, <4>1, <4>2
      <4>. HIDE DEF B
      <4>. QED BY <2>2, <4>1, <4>3
    <3>. QED BY <3>1, <3>2
  <2>. HIDE DEF B, L
  <2>4. CASE Writers(k) \subseteq Writers(k)'
    BY <2>1, <2>2, <2>4, <1>0
  <2>5. CASE ~(Writers(k) \subseteq Writers(k)')
    BY <2>3, <2>5 DEF Backed
  <2>. QED BY <2>4, <2>5
<1>8. CASE StartProfiler \/ StartPostcorrection \/ LoadBook \/ UpdateBook \/ ReadLexicon
           \/ UNCHANGED bookVars
  <2>1. /\ tasks' = tasks /\ data' = data /\ spoiled' = spoiled /\ plain' = plain
        /\ put' = put \/ (put # "writing" /\ put' = "read")
    BY <1>8 DEF StartProfiler, StartPostcorrection, LoadBook, UpdateBook, ReadLexicon, bookVars
  <2>2. Writers(k) \subseteq Writers(k)'
    BY <2>1 DEF Writers
  <2>. QED BY <2>1, <2>2, <1>0
<1>9. CASE CreateLexicon
  <2>1. /\ tasks' = tasks /\ put = "read" /\ put' = "writing" /\ plain' = plain
        /\ data' = [data EXCEPT !["lexicon"] = {}]
        /\ spoiled \subseteq spoiled'
    BY <1>9 DEF CreateLexicon
  <2>2. k = "lexicon" => Writers(k)' # {}
    BY <2>1 DEF Writers
  <2>3. k # "lexicon" => Writers(k)' = Writers(k) /\ data'[k] = data[k]
    BY <2>1 DEF Writers
  <2>. QED BY <2>1, <2>2, <2>3, <1>0 DEF Backed
<1>10. CASE WriteLexicon
  <2>1. /\ tasks' = tasks /\ put = "writing" /\ put' = "idle" /\ spoiled' = spoiled
        /\ data' = [data EXCEPT !["lexicon"] = @ \cup {Other}] /\ plain' = plain
    BY <1>10 DEF WriteLexicon, history
  <2>2. CASE k = "lexicon" /\ k \notin spoiled
    <3>1. Writers(k) # {}
      BY <2>1, <2>2 DEF Writers
    <3>2. data'[k] = {Other}
      BY <2>1, <2>2, <3>1 DEF WriterInv
    <3>. QED BY <3>2, WholeData DEF Backed, Whole
  <2>3. CASE k # "lexicon"
    <3>1. Writers(k)' = Writers(k) /\ data'[k] = data[k]
      BY <2>1, <2>3 DEF Writers
    <3>. QED BY <2>1, <3>1, <1>0
  <2>. QED BY <2>1, <2>2, <2>3 DEF Backed
\* What a PUT leaves half-written is spoiled.
<1>11. CASE PutFails
  <2>1. /\ tasks' = tasks /\ data' = data /\ plain' = plain /\ put' = "idle"
        /\ spoiled' = IF put = "writing" THEN spoiled \cup {"lexicon"} ELSE spoiled
    BY <1>11 DEF PutFails
  <2>2. CASE k = "lexicon" /\ put = "writing"
    BY <2>1, <2>2 DEF Backed
  <2>3. CASE ~(k = "lexicon" /\ put = "writing")
    <3>1. Writers(k) \subseteq Writers(k)'
      BY <2>1, <2>3 DEF Writers
    <3>2. spoiled \subseteq spoiled'
      BY <2>1
    <3>. QED BY <2>1, <3>1, <3>2, <1>0
  <2>. QED BY <2>2, <2>3
<1>. QED
  BY <1>1, <1>2, <1>3, <1>4, <1>5, <1>6, <1>7, <1>8, <1>9, <1>10, <1>11
     DEF BookStep, JobsStep, Work, Mishap, Restart, Others

LEMMA StepBacked ==
  ASSUME JobsTypeOK, TasksUp, WriterInv, BackedInv, BookStep
  PROVE  BackedInv'
<1>. USE DEF JobsTypeOK, RestUnchanged, history, counters
<1>t. JobsTypeOK'
  BY StepJobsType
<1>s. \A k \in Kind : Backed(k) => Backed(k)'
  BY BackedStays
\* A flag is set, and the place before that reached, where there is data.
<1>0. ASSUME \A k \in Kind : FlagOf(k) \in flags' \cup updating' =>
               FlagOf(k) \in flags \cup updating \/ Backed(k)',
             \A t \in tasks' : t.pc \in {"storing", "done"} =>
               \/ Backed(t.kind)'
               \/ \E u \in tasks : u.kind = t.kind /\ u.pc \in {"storing", "done"}
      PROVE  BackedInv'
  <2>1. ASSUME NEW k \in Kind, FlagOf(k) \in flags' \cup updating' PROVE Backed(k)'
    BY <1>0, <1>s, <2>1 DEF BackedInv
  <2>2. ASSUME NEW t \in tasks', t.pc \in {"storing", "done"} PROVE Backed(t.kind)'
    BY <1>0, <1>s, <2>2 DEF BackedInv
  <2>. QED BY <2>1, <2>2 DEF BackedInv
\* A task that takes no step towards its flag, and nothing else that matters.
<1>f. ASSUME NEW t \in tasks, NEW place, Goes(t, place), flags' = flags, updating' = updating,
             place \in {"storing", "done"} => Backed(t.kind)'
      PROVE  BackedInv'
  <2>. DEFINE u == [t EXCEPT !.pc = place]
  <2>1. tasks' = (tasks \ {t}) \cup {u} /\ u.kind = t.kind /\ u.pc = place
    BY <1>f DEF Goes
  <2>. HIDE DEF u
  <2>. QED BY <1>f, <1>0, <2>1
<1>1. ASSUME NEW k \in Kind, Startable(k), Start(k) PROVE BackedInv'
  <2>1. PICK n \in Worker : tasks' = tasks \cup {Task(n, k)}
    BY <1>1 DEF Start
  <2>2. flags' = flags /\ updating' = updating /\ plain' = (plain \/ Plain(k))
    BY <1>1 DEF Start
  <2>3. Task(n, k).kind = k /\ (Task(n, k).pc # "run" => Plain(k))
    BY DEF Task
  <2>4. Plain(k) => Backed(k)'
    BY <2>2 DEF Plain, Backed
  <2>. QED BY <1>0, <2>1, <2>2, <2>3, <2>4
<1>2. ASSUME NEW t \in tasks, Begin(t) PROVE BackedInv'
  BY <1>2, <1>f DEF Begin
<1>3. ASSUME NEW t \in tasks, Finish(t) PROVE BackedInv'
  <2>1. Backed(t.kind)
    <3>1. t.pc = "writing" /\ Goes(t, "storing") /\ put' = put
      BY <1>3 DEF Finish
    <3>2. t \in Writers(t.kind)
      BY <3>1, GoesWriters
    <3>. QED BY <3>2 DEF Backed
  <2>. QED BY <1>3, <2>1, <1>s, <1>f DEF Finish
<1>4. ASSUME NEW t \in tasks, Store(t) PROVE BackedInv'
  <2>1. /\ t.pc = "storing" /\ flags' = flags \cup {FlagOf(t.kind)} /\ updating' = updating
        /\ Goes(t, "done")
    BY <1>4 DEF Store
  <2>2. Backed(t.kind)'
    BY <2>1, <1>s DEF BackedInv
  <2>. DEFINE u == [t EXCEPT !.pc = "done"]
  <2>3. tasks' = (tasks \ {t}) \cup {u} /\ u.kind = t.kind
    BY <2>1 DEF Goes
  <2>. HIDE DEF u
  <2>4. \A k \in Kind : FlagOf(k) \in flags' \cup updating' =>
          FlagOf(k) \in flags \cup updating \/ Backed(k)'
    BY <2>1, <2>2, FlagsDiffer
  <2>5. \A v \in tasks' : v.pc \in {"storing", "done"} =>
          \/ Backed(v.kind)'
          \/ \E w \in tasks : w.kind = v.kind /\ w.pc \in {"storing", "done"}
    BY <2>2, <2>3
  <2>. QED BY <1>0, <2>4, <2>5
<1>5. ASSUME NEW t \in tasks, TaskFails(t) PROVE BackedInv'
  BY <1>5, <1>f DEF TaskFails
<1>6. CASE /\ tasks' \subseteq tasks
           /\ \A k \in Kind : FlagOf(k) \in flags' \cup updating' =>
                FlagOf(k) \in flags \cup updating
  BY <1>6, <1>0
<1>7. ASSUME NEW t \in tasks, End(t) PROVE BackedInv'
  BY <1>7, <1>6 DEF End
<1>8. ASSUME NEW s \in Service, Crash(s) PROVE BackedInv'
  BY <1>8, <1>6 DEF Crash
<1>9. CASE \/ StartProfiler \/ StartPostcorrection \/ ReadLexicon \/ CreateLexicon
           \/ WriteLexicon \/ PutFails \/ UNCHANGED bookVars
  BY <1>9, <1>6 DEF StartProfiler, StartPostcorrection, ReadLexicon, CreateLexicon,
                    WriteLexicon, PutFails, bookVars
<1>10. CASE LoadBook \/ UpdateBook
  BY <1>10, <1>6, KindFields DEF LoadBook, UpdateBook
<1>. QED
  BY <1>1, <1>2, <1>3, <1>4, <1>5, <1>7, <1>8, <1>9, <1>10
     DEF BookStep, JobsStep, Work, Mishap, Restart, Others

(* The inductive invariant of the flags. *)
FlagInv == WriterInv /\ BackedInv /\ DoneInv

LEMMA FlagInvTells == FlagInv => FlagsTellFiles
BY DEF FlagInv, BackedInv, Backed, DoneInv, FlagsTellFiles

(* A flag tells that its data is there, whole and from one writer, or one   *)
(* of the excuses that FlagsTellFiles names; a job that says "done" has set *)
(* its flag unless older flags have been written over it.                   *)
THEOREM FlagsTellTheTruth == Spec => []FlagsTellFiles
<1>1. Init => FlagInv
  BY InitFlags DEF FlagInv
<1>2. TypeOK /\ TasksUp /\ OneJobPerBook /\ FlagInv /\ [Next]_vars => FlagInv'
  <2>. SUFFICES ASSUME TypeOK, TasksUp, OneJobPerBook, FlagInv, [Next]_vars PROVE FlagInv'
    OBVIOUS
  <2>1. JobsTypeOK /\ BookStep
    BY TypeParts, NextBookStep
  <2>. QED BY <2>1, StepWriters, StepBacked, StepDone DEF FlagInv
<1>. QED BY <1>1, <1>2, FlagInvTells, JobsTyped, OneJobAtATime, PTL DEF Spec

=============================================================================
