-------------------------------- MODULE Jobs --------------------------------
(***************************************************************************)
(* The background jobs of one book: the row of the table jobs, the tasks   *)
(* that run in the services pcwprofiler and pcwpostcorrection, the data    *)
(* they write and the flags of the book that say so.  Services crash and   *)
(* are restarted (docker-compose.yml: restart: always).                    *)
(*                                                                         *)
(* The project is the whole book; a package is tracked by the book's row.  *)
(* The training is left out: it sleeps and changes nothing.  The library's *)
(* jobs.Start and the end of a job are external.                           *)
(***************************************************************************)
EXTENDS Integers, FiniteSets

CONSTANTS
  MaxJobs,    \* bound of the model: tasks that are alive at a time
  MaxMishaps, \* bound of the model: crashes, and steps and requests that fail
  MaxEdits    \* bound of the model: changes of the book, of its lexicon

ASSUME JobsAssumption == {MaxJobs, MaxMishaps, MaxEdits} \subseteq Nat

VARIABLES
  row,      \* the book's row of the table jobs
  tasks,    \* the goroutines at work
  up,       \* the services that run
  flags,    \* the status columns of the book
  data,     \* per job: who has written what it makes since it was emptied
  language, \* the book has a language
  updating, \* POST of the book: the flags it has loaded
  put,      \* PUT of the lexicon extension: what it does next
  mishaps, edits, \* counters for the bounds
  plain,    \* history: the profile there is was made without a language
  spoiled,  \* history: data that was left half-written, or by two at a time
  wiped,    \* history: the row of a task at work was deleted
  stale     \* history: flags were written back that had changed meanwhile

history  == <<plain, spoiled, wiped, stale>>
counters == <<mishaps, edits>>
jobsVars == <<row, tasks, up, flags, data, language, updating, put, counters,
              history>>

Service == {"profiler", "postcorrection"}
Kind    == {"profile", "lexicon", "postcorrect"}
Worker  == 1..MaxJobs
Other   == 0  \* a writer that is no task: the PUT, or one before the first state

ServiceOf(kind) == IF kind = "profile" THEN "profiler" ELSE "postcorrection"

\* profile.json.gz, le_protocol.json or the rows of autocorrections are there,
\* from one writer.
Whole(kind) == Cardinality(data[kind]) = 1

\* A book without a language is profiled without a profile.
Plain(kind) == kind = "profile" /\ ~language

Task(n, kind) ==
  [n |-> n, kind |-> kind, pc |-> IF Plain(kind) THEN "storing" ELSE "run"]
Row(status, kind) == [status |-> status, kind |-> kind]
NoRow == Row("empty", "none")

\* Who writes the data of a kind just now.
Writers(kind) == {t \in tasks : t.kind = kind /\ t.pc = "writing"}
                   \cup IF kind = "lexicon" /\ put = "writing"
                        THEN {[n |-> Other, kind |-> kind, pc |-> "writing"]}
                        ELSE {}

-----------------------------------------------------------------------------
(* The handlers.                                                            *)

\* withProfiledProject, for the jobs that need the profile.
Profiled(kind) == kind \in {"lexicon", "postcorrect"} => "profiled" \in flags

\* jobs.Start refuses a book that has a running job.
Startable(kind) == /\ ServiceOf(kind) \in up
                   /\ Profiled(kind)
                   /\ row.status # "running"

Start(kind) ==
  \E n \in Worker :
    /\ \A t \in tasks : t.n # n
    /\ \A m \in 1..n-1 : \E t \in tasks : t.n = m
    /\ tasks' = tasks \cup {Task(n, kind)}
    /\ row' = Row("running", kind)
    /\ plain' = (plain \/ Plain(kind))
    /\ UNCHANGED <<up, flags, data, language, updating, put, counters, spoiled,
                   wiped, stale>>

-----------------------------------------------------------------------------
(* The tasks.                                                               *)

Goes(t, pc) == tasks' = (tasks \ {t}) \cup {[t EXCEPT !.pc = pc]}

RestUnchanged == UNCHANGED <<row, up, language, updating, put, edits,
                                 wiped, stale>>

\* The lexicon extension and the post-correction read the profile first.
Reads(kind) == kind \in {"lexicon", "postcorrect"} => Whole("profile")

\* os.Create truncates the file; the post-correction deletes the old rows.
Begin(t) ==
  /\ t.pc = "run"
  /\ Reads(t.kind)
  /\ data' = [data EXCEPT ![t.kind] = {}]
  /\ spoiled' = IF Writers(t.kind) # {} THEN spoiled \cup {t.kind} ELSE spoiled
  /\ plain' = (plain /\ t.kind # "profile")
  /\ Goes(t, "writing")
  /\ RestUnchanged /\ UNCHANGED <<flags, mishaps>>

Finish(t) ==
  /\ t.pc = "writing"
  /\ data' = [data EXCEPT ![t.kind] = @ \cup {t.n}]
  /\ Goes(t, "storing")
  /\ RestUnchanged /\ UNCHANGED <<flags, mishaps, plain, spoiled>>

FlagOf(kind) == CASE kind = "profile"     -> "profiled"
                  [] kind = "lexicon"     -> "extended"
                  [] kind = "postcorrect" -> "postcorrected"

\* UPDATE books.
Store(t) ==
  /\ t.pc = "storing"
  /\ flags' = flags \cup {FlagOf(t.kind)}
  /\ Goes(t, "done")
  /\ RestUnchanged /\ UNCHANGED <<data, mishaps, plain, spoiled>>

Broken(t) == IF t.pc = "writing" THEN {t.kind} ELSE {}

\* Mutant: an error is logged, and the job goes on to the flag.
ErrorIgnored(t) ==
  /\ t.pc \in {"run", "writing", "storing"}
  /\ mishaps < MaxMishaps
  /\ mishaps' = mishaps + 1
  /\ Goes(t, "storing")
  /\ spoiled' = spoiled \cup Broken(t)
  /\ RestUnchanged /\ UNCHANGED <<flags, data, plain>>

\* A step fails, for want of a profile or for reasons of its own.
TaskFails(t) ==
  /\ t.pc \in {"run", "writing", "storing"}
  /\ \/ t.pc = "run" /\ ~Reads(t.kind) /\ UNCHANGED mishaps
     \/ mishaps < MaxMishaps /\ mishaps' = mishaps + 1
  /\ Goes(t, "failed")
  /\ spoiled' = spoiled \cup Broken(t)
  /\ RestUnchanged /\ UNCHANGED <<flags, data, plain>>

\* The library sets the row of that id, if there is one, whosever it is.
End(t) ==
  /\ t.pc \in {"done", "failed"}
  /\ tasks' = tasks \ {t}
  /\ row' = IF row = NoRow THEN NoRow ELSE [row EXCEPT !.status = t.pc]
  /\ UNCHANGED <<up, flags, data, language, updating, put, counters, history>>

-----------------------------------------------------------------------------
(* Crashes and restarts.                                                    *)

TasksOf(s) == {t \in tasks : ServiceOf(t.kind) = s}

Crash(s) ==
  /\ s \in up
  /\ mishaps < MaxMishaps
  /\ mishaps' = mishaps + 1
  /\ up' = up \ {s}
  /\ tasks' = tasks \ TasksOf(s)
  /\ spoiled' = spoiled \cup (UNION {Broken(t) : t \in TasksOf(s)})
       \cup (IF s = "postcorrection" /\ put = "writing" THEN {"lexicon"} ELSE {})
  /\ put' = IF s = "postcorrection" THEN "idle" ELSE put
  /\ UNCHANGED <<row, flags, data, language, updating, edits, plain, wiped, stale>>

\* Mutant: the row of a job that died with the service stays.
RemoveNothing == row' = row

\* removeRunningProfilngJobs, when the profiler starts.
RemoveRunningProfilngJobs ==
  row' = IF row = Row("running", "profile") THEN NoRow ELSE row

StartProfiler ==
  /\ "profiler" \notin up
  /\ up' = up \cup {"profiler"}
  /\ RemoveRunningProfilngJobs
  /\ UNCHANGED <<tasks, flags, data, language, updating, put, counters, history>>

\* DELETE FROM jobs, when the post-correction starts.
StartPostcorrection ==
  /\ "postcorrection" \notin up
  /\ up' = up \cup {"postcorrection"}
  /\ row' = NoRow
  /\ wiped' = (wiped \/ tasks # {})
  /\ UNCHANGED <<tasks, flags, data, language, updating, put, counters, plain,
                 spoiled, stale>>

-----------------------------------------------------------------------------
(* What else changes flags and files.                                       *)

\* POST of the book: load, which reads all columns ...
LoadBook ==
  /\ updating = {"nothing"}
  /\ edits < MaxEdits
  /\ edits' = edits + 1
  /\ updating' = flags
  /\ UNCHANGED <<row, tasks, up, flags, data, language, put, mishaps, history>>

\* ... and update_book, which writes them all, with the request's language.
UpdateBook ==
  /\ updating # {"nothing"}
  /\ language' \in BOOLEAN
  /\ flags' = updating
  /\ stale' = (stale \/ flags # updating)
  /\ updating' = {"nothing"}
  /\ UNCHANGED <<row, tasks, up, data, put, counters, plain, spoiled, wiped>>

\* PUT of the lexicon extension: the protocol is read, ...
ReadLexicon ==
  /\ "postcorrection" \in up
  /\ put = "idle"
  /\ Whole("lexicon")
  /\ edits < MaxEdits
  /\ edits' = edits + 1
  /\ put' = "read"
  /\ UNCHANGED <<row, tasks, up, flags, data, language, updating, mishaps,
                 history>>

\* ... created anew, ...
CreateLexicon ==
  /\ put = "read"
  /\ put' = "writing"
  /\ data' = [data EXCEPT !["lexicon"] = {}]
  /\ spoiled' = IF Writers("lexicon") # {} THEN spoiled \cup {"lexicon"} ELSE spoiled
  /\ UNCHANGED <<row, tasks, up, flags, language, updating, counters, plain,
                 wiped, stale>>

\* ... and written.
WriteLexicon ==
  /\ put = "writing"
  /\ put' = "idle"
  /\ data' = [data EXCEPT !["lexicon"] = @ \cup {Other}]
  /\ UNCHANGED <<row, tasks, up, flags, language, updating, counters, history>>

\* The file cannot be created, or not be written to its end.
PutFails ==
  /\ put \in {"read", "writing"}
  /\ mishaps < MaxMishaps
  /\ mishaps' = mishaps + 1
  /\ put' = "idle"
  /\ spoiled' = IF put = "writing" THEN spoiled \cup {"lexicon"} ELSE spoiled
  /\ UNCHANGED <<row, tasks, up, flags, data, language, updating, edits, plain,
                 wiped, stale>>

-----------------------------------------------------------------------------
\* The book may have been profiled before.
JobsInit ==
  /\ row = NoRow
  /\ tasks = {}
  /\ up = Service
  /\ flags \in SUBSET {"profiled"}
  /\ language \in BOOLEAN
  /\ language \/ flags = {}
  /\ data = [k \in Kind |-> IF FlagOf(k) \in flags THEN {Other} ELSE {}]
  /\ updating = {"nothing"}
  /\ put = "idle"
  /\ mishaps = 0 /\ edits = 0
  /\ plain = FALSE /\ spoiled = {} /\ wiped = FALSE /\ stale = FALSE

Work    == \E t \in tasks : Begin(t) \/ Finish(t) \/ Store(t) \/ End(t)
                              \/ (~Reads(t.kind) /\ TaskFails(t))
Mishap  == \/ \E t \in tasks : TaskFails(t)
           \/ \E s \in Service : Crash(s)
Restart == StartProfiler \/ StartPostcorrection
Others  == LoadBook \/ UpdateBook \/ ReadLexicon \/ CreateLexicon
             \/ WriteLexicon \/ PutFails

JobsStep == Work \/ Mishap \/ Restart \/ Others

-----------------------------------------------------------------------------
Flags == {FlagOf(k) : k \in Kind}

JobsTypeOK ==
  /\ row \in {NoRow} \cup [status : {"running", "done", "failed"}, kind : Kind]
  /\ tasks \subseteq [n : Worker, kind : Kind,
                      pc : {"run", "writing", "storing", "done", "failed"}]
  /\ up \subseteq Service
  /\ flags \subseteq Flags
  /\ data \in [Kind -> SUBSET (Worker \cup {Other})]
  /\ language \in BOOLEAN
  /\ updating = {"nothing"} \/ updating \subseteq Flags
  /\ put \in {"idle", "read", "writing"}
  /\ spoiled \subseteq Kind /\ {plain, wiped, stale} \subseteq BOOLEAN

(* Until a start of the post-correction service has deleted the row of a    *)
(* task that the profiler was working on (pcwpostcorrection/main.go:50), a  *)
(* book has at most one task, the one its row tells of; and a row that says *)
(* "running" has its task, unless the service is down and will delete it.   *)
OneJobPerBook ==
  ~wiped =>
    /\ \A t, u \in tasks : t = u
    /\ \A t \in tasks : row = Row("running", t.kind)
    /\ row.status = "running" => tasks # {} \/ ServiceOf(row.kind) \notin up

(* A flag of the book tells that its data is there, whole and from one      *)
(* writer.  It does not after a profiling without a language, while the data *)
(* is being written again, and after it was left half-written or was written *)
(* by two at a time.  Conversely, a job that says "done" has set its flag,  *)
(* unless a change of the book has written older flags over it.             *)
FlagsTellFiles ==
  /\ \A k \in Kind : FlagOf(k) \in flags =>
       \/ Whole(k)
       \/ k = "profile" /\ plain
       \/ Writers(k) # {}
       \/ k \in spoiled
  /\ (~wiped /\ ~stale /\ row.status = "done") =>
       FlagOf(row.kind) \in flags

=============================================================================
