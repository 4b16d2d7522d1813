------------------------------ MODULE JobViews ------------------------------
(***************************************************************************)
(* The views that start jobs and wait for them: profile, lexicon extension *)
(* and post-correction (show/show_controller.js and show/show_view.js of   *)
(* each in apps/projects/a_pocoto), in one browser tab, above the services *)
(* of Jobs.                                                                *)
(*                                                                         *)
(* A view asks for the project and its job.  While a job is running it     *)
(* shows "please wait" and asks every five seconds; a job that is done or  *)
(* has failed makes the view load again.  A view's layout knows only the   *)
(* last interval it has set.                                               *)
(***************************************************************************)
EXTENDS Jobs

CONSTANTS
  Shown,      \* the jobs whose views the user visits
  MaxLayouts, \* bound of the model: layouts that are alive or asked for
  MaxClicks   \* bound of the model: clicks of the user

ASSUME JobViewsAssumption ==
  Shown \subseteq Kind /\ {MaxLayouts, MaxClicks} \subseteq Nat

VARIABLES
  view,     \* the layout in the main region, and what its content is
  interval, \* the interval the layout knows is set
  leaked,   \* layouts with an interval they have forgotten
  asked,    \* requests under way, with what the server has answered
  clicks,
  troubles  \* history: what has left this "please wait" as it is, see Troubles

tabVars == <<view, interval, leaked, asked, clicks, troubles>>
vars    == <<jobsVars, tabVars>>

Layout   == 1..MaxLayouts
NoView   == [n |-> 0, kind |-> "none", content |-> "none"]
Troubles == {"emptied", "lost"}

Ops == {"load", "start", "jobs", "check"}

Ask(op, n, kind) == [op |-> op, n |-> n, kind |-> kind, answer |-> "none"]

\* A layout that nothing refers to any more, or has not yet.
Fresh == Layout \ ({view.n} \cup {r.n : r \in asked} \cup {l.n : l \in leaked})

\* The view of a kind is loaded, if it is not being loaded already.
Load(kind, rest) ==
  IF \E r \in rest : r.op = "load" /\ r.kind = kind
  THEN asked' = rest
  ELSE \E n \in Fresh : (\A m \in Fresh : n <= m)
                        /\ asked' = rest \cup {Ask("load", n, kind)}

-----------------------------------------------------------------------------
(* The user.                                                                *)

Clicks == clicks < MaxClicks /\ clicks' = clicks + 1

\* A click in the hub of a_pocoto, or a route.
Open(kind) ==
  /\ Clicks
  /\ Load(kind, asked)
  /\ UNCHANGED <<jobsVars, view, interval, leaked, troubles>>

\* show:start_profile_clicked, show:le_redo_clicked, ...  The button stays
\* until the answer comes.
StartClicked ==
  /\ view.content = "step"
  /\ Clicks
  /\ asked' = asked \cup {Ask("start", view.n, view.kind)}
  /\ UNCHANGED <<jobsVars, view, interval, leaked, troubles>>

\* Mutant: a destroyed layout keeps its interval.
DestroyOnly == interval' = interval

\* onDestroy of the layout.
Destroy == interval' = FALSE

GoElsewhere ==
  /\ view # NoView
  /\ view' = NoView
  /\ Destroy
  /\ troubles' = {}
  /\ UNCHANGED <<jobsVars, leaked, asked, clicks>>

-----------------------------------------------------------------------------
(* The server.                                                              *)

Answered(r, answer) == asked' = (asked \ {r}) \cup {[r EXCEPT !.answer = answer]}

\* GET /jobs: the status of the row, "empty" without one.
GetJob(r) ==
  /\ r.op # "start"
  /\ Answered(r, row.status)
  /\ UNCHANGED jobsVars

PostStart(r) ==
  /\ r.op = "start"
  /\ IF Startable(r.kind)
     THEN Start(r.kind) /\ Answered(r, "ok")
     ELSE UNCHANGED jobsVars /\ Answered(r, "error")

Serve(r) == /\ r.answer = "none"
            /\ GetJob(r) \/ PostStart(r)
            /\ UNCHANGED <<view, interval, leaked, clicks, troubles>>

RequestFails ==
  /\ mishaps < MaxMishaps
  /\ mishaps' = mishaps + 1
  /\ \E r \in asked : r.answer = "none" /\ Answered(r, "error")
  /\ UNCHANGED <<row, tasks, up, flags, data, language, updating, put, edits,
                 history, view, interval, leaked, clicks, troubles>>

-----------------------------------------------------------------------------
(* The callbacks.                                                           *)

Trouble(what) == troubles \cup (IF view.content = "loading" THEN {what} ELSE {})

\* Mutant: the layout is shown, and nobody asks again.
NoTracking(n, kind) == UNCHANGED <<interval, leaked>>

\* trackJobStatus: an interval that is set already is forgotten, not cleared.
TrackJobStatus(n, kind) ==
  /\ interval' = TRUE
  /\ leaked' = IF interval /\ view.n = n
               THEN leaked \cup {[n |-> n, kind |-> kind]} ELSE leaked

\* Both answers for a new view have come.
Loaded(r) ==
  /\ r.op = "load" /\ r.answer # "error"
  /\ asked' = asked \ {r}
  /\ view' = [n |-> r.n, kind |-> r.kind,
              content |-> IF r.answer = "running" THEN "loading" ELSE "step"]
  /\ IF r.answer = "running" THEN TrackJobStatus(r.n, r.kind)
                             ELSE Destroy /\ UNCHANGED leaked
  /\ troubles' = {}

\* A message is shown; what was in the main region stays.
NotLoaded(r) ==
  /\ r.op = "load" /\ r.answer = "error"
  /\ asked' = asked \ {r}
  /\ troubles' = Trouble("lost")
  /\ UNCHANGED <<view, interval, leaked>>

\* The POST is done: what has become of it is asked for.
Started(r) ==
  /\ r.op = "start"
  /\ asked' = (asked \ {r}) \cup
       (IF r.answer = "ok" THEN {Ask("jobs", r.n, r.kind)} ELSE {})
  /\ UNCHANGED <<view, interval, leaked, troubles>>

\* "Please wait", unless the job has ended already.  A destroyed layout
\* shows nothing, and its error comes before it would track.
Waits(r) ==
  /\ r.op = "jobs"
  /\ asked' = asked \ {r}
  /\ IF r.answer = "running" /\ view.n = r.n
     THEN /\ view' = [view EXCEPT !.content = "loading"]
          /\ TrackJobStatus(r.n, r.kind)
          /\ troubles' = {}
     ELSE UNCHANGED <<view, interval, leaked, troubles>>

StopJobTracking(n) == interval' = (interval /\ view.n # n)

(* show:checkJobStatus.  The element that fades is any that is shown, the   *)
(* layout's own or another's; without one, nothing is loaded.               *)
CheckJobStatus(r) ==
  LET ended == r.answer \in {"done", "failed"}
      rest  == asked \ {r}
  IN  /\ r.op = "check"
      /\ IF ended /\ view.content = "loading" THEN Load(r.kind, rest)
                                              ELSE asked' = rest
      /\ IF r.answer \in {"running", "error"} THEN UNCHANGED interval
                                              ELSE StopJobTracking(r.n)
      /\ troubles' = IF r.answer = "empty" THEN Trouble("emptied") ELSE troubles
      /\ UNCHANGED <<view, leaked>>

Receive(r) ==
  /\ r.answer # "none"
  /\ \/ Loaded(r) \/ NotLoaded(r) \/ Started(r)
     \/ Waits(r) \/ CheckJobStatus(r)
  /\ UNCHANGED <<jobsVars, clicks>>

\* Five seconds of an interval have passed.
Tick(n, kind) ==
  /\ \/ interval /\ view.n = n /\ view.kind = kind
     \/ [n |-> n, kind |-> kind] \in leaked
  /\ \A r \in asked : r.op = "check" => r.n # n
  /\ asked' = asked \cup {Ask("check", n, kind)}
  /\ UNCHANGED <<jobsVars, view, interval, leaked, clicks, troubles>>

-----------------------------------------------------------------------------
Init == /\ JobsInit
        /\ view = NoView /\ interval = FALSE /\ leaked = {}
        /\ asked = {} /\ clicks = 0 /\ troubles = {}

UserStep == (\E k \in Shown : Open(k)) \/ StartClicked \/ GoElsewhere

Next == \/ UserStep
        \/ \E r \in asked : Serve(r) \/ Receive(r)
        \/ RequestFails
        \/ \E n \in Layout, k \in Shown : Tick(n, k)
        \/ JobsStep /\ UNCHANGED tabVars

(* Jobs get on and services are restarted.  Every request is answered, if   *)
(* only by a timeout of the proxy; the browser runs the callback of every   *)
(* answer, and every interval.                                              *)
Fairness == /\ WF_vars(Work /\ UNCHANGED tabVars)
            /\ WF_vars(Restart /\ UNCHANGED tabVars)
            /\ \A op \in Ops, n \in Layout :
                 /\ WF_vars(\E r \in asked : r.op = op /\ r.n = n /\ Serve(r))
                 /\ WF_vars(\E r \in asked : r.op = op /\ r.n = n /\ Receive(r))
            /\ \A n \in Layout : WF_vars(\E k \in Shown : Tick(n, k))

Spec == Init /\ [][Next]_vars /\ Fairness

-----------------------------------------------------------------------------
\* Type invariant.
TypeOK ==
  /\ JobsTypeOK
  /\ view \in {NoView} \cup [n : Layout, kind : Shown, content : {"step", "loading"}]
  /\ interval \in BOOLEAN /\ (interval => view.content = "loading")
  /\ leaked \subseteq [n : Layout, kind : Shown]
  /\ asked \subseteq [op : Ops, n : Layout,
                      kind : Shown, answer : {"none", "ok", "error", "empty",
                                              "running", "done", "failed"}]
  /\ troubles \subseteq Troubles

(* "Please wait" ends: the job's end is noticed, and the view loads again,  *)
(* however often the services fail.  It does not end when the row is gone   *)
(* by the time it is asked for ("empty" stops the tracking and loads        *)
(* nothing), or when the loading itself fails.                              *)
LoadingEnds == view.content = "loading" ~> view.content # "loading" \/ troubles # {}

=============================================================================
