------------------------------ MODULE PageView ------------------------------
(***************************************************************************)
(* The page view of the web front end: apps/projects/page/show and         *)
(* common/util.js in src/frontend/public_html/assets/js, in one browser    *)
(* tab, with the requests it sends (entities/project.js) and the session   *)
(* they are sent in.                                                       *)
(*                                                                         *)
(* Everything happens in callbacks on one thread: a click sends a request, *)
(* and the answer finds whatever page the user has gone to meanwhile.  The *)
(* page exists three times: in the database, in the array `lines' of the   *)
(* view's model, and as the tokens drawn below the images of the lines.    *)
(* The user is the only one who corrects this book.                        *)
(***************************************************************************)
EXTENDS Session, PageOrder

CONSTANTS
  Page,       \* the pages of the book
  LineIds(_), \* the ids of a page's lines
  Text,       \* what users write into lines
  Ocr,        \* what is in a line in the beginning
  Edited(_),  \* bound of the model: the lines of a page the user corrects
  MaxClicks,  \* bound of the model: requests the user causes
  MaxFailures \* bound of the model: requests that fail on the server

ASSUME PageViewAssumption ==
  /\ Page \subseteq Nat \ {0}
  /\ \A p \in Page : LineIds(p) \subseteq Nat \ {0} /\ IsFiniteSet(LineIds(p))
                      /\ Edited(p) \subseteq LineIds(p)
  /\ Ocr \notin Text
  /\ {MaxClicks, MaxFailures} \subseteq Nat

VARIABLES
  stored,   \* the lines' texts in the database
  main,     \* what the main region shows
  layout,   \* the layout that is alive, named by the click that made it
  models,   \* of each layout: the array `lines' of its page model
  shown,    \* the page in the document, and the tokens drawn at its lines
  loading,  \* renderings whose images are not loaded yet
  fading,   \* the animations of corrected lines, in the order they began
  backdrop, \* the click whose "please wait" is shown
  clicks,   \* the requests the user has caused
  failures, \* the requests that have failed on the server
  stuck,    \* history: the clicks whose "please wait" nothing takes away
  races     \* history: what has gone past each other, see Races

viewVars == <<main, layout, models, shown, loading, fading, backdrop>>
vars == <<sessionVars, stored, viewVars, clicks, failures, stuck, races>>

Click   == 1..MaxClicks
None    == 0
AnyLine == UNION {LineIds(p) : p \in Page}
Texts   == Text \cup {Ocr}
Races   == {"overtaken", "strayed", "hasty", "lost"}

\* A line as the server sends it; its anchor is its page and its id.
Line(p, l, t) == [page |-> p, line |-> l, text |-> t]
Lines == [page : Page, line : AnyLine, text : Texts]
Hole  == [page |-> None, line |-> None, text |-> Ocr]

\* A page as the server sends it: its lines by their ids.
LinesOf(p) == LET ids == Ascending(LineIds(p))
              IN  [i \in DOMAIN ids |-> Line(p, ids[i], stored[p][ids[i]])]

\* Mutant: the id is taken for the index.
SetAtId(lines, l, x) ==
  [i \in 1..(IF l >= Len(lines) THEN l + 1 ELSE Len(lines)) |->
     IF i = l + 1 THEN x ELSE IF i <= Len(lines) THEN lines[i] ELSE Hole]

\* lines[l - 1] = x for an id l: the array grows if it must, with holes.
SetAt(lines, l, x) ==
  [i \in 1..(IF l > Len(lines) THEN l ELSE Len(lines)) |->
     IF i = l THEN x ELSE IF i <= Len(lines) THEN lines[i] ELSE Hole]

-----------------------------------------------------------------------------
(* The document.  A rendering is named by the click that caused it.         *)

Blank    == [page |-> None, by |-> None, tokens |-> <<>>]
Empty(p) == [l \in LineIds(p) |-> <<>>]

HasAnchor(p, l) == shown.page = p /\ l \in LineIds(p)

\* Mutant: the i-th line is drawn below the i-th image, whosever it is.
DrawByPlace(lines, s) ==
  [s EXCEPT !.tokens = [l \in LineIds(s.page) |->
     LET i == Cardinality(LineIds(s.page) \cap 1..l)
     IN  @[l] \o IF i <= Len(lines) THEN <<lines[i]>> ELSE <<>>]]

\* The entries of a list at some of its places.
EntriesAt(lines, S) == LET at == Ascending(S) IN [k \in DOMAIN at |-> lines[at[k]]]

(* Util.addLine, Util.addAlignedLine for the i-th line image and lines[i]:  *)
(* a hole is passed over, a line is drawn at its own anchor, and one whose  *)
(* image is not in the document (line_img is null) ends the loop.           *)
Draw(lines, s) ==
  LET images == Cardinality(LineIds(s.page))
      drawn  == {i \in DOMAIN lines :
                   i <= images /\ \A j \in 1..i : lines[j].page \in {s.page, None}}
  IN  [s EXCEPT !.tokens =
         [l \in LineIds(s.page) |->
            @[l] \o EntriesAt(lines, {i \in drawn : lines[i].line = l})]]

\* One line, at its anchor.
DrawLine(x, s) == [s EXCEPT !.tokens[x.line] = Append(@, x)]

\* $('.line-tokens').empty(), for all lines or in one of them.
Wipe(s)        == [s EXCEPT !.tokens = Empty(s.page)]
WipeLine(l, s) == [s EXCEPT !.tokens[l] = <<>>]

-----------------------------------------------------------------------------
(* What the user does.  Each click sends at most one request.               *)

PageRequest(op, p, l, t) ==
  [n |-> clicks + 1, op |-> op, auth |-> auth, layout |-> layout,
   page |-> p, line |-> l, text |-> t]

GetPage(op, p)        == PageRequest(op, p, None, Ocr)
CorrectLine(p, l, t)  == PageRequest("correctLine", p, l, t)
CorrectToken(p, l, t) == PageRequest("correctToken", p, l, t)
GetLine(r)            == [r EXCEPT !.op = "getLine", !.auth = auth]

Causes(r) == /\ clicks < MaxClicks
             /\ clicks' = clicks + 1
             /\ Ask(r)
             /\ UNCHANGED <<auth, sessions, issued, elsewhere, answered,
                            stored, failures, stuck>>

\* The route projects/:id/page/:page_id, or a jump from the concordance.
OpenPage(p) ==
  /\ main # "login"
  /\ Causes(GetPage("openPage", p))
  /\ backdrop' = clicks'
  /\ UNCHANGED <<main, layout, models, shown, loading, fading, races>>

\* The sidebar's page:new.
TurnPage(p) ==
  /\ main = "page"
  /\ Causes(GetPage("turnPage", p))
  /\ backdrop' = clicks'
  /\ UNCHANGED <<main, layout, models, shown, loading, fading, races>>

\* page:concordance_clicked: a search in the whole book, for the dialog.
SearchConcordance ==
  /\ main = "page"
  /\ Causes(GetPage("search", shown.page))
  /\ backdrop' = clicks'
  /\ UNCHANGED <<main, layout, models, shown, loading, fading, races>>

\* The user clicks on the tokens of a line, edits it and sends it.
EditLine(l, t) ==
  /\ main = "page"
  /\ l \in Edited(shown.page)
  /\ shown.tokens[l] # <<>>
  /\ Causes(CorrectLine(shown.page, l, t))
  /\ UNCHANGED <<viewVars, races>>

\* The concordance, a dialog above the page, corrects a token of any line.
EditToken(p, l, t) ==
  /\ main = "page"
  /\ l \in Edited(p)
  /\ Causes(CorrectToken(p, l, t))
  /\ UNCHANGED <<viewVars, races>>

\* A slider empties all lines and draws them from the sidebar's model.
Redraw ==
  /\ main = "page"
  /\ shown' = Draw(models[layout], Wipe(shown))
  /\ races' = races \cup (IF loading # {} THEN {"hasty"} ELSE {})
  /\ UNCHANGED <<sessionVars, stored, main, layout, models, loading, fading,
                 backdrop, clicks, failures, stuck>>

\* Mutant: the layout is forgotten, its document is not.
ReplaceLayout(view) == main' = view /\ layout' = None /\ UNCHANGED shown

\* Another view takes the main region: the layout of the page is destroyed.
Replace(view) == /\ main' = view
                 /\ layout' = None
                 /\ shown' = Blank

GoElsewhere ==
  /\ main = "page"
  /\ Replace("other")
  /\ UNCHANGED <<sessionVars, stored, models, loading, fading, backdrop,
                 clicks, failures, stuck, races>>

SubmitLogin == /\ main = "login"
               /\ Causes(Login(clicks + 1))
               /\ UNCHANGED <<viewVars, races>>

ClickLogout == /\ main # "login"
               /\ auth # NoToken
               /\ Causes(Logout(clicks + 1))
               /\ UNCHANGED <<viewVars, races>>

-----------------------------------------------------------------------------
(* The server: the gateway, then the page and line routes.                  *)

PageOps == {"openPage", "turnPage"}
LineOps == {"correctLine", "correctToken"}

Untouched == UNCHANGED <<auth, sessions, issued, elsewhere, viewVars, clicks,
                         stuck>>

\* What the routes answer: a page, or a line, as it is now.
DataFor(r) == IF r.op \in PageOps
              THEN LinesOf(r.page)
              ELSE Line(r.page, r.line, stored[r.page][r.line])

Refuse(r) ==
  /\ r.op \notin SessionOps
  /\ ~Accepts(r)
  /\ Reply(r, Answer(r, "refused", None))
  /\ Untouched /\ UNCHANGED <<stored, failures, races>>

ServeRead(r) ==
  /\ r.op \in PageOps \cup {"getLine"}
  /\ Accepts(r)
  /\ Reply(r, Answer(r, "ok", DataFor(r)))
  /\ Untouched /\ UNCHANGED <<stored, failures, races>>

\* What is found is the concordance's: it is not looked at here.
ServeSearch(r) ==
  /\ r.op = "search"
  /\ Accepts(r)
  /\ Reply(r, Answer(r, "ok", None))
  /\ Untouched /\ UNCHANGED <<stored, failures, races>>

\* PUT of a line or of one of its tokens.  `late' is a failure between the
\* commit and the answer: the browser is told that the request failed.
ServeCorrection(r, late) ==
  /\ r.op \in LineOps
  /\ Accepts(r)
  /\ late => failures < MaxFailures
  /\ stored' = [stored EXCEPT ![r.page][r.line] = r.text]
  /\ Reply(r, IF late THEN Answer(r, "failed", None)
                      ELSE Answer(r, "ok", Line(r.page, r.line, r.text)))
  /\ failures' = IF late THEN failures + 1 ELSE failures
  /\ races' = races \cup (IF late THEN {"lost"} ELSE {})
  /\ Untouched

\* Anything that is not done and answered with an error other than 401, or not
\* at all: a login before its first statement or before its second.
Fail(r) ==
  /\ failures < MaxFailures
  /\ failures' = failures + 1
  /\ Reply(r, Answer(AsSent(r), "failed", None))
  /\ Untouched /\ UNCHANGED <<stored, races>>

ServeSession(r) ==
  /\ r.op \in SessionOps
  /\ \/ RefuseLogin(r)
     \/ ServeLoginDelete(r)
     \/ ServeLoginInsert(r)
     \/ ServeLoginCheck(r)
     \/ ServeLogout(r)
  /\ UNCHANGED <<stored, viewVars, clicks, failures, stuck, races>>

Serve(r) == \/ Refuse(r)
            \/ ServeRead(r)
            \/ ServeSearch(r)
            \/ ServeCorrection(r, FALSE)
            \/ ServeSession(r)

UseElsewhere == /\ LoginElsewhereDelete \/ LoginElsewhereInsert
                /\ UNCHANGED <<stored, viewVars, clicks, failures, stuck, races>>

-----------------------------------------------------------------------------
(* The callbacks: the answer at place i arrives.                            *)

Good(i, op) == answered[i].status = "ok" /\ answered[i].req.op = op
Bad(i, ops) == answered[i].status # "ok" /\ answered[i].req.op \in ops

\* Answers that show what a line is.
Tells(a) == a.status = "ok" /\ a.req.op \in PageOps \cup {"correctLine", "getLine"}

Overtaking(i) ==
  IF Tells(answered[i]) /\ \E j \in 1..i-1 : Tells(answered[j])
  THEN {"overtaken"} ELSE {}

When(condition, race) == IF condition THEN {race} ELSE {}

\* Mutant: the backdrop is taken away in the layout's callbacks only.
LiftOwn(n) == backdrop' = IF layout # None /\ backdrop = n THEN None ELSE backdrop

\* loadingCircleView.destroy(): unless another click's has taken its place.
Lift(n) == backdrop' = IF backdrop = n THEN None ELSE backdrop

ShowError(a) == IF a.status = "refused"
                THEN Replace("login")
                ELSE UNCHANGED <<main, layout, shown>>

\* Mutant: every error ends the session.
ErrorEndsSession(a) == ForgetToken /\ Replace("login")

(* Util.defaultErrorHandling.  A 401 ends the session of the browser, with  *)
(* whatever token it has by now, and shows the form for the login; any      *)
(* other error is a message.                                                *)
DefaultErrorHandling(a) ==
  /\ auth' = IF a.status = "refused" THEN NoToken ELSE auth
  /\ ShowError(a)

\* showPage: a new layout around the page.  Its images begin to load.
PageOpened(i) ==
  LET r == answered[i].req IN
  /\ Good(i, "openPage")
  /\ Take(i)
  /\ Lift(r.n)
  /\ main' = "page"
  /\ layout' = r.n
  /\ models' = [models EXCEPT ![r.n] = answered[i].data]
  /\ shown' = [page |-> r.page, by |-> r.n, tokens |-> Empty(r.page)]
  /\ loading' = loading \cup {[layout |-> r.n, by |-> r.n]}
  /\ races' = races \cup Overtaking(i)
                    \cup When(loading # {} \/ fading # <<>>, "hasty")
  /\ UNCHANGED <<auth, fading, stuck>>

\* page:new: the model takes the new page's attributes.  A layout that has
\* been destroyed renders nothing any more, and showChildView throws.
PageTurned(i) ==
  LET r == answered[i].req
      alive == r.layout = layout IN
  /\ Good(i, "turnPage")
  /\ Take(i)
  /\ Lift(r.n)
  /\ models' = [models EXCEPT ![r.layout] = answered[i].data]
  /\ shown' = IF alive THEN [page |-> r.page, by |-> r.n, tokens |-> Empty(r.page)]
                       ELSE shown
  /\ loading' = IF alive THEN loading \cup {[layout |-> r.layout, by |-> r.n]}
                         ELSE loading
  /\ races' = races \cup Overtaking(i)
                    \cup When(alive /\ (loading # {} \/ fading # <<>>), "hasty")
  /\ UNCHANGED <<auth, main, layout, fading, stuck>>

\* The callback of page:correct_line.  The result goes into the array of the
\* page the layout shows by now; the line, if it is in the document, fades.
LineCorrected(i) ==
  LET r == answered[i].req IN
  /\ Good(i, "correctLine")
  /\ Take(i)
  /\ models' = [models EXCEPT ![r.layout] = SetAt(@, r.line, answered[i].data)]
  /\ fading' = IF HasAnchor(r.page, r.line)
               THEN Append(fading, [line |-> answered[i].data, by |-> shown.by])
               ELSE fading
  /\ races' = races \cup Overtaking(i)
       \cup When(main = "page" /\ (r.layout # layout \/ r.page # shown.page),
                 "strayed")
       \cup When(loading # {}, "hasty")
  /\ UNCHANGED <<auth, main, layout, shown, loading, backdrop, stuck>>

\* The callback of concordance:correct_token asks for the line ...
TokenCorrected(i) ==
  /\ Good(i, "correctToken")
  /\ answered' = Without(answered, i)
  /\ pending' = pending \cup {GetLine(answered[i].req)}
  /\ UNCHANGED <<auth, viewVars, stuck, races>>

\* ... and puts it into the page, if the page shows it.
LineFetched(i) ==
  LET r == answered[i].req
      here == HasAnchor(r.page, r.line) IN
  /\ Good(i, "getLine")
  /\ Take(i)
  /\ models' = IF here THEN [models EXCEPT ![r.layout] =
                               SetAt(@, r.line, answered[i].data)]
                       ELSE models
  /\ shown' = IF here THEN DrawLine(answered[i].data, WipeLine(r.line, shown))
                      ELSE shown
  /\ races' = races \cup Overtaking(i)
       \cup When(here /\ r.layout # layout, "strayed")
       \cup When(here /\ (loading # {} \/ fading # <<>>), "hasty")
  /\ UNCHANGED <<auth, main, layout, loading, fading, backdrop, stuck>>

\* A page that is not to be had.  Only showPage takes its backdrop away.
PageFailed(i) ==
  LET a == answered[i] IN
  /\ Bad(i, PageOps)
  /\ Take(i)
  /\ DefaultErrorHandling(a)
  /\ IF a.req.op = "openPage"
     THEN Lift(a.req.n) /\ UNCHANGED stuck
     ELSE stuck' = stuck \cup {a.req.n} /\ UNCHANGED backdrop
  /\ UNCHANGED <<models, loading, fading, races>>

CorrectionFailed(i) ==
  /\ Bad(i, LineOps)
  /\ Take(i)
  /\ DefaultErrorHandling(answered[i])
  /\ UNCHANGED <<models, loading, fading, backdrop, stuck, races>>

\* The search is shown, above the page.
Searched(i) ==
  /\ Good(i, "search")
  /\ Take(i)
  /\ Lift(answered[i].req.n)
  /\ UNCHANGED <<auth, main, layout, models, shown, loading, fading, stuck, races>>

\* Nobody handles the failure of a search: its backdrop stays.
SearchFailed(i) ==
  /\ Bad(i, {"search"})
  /\ Take(i)
  /\ stuck' = stuck \cup {answered[i].req.n}
  /\ UNCHANGED <<auth, viewVars, races>>

\* Nobody handles the failure of getLine.
LineNotFetched(i) ==
  /\ Bad(i, {"getLine"})
  /\ Take(i)
  /\ races' = races \cup {"lost"}
  /\ UNCHANGED <<auth, viewVars, stuck>>

\* The callback of login:submit, which goes on to the project.
LoggedIn(i) ==
  /\ Good(i, "login")
  /\ Take(i)
  /\ auth' = answered[i].data
  /\ Replace("other")
  /\ UNCHANGED <<models, loading, fading, backdrop, stuck, races>>

LoginFailed(i) ==
  /\ Bad(i, {"login"})
  /\ Take(i)
  /\ DefaultErrorHandling(answered[i])
  /\ UNCHANGED <<models, loading, fading, backdrop, stuck, races>>

\* The callback of nav:logout, which forgets the token in any case.
LoggedOut(i) ==
  LET a == answered[i] IN
  /\ a.req.op = "logout"
  /\ Take(i)
  /\ ForgetToken
  /\ IF a.status = "ok" THEN Replace("other") ELSE ShowError(a)
  /\ UNCHANGED <<models, loading, fading, backdrop, stuck, races>>

\* The callback of loginCheck, which the header sends when the tab opens: any
\* error, not a 401 only, makes the browser forget its token.
LoginChecked(i) ==
  LET a == answered[i] IN
  /\ a.req.op = "loginCheck"
  /\ Take(i)
  /\ IF a.status = "ok" THEN UNCHANGED auth ELSE ForgetToken
  /\ UNCHANGED <<viewVars, stuck, races>>

Receive(i) ==
  /\ \/ PageOpened(i) \/ PageTurned(i) \/ LineCorrected(i)
     \/ TokenCorrected(i) \/ LineFetched(i)
     \/ Searched(i) \/ SearchFailed(i)
     \/ PageFailed(i) \/ CorrectionFailed(i) \/ LineNotFetched(i)
     \/ LoggedIn(i) \/ LoginFailed(i) \/ LoggedOut(i) \/ LoginChecked(i)
  /\ UNCHANGED <<stored, sessions, issued, elsewhere, clicks, failures>>

\* imagesLoaded: the lines are drawn, from the model of the layout that was
\* rendered into the document as it is by now.
ImagesLoaded(x) ==
  /\ loading' = loading \ {x}
  /\ shown' = IF main = "page" THEN Draw(models[x.layout], shown) ELSE shown
  /\ UNCHANGED <<sessionVars, stored, main, layout, models, fading, backdrop,
                 clicks, failures, stuck, races>>

\* The end of fadeIn: the element that faded is emptied, and the result is
\* drawn at its anchor, which another rendering may have replaced.
Faded ==
  /\ fading # <<>>
  /\ fading' = Tail(fading)
  /\ LET x == Head(fading).line
         s == IF Head(fading).by = shown.by THEN WipeLine(x.line, shown) ELSE shown
     IN  shown' = IF HasAnchor(x.page, x.line) THEN DrawLine(x, s) ELSE shown
  /\ UNCHANGED <<sessionVars, stored, main, layout, models, loading, backdrop,
                 clicks, failures, stuck, races>>

-----------------------------------------------------------------------------
\* A tab that opens with a token in the storage, which may be an old one.
Init ==
  /\ auth = 1
  /\ issued = 1
  /\ sessions \in SUBSET {1}
  /\ elsewhere = "out"
  /\ pending = {LoginCheck(None)}
  /\ answered = <<>>
  /\ stored = [p \in Page |-> [l \in LineIds(p) |-> Ocr]]
  /\ main = "other"
  /\ layout = None
  /\ models = [c \in Click |-> <<>>]
  /\ shown = Blank
  /\ loading = {}
  /\ fading = <<>>
  /\ backdrop = None
  /\ clicks = 0
  /\ failures = 0
  /\ stuck = {}
  /\ races = {}

UserStep ==
  \/ \E p \in Page : OpenPage(p) \/ TurnPage(p)
  \/ \E l \in AnyLine, t \in Text : EditLine(l, t)
  \/ \E p \in Page, l \in AnyLine, t \in Text : EditToken(p, l, t)
  \/ SearchConcordance
  \/ Redraw
  \/ GoElsewhere
  \/ SubmitLogin
  \/ ClickLogout

ServeAny   == \E r \in pending : Serve(r)
ReceiveAny == \E i \in DOMAIN answered : Receive(i)
Mishap     == \E r \in pending : Fail(r) \/ ServeCorrection(r, TRUE)
BrowserStep == Faded \/ \E x \in loading : ImagesLoaded(x)

Next == UserStep \/ ServeAny \/ Mishap \/ UseElsewhere \/ ReceiveAny
          \/ BrowserStep

(* The user owes nobody a click.  A request is answered, if only by a       *)
(* timeout of the proxy, and the browser runs the callbacks it has.         *)
Fairness == WF_vars(ServeAny) /\ WF_vars(ReceiveAny) /\ WF_vars(BrowserStep)

Spec == Init /\ [][Next]_vars /\ Fairness

-----------------------------------------------------------------------------
\* Type invariant.
TypeOK ==
  /\ auth \in Token \cup {NoToken} /\ sessions \subseteq Token
  /\ DOMAIN stored = Page
  /\ \A p \in Page : stored[p] \in [LineIds(p) -> Texts]
  /\ main \in {"page", "login", "other"}
  /\ {layout, backdrop} \subseteq Click \cup {None}
  /\ \A c \in Click : models[c] \in Seq(Lines \cup {Hole})
  /\ (main = "page") = (layout # None) /\ (main = "page") = (shown.page # None)
  /\ shown.page # None =>
       shown.tokens \in [LineIds(shown.page) -> Seq(Lines)]
  /\ loading \subseteq [layout : Click, by : Click]
  /\ fading \in Seq([line : Lines, by : Click])
  /\ stuck \subseteq Click /\ races \subseteq Races

\* Nothing is under way that could change what a line shows.
Quiet ==
  /\ \A r \in pending : r.op \in SessionOps \cup {"search"}
  /\ \A i \in DOMAIN answered : answered[i].req.op \in SessionOps \cup {"search"}
  /\ loading = {} /\ fading = <<>>

NoGaps(p) == LineIds(p) = 1..Cardinality(LineIds(p))

(* When nothing is under way, the page shows what the database has: its     *)
(* array holds the stored lines, in their places, and each line shows its   *)
(* stored text, once.  The exceptions are these: an answer has overtaken an *)
(* older one; a correction was answered when its page was no longer the one *)
(* of its layout; an answer was lost; the ids of the page's lines have a   *)
(* gap (lines[result.lineId-1], show_controller.js:342).  A second          *)
(* rendering while images still load draws lines twice ("hasty"), but       *)
(* leaves the array as it should be.                                        *)
ShownIsStored ==
  (Quiet /\ main = "page" /\ NoGaps(shown.page)
         /\ races \cap {"overtaken", "strayed", "lost"} = {}) =>
    /\ models[layout] = LinesOf(shown.page)
    /\ "hasty" \notin races =>
         \A l \in LineIds(shown.page) :
           shown.tokens[l] = <<Line(shown.page, l, stored[shown.page][l])>>

(* Whatever overtakes what, a line never shows the text of another line or  *)
(* another page: texts are drawn by anchors, not by places in the array.    *)
DrawnAtItsLine ==
  main = "page" =>
    \A l \in LineIds(shown.page) : \A i \in DOMAIN shown.tokens[l] :
      shown.tokens[l][i].page = shown.page /\ shown.tokens[l][i].line = l

\* The answer that has just arrived.
Arrives(i) == answered' = Without(answered, i)

(* The browser forgets a token the server would accept only when the user   *)
(* logs out, when a request with another token, an older one or a login's   *)
(* none, is refused, for the error handler (util.js:273) does not look      *)
(* which token was refused, or when the check of the login fails for any    *)
(* other reason than the token (users.js:91).                               *)
LiveTokenKept ==
  [][(auth # NoToken /\ auth' = NoToken /\ auth \in sessions) =>
       \E i \in DOMAIN answered :
         /\ Arrives(i)
         /\ \/ answered[i].req.op = "logout"
            \/ answered[i].status = "refused" /\ answered[i].req.auth # auth
            \/ answered[i].status = "failed" /\ answered[i].req.op = "loginCheck"]_vars

(* "Please wait" goes away, unless it is that of a page:new or of a search  *)
(* in the concordance that has failed (show_controller.js:290 and 415-422   *)
(* leave the backdrop).                                                     *)
BackdropLifts == backdrop # None ~> backdrop \in stuck \cup {None}

=============================================================================
