--------------------------- MODULE PageViewProofs ---------------------------
(***************************************************************************)
(* What holds of the session of the page view, of what it draws and of     *)
(* what it shows when nothing is under way, for any number of pages,       *)
(* lines, texts, tokens, requests, clicks and failures.                    *)
(***************************************************************************)
EXTENDS PageView, PageOrderProofs

DataOps == PageOps \cup LineOps \cup {"getLine"}

\* A request with its kind and a token that has been issued, or none, as that
\* of a login.
SoundRequest(r) == /\ {"op", "auth"} \subseteq DOMAIN r
                   /\ r.auth \in 0..issued
                   /\ r.op \in {"login", "inserting"} => r.auth = NoToken

Statuses == {"ok", "refused", "failed"}

(* What an answer says of tokens: the refused one is no session's (and will *)
(* be none's, since it has been issued), that of a login has been issued.   *)
Sound(a) == /\ SoundRequest(a.req)
            /\ a.status \in Statuses
            /\ a.status = "refused" => a.req.auth \notin sessions
            /\ a.status = "ok" /\ a.req.op = "login" => a.data \in 1..issued

Sequenced == \E S : answered \in Seq(S) /\ \A a \in S : Sound(a)

SessionInv ==
  /\ issued \in Nat
  /\ auth \in 0..issued
  /\ sessions \subseteq 1..issued
  /\ \A r \in pending : SoundRequest(r)
  /\ Sequenced

-----------------------------------------------------------------------------
(* Lists of answers.                                                        *)

(* An answer that is taken leaves the others. *)
LEMMA WithoutType ==
  ASSUME NEW S, NEW s \in Seq(S), NEW i \in DOMAIN s
  PROVE  Without(s, i) \in Seq(S) /\ s[i] \in S
<1>1. i \in 1..Len(s) /\ Len(s) \in Nat
  BY LenProperties
<1>2. SubSeq(s, 1, i - 1) \in Seq(S)
  BY <1>1, SubSeqProperties, ElementOfSeq
<1>3. SubSeq(s, i + 1, Len(s)) \in Seq(S)
  BY <1>1, SubSeqProperties, ElementOfSeq
<1>. QED BY <1>1, <1>2, <1>3, ConcatProperties, ElementOfSeq DEF Without

(* Every answer under way is sound. *)
LEMMA AnswerSound ==
  ASSUME Sequenced, NEW i \in DOMAIN answered
  PROVE  Sound(answered[i])
<1>1. PICK S : answered \in Seq(S) /\ \A a \in S : Sound(a)
  BY DEF Sequenced
<1>. QED BY <1>1, WithoutType

(* A sound answer stays so: no token is issued twice. *)
LEMMA StaysSound ==
  ASSUME issued \in Nat, issued' \in Nat, issued <= issued',
         sessions' \subseteq sessions \cup (issued + 1)..issued'
  PROVE  /\ \A r : SoundRequest(r) => SoundRequest(r)'
         /\ \A a : Sound(a) => Sound(a)'
<1>1. ASSUME NEW r, SoundRequest(r) PROVE SoundRequest(r)'
  BY <1>1 DEF SoundRequest
<1>2. ASSUME NEW a, Sound(a) PROVE Sound(a)'
  <2>1. a.req.auth \in 0..issued /\ SoundRequest(a.req)'
    BY <1>1, <1>2 DEF Sound, SoundRequest
  <2>2. a.status = "refused" => a.req.auth \notin sessions'
    BY <1>2, <2>1 DEF Sound
  <2>. QED BY <1>2, <2>1, <2>2 DEF Sound
<1>. QED BY <1>1, <1>2

(* The list stays sound when nothing is added, one is taken, or a sound     *)
(* answer is added.                                                         *)
LEMMA SequencedStays ==
  ASSUME Sequenced, \A a : Sound(a) => Sound(a)'
  PROVE  /\ answered' = answered => Sequenced'
         /\ \A i \in DOMAIN answered : answered' = Without(answered, i) => Sequenced'
         /\ \A a : answered' = Append(answered, a) /\ Sound(a)' => Sequenced'
<1>1. PICK S : answered \in Seq(S) /\ \A a \in S : Sound(a)
  BY DEF Sequenced
<1>2. \A a \in S : Sound(a)'
  BY <1>1
<1>3. answered' = answered => Sequenced'
  BY <1>1, <1>2 DEF Sequenced
<1>4. ASSUME NEW i \in DOMAIN answered, answered' = Without(answered, i) PROVE Sequenced'
  BY <1>1, <1>2, <1>4, WithoutType DEF Sequenced
<1>5. ASSUME NEW a, answered' = Append(answered, a), Sound(a)' PROVE Sequenced'
  <2>1. answered \in Seq(S \cup {a})
    BY <1>1, SeqMonotonic
  <2>2. answered' \in Seq(S \cup {a})
    BY <1>5, <2>1
  <2>. QED BY <1>2, <1>5, <2>2 DEF Sequenced
<1>. QED BY <1>3, <1>4, <1>5

-----------------------------------------------------------------------------
(* The steps.                                                               *)

LEMMA InitSession == Init => SessionInv
<1>. SUFFICES ASSUME Init PROVE SessionInv
  OBVIOUS
<1>1. SoundRequest(LoginCheck(None))
  BY DEF Init, SoundRequest, LoginCheck, SessionRequest
<1>2. answered \in Seq({})
  BY EmptySeq DEF Init
<1>3. Sequenced
  BY <1>2 DEF Sequenced
<1>. QED BY <1>1, <1>3 DEF Init, SessionInv

(* The user's requests have the browser's token. *)
LEMMA UserSession ==
  ASSUME SessionInv, UserStep
  PROVE  SessionInv'
<1>. USE DEF SessionInv
<1>1. ASSUME NEW r, Causes(r), SoundRequest(r) PROVE SessionInv'
  <2>1. UNCHANGED <<auth, issued, sessions, answered>> /\ pending' = pending \cup {r}
    BY <1>1 DEF Causes, Ask
  <2>2. Sequenced'
    BY <2>1, StaysSound, SequencedStays
  <2>. QED BY <1>1, <2>1, <2>2, StaysSound
<1>2. ASSUME NEW op \in DataOps \cup {"search"}, NEW p, NEW l, NEW t
      PROVE  SoundRequest(PageRequest(op, p, l, t))
  BY DEF SoundRequest, PageRequest, DataOps, PageOps, LineOps
<1>3. SoundRequest(Login(clicks + 1)) /\ SoundRequest(Logout(clicks + 1))
  BY DEF SoundRequest, Login, Logout, SessionRequest, NoToken
<1>4. ASSUME NEW p \in Page, OpenPage(p) \/ TurnPage(p) PROVE SessionInv'
  BY <1>1, <1>2, <1>4 DEF OpenPage, TurnPage, GetPage, DataOps, PageOps
<1>5. ASSUME NEW l \in AnyLine, NEW t \in Text, EditLine(l, t) PROVE SessionInv'
  BY <1>1, <1>2, <1>5 DEF EditLine, CorrectLine, DataOps, LineOps
<1>6. ASSUME NEW p \in Page, NEW l \in AnyLine, NEW t \in Text, EditToken(p, l, t)
      PROVE  SessionInv'
  BY <1>1, <1>2, <1>6 DEF EditToken, CorrectToken, DataOps, LineOps
<1>7. CASE SubmitLogin \/ ClickLogout \/ SearchConcordance
  BY <1>1, <1>2, <1>3, <1>7 DEF SubmitLogin, ClickLogout, SearchConcordance, GetPage
<1>8. CASE Redraw \/ GoElsewhere
  <2>1. UNCHANGED sessionVars
    BY <1>8 DEF Redraw, GoElsewhere
  <2>2. Sequenced'
    BY <2>1, StaysSound, SequencedStays DEF sessionVars
  <2>. QED BY <2>1, <2>2, StaysSound DEF sessionVars
<1>. QED BY <1>4, <1>5, <1>6, <1>7, <1>8 DEF UserStep

(* A sound answer to a request is added. *)
LEMMA ReplySession ==
  ASSUME SessionInv, NEW r \in pending, NEW a, Reply(r, a), auth' = auth,
         issued' \in Nat, issued <= issued',
         sessions' \subseteq sessions \cup (issued + 1)..issued', Sound(a)'
  PROVE  SessionInv'
<1>. USE DEF SessionInv
<1>1. pending' \subseteq pending /\ answered' = Append(answered, a)
  BY DEF Reply
<1>2. Sequenced'
  BY <1>1, StaysSound, SequencedStays
<1>. QED BY <1>1, <1>2, StaysSound

(* An answer made in a state is sound in it. *)
LEMMA SoundAnswer ==
  ASSUME NEW r, NEW status \in Statuses, NEW data, SoundRequest(r),
         status = "refused" => r.auth \notin sessions,
         status = "ok" => r.op # "login"
  PROVE  Sound(Answer(r, status, data))
BY DEF Sound, Answer

(* No token is issued or taken into the table, and r is answered. *)
LEMMA AnsweredSession ==
  ASSUME SessionInv, NEW r \in pending, NEW status \in Statuses, NEW data,
         Reply(r, Answer(r, status, data)), auth' = auth, issued' = issued,
         sessions' \subseteq sessions,
         status = "refused" => r.auth \notin sessions,
         status = "ok" => r.op # "login"
  PROVE  SessionInv'
<1>. USE DEF SessionInv
<1>1. PICK a : a = Answer(r, status, data)
  OBVIOUS
<1>2. Sound(a)
  BY <1>1, SoundAnswer
<1>3. Sound(a)'
  BY <1>2, StaysSound
<1>. QED BY <1>1, <1>3, ReplySession

LEMMA LoginSession ==
  ASSUME SessionInv, NEW r \in pending, ServeSession(r)
  PROVE  SessionInv'
<1>. USE DEF SessionInv
<1>0. SoundRequest(r)
  OBVIOUS
<1>1. CASE ServeLoginDelete(r)
  <2>. DEFINE q == [r EXCEPT !.op = "inserting"]
  <2>1. /\ sessions' = {} /\ UNCHANGED <<auth, issued, answered>>
        /\ pending' = (pending \ {r}) \cup {q}
    BY <1>1 DEF ServeLoginDelete
  <2>2. SoundRequest(q)
    BY <1>0, <1>1 DEF SoundRequest, ServeLoginDelete
  <2>. HIDE DEF q
  <2>3. Sequenced'
    BY <2>1, StaysSound, SequencedStays
  <2>. QED BY <2>1, <2>2, <2>3, StaysSound
<1>2. CASE ServeLoginInsert(r)
  <2>1. PICK d, a : d = issued' /\ a = Answer([r EXCEPT !.op = "login"], "ok", issued')
    OBVIOUS
  <2>2. /\ d = issued + 1 /\ sessions' = sessions \cup {d} /\ auth' = auth
        /\ Reply(r, a) /\ r.op = "inserting"
    BY <1>2, <2>1 DEF ServeLoginInsert
  <2>3. a.req = [r EXCEPT !.op = "login"] /\ a.status = "ok" /\ a.data = d
    BY <2>1 DEF Answer
  <2>4. SoundRequest(a.req)'
    BY <1>0, <2>1, <2>2, <2>3 DEF SoundRequest
  <2>5. Sound(a)'
    BY <2>1, <2>2, <2>3, <2>4 DEF Sound, Statuses
  <2>. QED BY <2>1, <2>2, <2>5, ReplySession
<1>3. CASE ServeLoginCheck(r)
  <2>1. PICK status \in Statuses : status = IF Accepts(r) THEN "ok" ELSE "refused"
    BY DEF Statuses
  <2>2. /\ Reply(r, Answer(r, status, NoToken)) /\ UNCHANGED <<auth, issued, sessions>>
        /\ r.op = "loginCheck"
    BY <1>3, <2>1 DEF ServeLoginCheck
  <2>. QED BY <2>1, <2>2, AnsweredSession DEF Accepts
<1>4. CASE ServeLogout(r)
  <2>1. PICK status \in Statuses : status = IF Accepts(r) THEN "ok" ELSE "refused"
    BY DEF Statuses
  <2>2. /\ Reply(r, Answer(r, status, NoToken)) /\ UNCHANGED <<auth, issued>>
        /\ sessions' \subseteq sessions
        /\ r.op = "logout"
    BY <1>4, <2>1 DEF ServeLogout
  <2>. QED BY <2>1, <2>2, AnsweredSession DEF Accepts
<1>5. CASE RefuseLogin(r)
  <2>1. NoToken \notin sessions
    BY DEF NoToken
  <2>2. r.auth \notin sessions
    BY <1>0, <1>5, <2>1 DEF RefuseLogin, SoundRequest
  <2>. QED BY <1>5, <2>2, AnsweredSession DEF RefuseLogin, Statuses
<1>. QED BY <1>1, <1>2, <1>3, <1>4, <1>5 DEF ServeSession

(* The gateway and the routes behind it issue no tokens. *)
LEMMA ServerSession ==
  ASSUME SessionInv, ServeAny \/ Mishap \/ UseElsewhere
  PROVE  SessionInv'
<1>. USE DEF Untouched
<1>. USE DEF Statuses
<1>1. ASSUME NEW r \in pending, Refuse(r) PROVE SessionInv'
  BY <1>1, AnsweredSession DEF Refuse, Accepts
<1>2. ASSUME NEW r \in pending, ServeRead(r) PROVE SessionInv'
  <2>1. PICK d : d = DataFor(r)
    OBVIOUS
  <2>2. r.op # "login"
    BY <1>2 DEF ServeRead, PageOps
  <2>. QED BY <1>2, <2>1, <2>2, AnsweredSession DEF ServeRead
<1>3. ASSUME NEW r \in pending, NEW late \in BOOLEAN, ServeCorrection(r, late) PROVE SessionInv'
  <2>1. PICK d : d = Line(r.page, r.line, r.text)
    OBVIOUS
  <2>2. r.op # "login"
    BY <1>3 DEF ServeCorrection, LineOps
  <2>3. late => Reply(r, Answer(r, "failed", None))
    BY <1>3 DEF ServeCorrection
  <2>4. ~late => Reply(r, Answer(r, "ok", d))
    BY <1>3, <2>1 DEF ServeCorrection
  <2>5. UNCHANGED <<auth, issued, sessions>>
    BY <1>3 DEF ServeCorrection
  <2>6. CASE late
    BY <2>3, <2>5, <2>6, AnsweredSession
  <2>7. CASE ~late
    BY <2>2, <2>4, <2>5, <2>7, AnsweredSession
  <2>. QED BY <2>6, <2>7
<1>4. ASSUME NEW r \in pending, Fail(r) PROVE SessionInv'
  <2>1. PICK q : q = AsSent(r)
    OBVIOUS
  <2>2. SoundRequest(r)
    BY DEF SessionInv
  <2>3. SoundRequest(q)
    BY <2>1, <2>2 DEF SoundRequest, AsSent
  <2>4. Sound(Answer(q, "failed", None))
    BY <2>3, SoundAnswer
  <2>5. PICK a : a = Answer(q, "failed", None)
    OBVIOUS
  <2>6. /\ Reply(r, a) /\ UNCHANGED <<auth, issued, sessions>>
        /\ issued' \in Nat /\ issued <= issued'
        /\ sessions' \subseteq sessions \cup (issued + 1)..issued'
    BY <1>4, <2>1, <2>5 DEF Fail, SessionInv
  <2>7. Sound(a)'
    BY <2>4, <2>5, <2>6, StaysSound DEF SessionInv
  <2>. QED BY <2>6, <2>7, ReplySession
<1>6. ASSUME NEW r \in pending, ServeSearch(r) PROVE SessionInv'
  BY <1>6, AnsweredSession DEF ServeSearch
<1>5. CASE UseElsewhere
  <2>1. /\ UNCHANGED <<auth, pending, answered>>
        /\ \/ issued' = issued /\ sessions' = {}
           \/ issued' = issued + 1 /\ sessions' = sessions \cup {issued'}
    BY <1>5 DEF UseElsewhere, LoginElsewhereDelete, LoginElsewhereInsert
  <2>2. issued' \in Nat /\ issued <= issued' /\ sessions' \subseteq sessions \cup (issued + 1)..issued'
    BY <2>1 DEF SessionInv
  <2>3. Sequenced'
    BY <2>1, <2>2, StaysSound, SequencedStays DEF SessionInv
  <2>. QED BY <2>1, <2>2, <2>3, StaysSound DEF SessionInv
<1>. QED BY <1>1, <1>2, <1>3, <1>4, <1>5, <1>6, LoginSession DEF ServeAny, Serve, Mishap

\* The answers that make a callback forget the token.
Forgets(i) == \/ answered[i].status = "refused" \/ answered[i].req.op = "logout"
              \/ answered[i].status = "failed" /\ answered[i].req.op = "loginCheck"

(* What an arriving answer does to the token: nothing, it brings a new one, *)
(* or it was refused, is that of a logout or that of a check that failed.   *)
LEMMA ReceiveToken ==
  ASSUME SessionInv, NEW i \in DOMAIN answered, Receive(i)
  PROVE  /\ answered' = Without(answered, i)
         /\ \/ pending' = pending
            \/ pending' = pending \cup {GetLine(answered[i].req)}
         /\ UNCHANGED <<sessions, issued>>
         /\ \/ auth' = auth
            \/ auth' \in 1..issued
            \/ auth' = NoToken /\ Forgets(i)
<1>. USE DEF Take, DefaultErrorHandling, ForgetToken, Forgets
<1>0. UNCHANGED <<sessions, issued>>
  BY DEF Receive
<1>1. CASE PageOpened(i) \/ PageTurned(i) \/ LineCorrected(i) \/ LineFetched(i) \/ LineNotFetched(i)
        \/ Searched(i) \/ SearchFailed(i)
  BY <1>0, <1>1 DEF PageOpened, PageTurned, LineCorrected, LineFetched, LineNotFetched,
                    Searched, SearchFailed, viewVars
<1>2. CASE TokenCorrected(i)
  BY <1>0, <1>2 DEF TokenCorrected
<1>3. CASE PageFailed(i) \/ CorrectionFailed(i) \/ LoginFailed(i)
  BY <1>0, <1>3 DEF PageFailed, CorrectionFailed, LoginFailed
<1>4. CASE LoggedIn(i)
  <2>1. answered[i].data \in 1..issued
    BY <1>4, AnswerSound DEF SessionInv, Sound, LoggedIn, Good
  <2>. QED BY <1>0, <1>4, <2>1 DEF LoggedIn
<1>5. CASE LoggedOut(i)
  BY <1>0, <1>5 DEF LoggedOut
<1>6. CASE LoginChecked(i)
  <2>1. answered[i].status \in Statuses
    BY AnswerSound DEF SessionInv, Sound
  <2>. QED BY <1>0, <1>6, <2>1 DEF LoginChecked, Statuses
<1>. QED BY <1>1, <1>2, <1>3, <1>4, <1>5, <1>6 DEF Receive

LEMMA ReceiveSession ==
  ASSUME SessionInv, ReceiveAny
  PROVE  SessionInv'
<1>. USE DEF SessionInv
<1>1. PICK i \in DOMAIN answered : Receive(i)
  BY DEF ReceiveAny
<1>2. Sequenced'
  BY <1>1, ReceiveToken, StaysSound, SequencedStays
<1>3. SoundRequest(GetLine(answered[i].req))
  <2>1. SoundRequest(answered[i].req)
    BY AnswerSound DEF Sound
  <2>. QED BY <2>1 DEF SoundRequest, GetLine
<1>4. \A r \in pending' : SoundRequest(r)'
  BY <1>1, <1>3, ReceiveToken, StaysSound
<1>5. auth' \in 0..issued /\ UNCHANGED <<sessions, issued>>
  BY <1>1, ReceiveToken DEF NoToken
<1>. QED BY <1>2, <1>4, <1>5

LEMMA StepSession ==
  ASSUME SessionInv, [Next]_vars
  PROVE  SessionInv'
<1>1. CASE BrowserStep \/ UNCHANGED vars
  <2>1. UNCHANGED sessionVars
    BY <1>1 DEF BrowserStep, Faded, ImagesLoaded, vars
  <2>2. Sequenced'
    BY <2>1, StaysSound, SequencedStays DEF sessionVars, SessionInv
  <2>. QED BY <2>1, <2>2, StaysSound DEF sessionVars, SessionInv
<1>. QED BY <1>1, UserSession, ServerSession, ReceiveSession DEF Next

(* No token but those that have been issued is anywhere, and what has been  *)
(* refused once is refused for ever.                                        *)
THEOREM TokensSound == Spec => []SessionInv
BY InitSession, StepSession, PTL DEF Spec

-----------------------------------------------------------------------------
(* The token the browser has.                                               *)

(* Only the callbacks change the browser's token. *)
LEMMA OthersKeepToken ==
  ASSUME UserStep \/ ServeAny \/ Mishap \/ UseElsewhere \/ BrowserStep \/ UNCHANGED vars
  PROVE  auth' = auth
<1>1. CASE UserStep
  BY <1>1 DEF UserStep, OpenPage, TurnPage, EditLine, EditToken, Redraw, GoElsewhere,
              SearchConcordance, SubmitLogin, ClickLogout, Causes, sessionVars
<1>2. CASE ServeAny \/ Mishap
  BY <1>2 DEF ServeAny, Mishap, Serve, Refuse, ServeRead, ServeSearch, ServeCorrection, Fail,
              Untouched, ServeSession, RefuseLogin, ServeLoginDelete, ServeLoginInsert, ServeLoginCheck, ServeLogout
<1>3. CASE UseElsewhere
  BY <1>3 DEF UseElsewhere, LoginElsewhereDelete, LoginElsewhereInsert
<1>4. CASE BrowserStep \/ UNCHANGED vars
  BY <1>4 DEF BrowserStep, Faded, ImagesLoaded, vars, sessionVars
<1>. QED BY <1>1, <1>2, <1>3, <1>4

(* The browser forgets a token the server would accept only when the user   *)
(* logs out, when a request with another token is refused (util.js:273), or *)
(* when the check of the login fails, with whatever error (users.js:91).    *)
THEOREM LiveTokenIsKept == Spec => LiveTokenKept
<1>. DEFINE Kept == (auth # NoToken /\ auth' = NoToken /\ auth \in sessions) =>
                      \E i \in DOMAIN answered :
                        /\ Arrives(i)
                        /\ \/ answered[i].req.op = "logout"
                           \/ answered[i].status = "refused" /\ answered[i].req.auth # auth
                           \/ answered[i].status = "failed"
                                /\ answered[i].req.op = "loginCheck"
<1>1. SessionInv /\ [Next]_vars => [Kept]_vars
  <2>. SUFFICES ASSUME SessionInv, [Next]_vars, auth # NoToken, auth' = NoToken, auth \in sessions
                PROVE  \E i \in DOMAIN answered :
                         /\ Arrives(i)
                         /\ \/ answered[i].req.op = "logout"
                            \/ answered[i].status = "refused" /\ answered[i].req.auth # auth
                            \/ answered[i].status = "failed"
                                 /\ answered[i].req.op = "loginCheck"
    OBVIOUS
  <2>1. PICK i \in DOMAIN answered : Receive(i)
    BY OthersKeepToken DEF Next, ReceiveAny
  <2>2. Arrives(i) /\ Forgets(i)
    BY <2>1, ReceiveToken DEF Arrives, NoToken, SessionInv
  <2>3. answered[i].status = "refused" => answered[i].req.auth # auth
    BY AnswerSound DEF SessionInv, Sound
  <2>. QED BY <2>2, <2>3 DEF Forgets
<1>. QED BY <1>1, TokensSound, PTL DEF Spec, LiveTokenKept

-----------------------------------------------------------------------------
(* The types of requests, answers and of what is drawn.                     *)

(* A request about a page was caused by a click; that for a line came from  *)
(* the layout of a page, and the page has the line.                         *)
GoodRequest(r) ==
  /\ r.op \in DataOps =>
       /\ {"n", "op", "auth", "layout", "page", "line", "text"} \subseteq DOMAIN r
       /\ r.n \in Click /\ r.page \in Page
       /\ r.op # "openPage" => r.layout \in Click
       /\ r.op \notin PageOps => r.line \in LineIds(r.page)
       /\ r.op \in LineOps => r.text \in Text
  /\ r.op = "search" => {"n", "op", "auth"} \subseteq DOMAIN r /\ r.n \in Click

\* What is drawn at the line l of the page p.
TokensOf(p, l) == {x \in Lines : x.page = p /\ x.line = l}

GoodAnswer(a) ==
  /\ GoodRequest(a.req)
  /\ a.status = "ok" /\ a.req.op \in PageOps => a.data \in Seq(Lines)
  /\ a.status = "ok" /\ a.req.op \in {"correctLine", "getLine"} =>
       a.data \in TokensOf(a.req.page, a.req.line)

Answers == \E S : answered \in Seq(S) /\ \A a \in S : GoodAnswer(a)

MessagesInv == (\A r \in pending : GoodRequest(r)) /\ Answers

\* Each line of the document shows tokens of its own.
Document(s) ==
  /\ {"page", "by", "tokens"} \subseteq DOMAIN s
  /\ s.page \in Page /\ s.by \in Click
  /\ s.tokens \in [LineIds(s.page) -> Seq(Lines)]
  /\ \A l \in LineIds(s.page) : s.tokens[l] \in Seq(TokensOf(s.page, l))

StoredInv ==
  DOMAIN stored = Page /\ \A p \in Page : stored[p] \in [LineIds(p) -> Texts]

Arrays == DOMAIN models = Click /\ \A c \in Click : models[c] \in Seq(Lines \cup {Hole})

MainInv ==
  /\ main \in {"page", "login", "other"}
  /\ layout \in Click \cup {None}
  /\ (main = "page") = (layout # None) /\ (main = "page") = (shown.page # None)
  /\ main = "page" => Document(shown)

EventsInv ==
  /\ loading \subseteq [layout : Click, by : Click]
  /\ fading \in Seq([line : Lines, by : Click])
  /\ backdrop \in Click \cup {None}
  /\ clicks \in 0..MaxClicks
  /\ stuck \subseteq Click /\ races \subseteq Races

ViewInv ==
  /\ issued <= MaxTokens
  /\ MessagesInv /\ StoredInv /\ Arrays /\ MainInv /\ EventsInv

-----------------------------------------------------------------------------
(* The operators on lines and documents.                                    *)

LEMMA PageFacts ==
  /\ Click \subseteq Nat \ {0} /\ None = 0 /\ None \notin Page
  /\ \A p \in Page : /\ LineIds(p) \subseteq Nat \ {0} /\ IsFiniteSet(LineIds(p))
                     /\ LineIds(p) \subseteq AnyLine /\ Edited(p) \subseteq LineIds(p)
BY PageViewAssumption DEF Click, None, AnyLine

(* Lists without elements, one longer, and joined. *)
LEMMA ListFacts ==
  ASSUME NEW S
  PROVE  /\ <<>> \in Seq(S)
         /\ \A s \in Seq(S), x \in S : Append(s, x) \in Seq(S)
         /\ \A s, t \in Seq(S) : s \o t \in Seq(S)
         /\ \A s \in Seq(S) : s # <<>> => Head(s) \in S /\ Tail(s) \in Seq(S)
OBVIOUS

(* An answer a route gives for a page: its lines, as they are stored. *)
LEMMA LinesOfType ==
  ASSUME StoredInv, NEW p \in Page
  PROVE  /\ LinesOf(p) \in Seq(Lines)
         /\ \A l \in LineIds(p) : Line(p, l, stored[p][l]) \in TokensOf(p, l)
<1>1. \A l \in LineIds(p) : Line(p, l, stored[p][l]) \in TokensOf(p, l)
  BY PageFacts DEF StoredInv, Line, Lines, TokensOf
<1>2. PICK ids : ids = Ascending(LineIds(p))
  OBVIOUS
<1>3. ids \in Seq(LineIds(p))
  <2>1. LineIds(p) \in SUBSET Int /\ IsFiniteSet(LineIds(p))
    BY PageFacts
  <2>. QED BY <1>2, <2>1, AscendingIs
<1>4. ids \in [1..Len(ids) -> LineIds(p)] /\ DOMAIN ids = 1..Len(ids) /\ Len(ids) \in Nat
  BY <1>3, LenProperties
<1>5. LinesOf(p) = [i \in DOMAIN ids |-> Line(p, ids[i], stored[p][ids[i]])]
  BY <1>2 DEF LinesOf
<1>6. LinesOf(p) \in [1..Len(ids) -> Lines]
  BY <1>1, <1>4, <1>5 DEF TokensOf
<1>. QED BY <1>1, <1>4, <1>6, SeqDef

LEMMA SetAtType ==
  ASSUME NEW lines \in Seq(Lines \cup {Hole}), NEW l \in Nat \ {0}, NEW x \in Lines
  PROVE  SetAt(lines, l, x) \in Seq(Lines \cup {Hole})
<1>. DEFINE n == IF l > Len(lines) THEN l ELSE Len(lines)
<1>1. lines \in [1..Len(lines) -> Lines \cup {Hole}] /\ Len(lines) \in Nat
  BY LenProperties
<1>2. n \in Nat
  BY <1>1
<1>. HIDE DEF n
<1>3. SetAt(lines, l, x) = [i \in 1..n |-> IF i = l THEN x
                                           ELSE IF i <= Len(lines) THEN lines[i] ELSE Hole]
  BY DEF SetAt, n
<1>4. \A i \in 1..n : i <= Len(lines) => lines[i] \in Lines \cup {Hole}
  BY <1>1, <1>2
<1>5. SetAt(lines, l, x) \in [1..n -> Lines \cup {Hole}]
  BY <1>3, <1>4
<1>. QED BY <1>2, <1>5, SeqDef

LEMMA EntriesType ==
  ASSUME NEW S, NEW lines, NEW at \in SUBSET Nat, IsFiniteSet(at),
         \A i \in at : lines[i] \in S
  PROVE  EntriesAt(lines, at) \in Seq(S)
<1>1. PICK s : s = Ascending(at)
  OBVIOUS
<1>2. at \in SUBSET Int
  OBVIOUS
<1>3. s \in Seq(at)
  BY <1>1, <1>2, AscendingIs
<1>4. s \in [1..Len(s) -> at] /\ DOMAIN s = 1..Len(s) /\ Len(s) \in Nat
  BY <1>3, LenProperties
<1>5. EntriesAt(lines, at) = [k \in DOMAIN s |-> lines[s[k]]]
  BY <1>1 DEF EntriesAt
<1>6. EntriesAt(lines, at) \in [1..Len(s) -> S]
  BY <1>4, <1>5
<1>. QED BY <1>4, <1>6, SeqDef

(* What is drawn at a line is what the array has of this line of this page, *)
(* wherever it is in the array.                                             *)
LEMMA DrawType ==
  ASSUME NEW s, Document(s), NEW lines \in Seq(Lines \cup {Hole})
  PROVE  Document(Draw(lines, s)) /\ Draw(lines, s).page = s.page /\ Draw(lines, s).by = s.by
<1>. DEFINE images == Cardinality(LineIds(s.page))
            drawn  == {i \in DOMAIN lines :
                         i <= images /\ \A j \in 1..i : lines[j].page \in {s.page, None}}
            at(l)  == {i \in drawn : lines[i].line = l}
            tokens == [l \in LineIds(s.page) |-> s.tokens[l] \o EntriesAt(lines, at(l))]
<1>1. s.page \in Page /\ s.page # None /\ LineIds(s.page) \subseteq Nat \ {0}
  BY PageFacts DEF Document
<1>2. /\ lines \in [1..Len(lines) -> Lines \cup {Hole}]
      /\ DOMAIN lines = 1..Len(lines) /\ Len(lines) \in Nat
  BY LenProperties
<1>3. ASSUME NEW l \in LineIds(s.page)
      PROVE  EntriesAt(lines, at(l)) \in Seq(TokensOf(s.page, l))
  <2>1. ASSUME NEW i \in at(l) PROVE lines[i] \in TokensOf(s.page, l)
    <3>1. i \in 1..Len(lines) /\ lines[i] \in Lines \cup {Hole} /\ lines[i].line = l
      BY <1>2
    <3>2. lines[i].page \in {s.page, None}
      <4>1. i \in 1..i
        BY <1>2
      <4>. QED BY <4>1
    <3>3. lines[i] # Hole
      BY <1>1, <3>1 DEF Hole, None
    <3>4. lines[i] \in Lines /\ lines[i].page \in Page
      BY <3>1, <3>3 DEF Lines
    <3>. QED BY <3>1, <3>2, <3>4, PageFacts DEF TokensOf
  <2>2. at(l) \in SUBSET (1..Len(lines)) /\ at(l) \in SUBSET Nat
    BY <1>2
  <2>3. IsFiniteSet(1..Len(lines))
    BY <1>2, FS_Interval
  <2>4. IsFiniteSet(at(l))
    BY <2>2, <2>3, FS_Subset
  <2>5. PICK T : T = at(l)
    OBVIOUS
  <2>. HIDE DEF at
  <2>. QED BY <2>1, <2>2, <2>4, <2>5, EntriesType
<1>4. Draw(lines, s) = [s EXCEPT !.tokens = tokens]
  BY DEF Draw
<1>. HIDE DEF tokens
<1>5. /\ DOMAIN Draw(lines, s) = DOMAIN s
      /\ Draw(lines, s).page = s.page /\ Draw(lines, s).by = s.by
      /\ Draw(lines, s).tokens = tokens
  BY <1>4 DEF Document
<1>6. \A l \in LineIds(s.page) : tokens[l] \in Seq(TokensOf(s.page, l))
  <2>. HIDE DEF at
  <2>1. \A l \in LineIds(s.page) : tokens[l] = s.tokens[l] \o EntriesAt(lines, at(l))
    BY DEF tokens
  <2>2. \A l \in LineIds(s.page) : s.tokens[l] \in Seq(TokensOf(s.page, l))
    BY DEF Document
  <2>. QED BY <1>3, <2>1, <2>2, ListFacts
<1>7. \A l \in LineIds(s.page) : tokens[l] \in Seq(Lines)
  <2>1. \A l \in LineIds(s.page) : TokensOf(s.page, l) \subseteq Lines
    BY DEF TokensOf
  <2>. QED BY <1>6, <2>1, SeqMonotonic
<1>8. DOMAIN tokens = LineIds(s.page) /\ tokens = [l \in LineIds(s.page) |-> tokens[l]]
  BY DEF tokens
<1>9. tokens \in [LineIds(s.page) -> Seq(Lines)]
  BY <1>7, <1>8
<1>. QED BY <1>5, <1>6, <1>9 DEF Document

LEMMA DrawLineType ==
  ASSUME NEW s, Document(s), NEW x, x.line \in LineIds(s.page), x \in TokensOf(s.page, x.line)
  PROVE  /\ Document(DrawLine(x, s))
         /\ DrawLine(x, s).page = s.page /\ DrawLine(x, s).by = s.by
<1>1. /\ DOMAIN DrawLine(x, s) = DOMAIN s
      /\ DrawLine(x, s).page = s.page /\ DrawLine(x, s).by = s.by
      /\ DrawLine(x, s).tokens = [s.tokens EXCEPT ![x.line] = Append(s.tokens[x.line], x)]
  BY DEF Document, DrawLine
<1>2. /\ Append(s.tokens[x.line], x) \in Seq(TokensOf(s.page, x.line))
      /\ Append(s.tokens[x.line], x) \in Seq(Lines)
  <2>1. s.tokens[x.line] \in Seq(TokensOf(s.page, x.line)) /\ s.tokens[x.line] \in Seq(Lines)
    BY DEF Document
  <2>2. x \in Lines
    BY DEF TokensOf
  <2>. QED BY <2>1, <2>2, ListFacts
<1>. QED BY <1>1, <1>2 DEF Document

LEMMA WipeType ==
  ASSUME NEW s, Document(s)
  PROVE  /\ Document(Wipe(s)) /\ Wipe(s).page = s.page /\ Wipe(s).by = s.by
         /\ \A l \in LineIds(s.page) :
              Document(WipeLine(l, s)) /\ WipeLine(l, s).page = s.page /\ WipeLine(l, s).by = s.by
<1>1. \A S : <<>> \in Seq(S)
  BY ListFacts
<1>2. /\ DOMAIN Wipe(s) = DOMAIN s
      /\ Wipe(s).page = s.page /\ Wipe(s).by = s.by /\ Wipe(s).tokens = Empty(s.page)
  BY DEF Document, Wipe
<1>3. Document(Wipe(s))
  BY <1>1, <1>2 DEF Document, Empty
<1>4. ASSUME NEW l \in LineIds(s.page)
      PROVE  Document(WipeLine(l, s)) /\ WipeLine(l, s).page = s.page /\ WipeLine(l, s).by = s.by
  <2>1. /\ DOMAIN WipeLine(l, s) = DOMAIN s
        /\ WipeLine(l, s).page = s.page /\ WipeLine(l, s).by = s.by
        /\ WipeLine(l, s).tokens = [s.tokens EXCEPT ![l] = <<>>]
    BY DEF Document, WipeLine
  <2>. QED BY <1>1, <2>1 DEF Document
<1>. QED BY <1>2, <1>3, <1>4

-----------------------------------------------------------------------------
(* The types are kept.                                                       *)

LEMMA GoodAnswerIs ==
  ASSUME NEW r, NEW status, NEW data, GoodRequest(r),
         status = "ok" /\ r.op \in PageOps => data \in Seq(Lines),
         status = "ok" /\ r.op \in {"correctLine", "getLine"} => data \in TokensOf(r.page, r.line)
  PROVE  GoodAnswer(Answer(r, status, data))
BY DEF GoodAnswer, Answer

LEMMA AnswerGood ==
  ASSUME Answers, NEW i \in DOMAIN answered
  PROVE  GoodAnswer(answered[i])
<1>1. PICK S : answered \in Seq(S) /\ \A a \in S : GoodAnswer(a)
  BY DEF Answers
<1>. QED BY <1>1, WithoutType

(* The answers under way stay good when one is added or taken. *)
LEMMA AnswersStay ==
  ASSUME Answers
  PROVE  /\ answered' = answered => Answers'
         /\ \A i \in DOMAIN answered : answered' = Without(answered, i) => Answers'
         /\ \A a : answered' = Append(answered, a) /\ GoodAnswer(a) => Answers'
<1>1. PICK S : answered \in Seq(S) /\ \A a \in S : GoodAnswer(a)
  BY DEF Answers
<1>2. answered' = answered => Answers'
  BY <1>1 DEF Answers
<1>3. ASSUME NEW i \in DOMAIN answered, answered' = Without(answered, i) PROVE Answers'
  BY <1>1, <1>3, WithoutType DEF Answers
<1>4. ASSUME NEW a, answered' = Append(answered, a), GoodAnswer(a) PROVE Answers'
  <2>1. answered \in Seq(S \cup {a})
    BY <1>1, SeqMonotonic
  <2>2. answered' \in Seq(S \cup {a})
    BY <1>4, <2>1
  <2>. QED BY <1>1, <1>4, <2>2 DEF Answers
<1>. QED BY <1>2, <1>3, <1>4

LEMMA InitView == Init => ViewInv
<1>. SUFFICES ASSUME Init PROVE ViewInv
  OBVIOUS
<1>1. issued <= MaxTokens
  BY SessionAssumption DEF Init
<1>2. MessagesInv
  <2>1. GoodRequest(LoginCheck(None))
    BY DEF GoodRequest, LoginCheck, SessionRequest, DataOps, PageOps, LineOps
  <2>2. answered \in Seq({})
    BY EmptySeq DEF Init
  <2>. QED BY <2>1, <2>2 DEF Init, MessagesInv, Answers
<1>3. StoredInv
  BY DEF Init, StoredInv, Texts
<1>4. Arrays
  BY ListFacts DEF Init, Arrays
<1>5. MainInv
  BY DEF Init, MainInv, Blank
<1>6. EventsInv
  <2>1. fading \in Seq([line : Lines, by : Click])
    BY EmptySeq DEF Init
  <2>2. clicks \in 0..MaxClicks
    BY PageViewAssumption DEF Init
  <2>. QED BY <2>1, <2>2 DEF Init, EventsInv
<1>. QED BY <1>1, <1>2, <1>3, <1>4, <1>5, <1>6 DEF ViewInv

(* A click that sends a request. *)
LEMMA CausesView ==
  ASSUME ViewInv, NEW r, Causes(r), GoodRequest(r)
  PROVE  /\ issued' <= MaxTokens
         /\ MessagesInv' /\ StoredInv' /\ clicks' \in Click /\ clicks' \in 0..MaxClicks
         /\ UNCHANGED stuck
<1>1. /\ UNCHANGED <<answered, issued, stored, stuck>> /\ pending' = pending \cup {r}
      /\ clicks' = clicks + 1 /\ clicks < MaxClicks
  BY DEF Causes, Ask
<1>2. clicks' \in Click /\ clicks' \in 0..MaxClicks
  BY <1>1, PageViewAssumption DEF ViewInv, EventsInv, Click
<1>3. Answers'
  BY <1>1, AnswersStay DEF ViewInv, MessagesInv
<1>4. StoredInv'
  BY <1>1 DEF ViewInv, StoredInv
<1>. QED BY <1>1, <1>2, <1>3, <1>4 DEF ViewInv, MessagesInv

(* What the user does. *)
LEMMA UserView ==
  ASSUME ViewInv, UserStep
  PROVE  ViewInv'
<1>. USE DEF ViewInv
<1>1. ASSUME NEW r, Causes(r), GoodRequest(r), UNCHANGED <<main, layout, models, shown, loading, fading, races>>,
             backdrop' \in {backdrop, clicks'}
      PROVE  ViewInv'
  <2>1. Arrays' /\ MainInv'
    BY <1>1 DEF Arrays, MainInv
  <2>2. EventsInv'
    BY <1>1, CausesView DEF EventsInv
  <2>. QED BY <1>1, <2>1, <2>2, CausesView
<1>2. ASSUME NEW op, NEW p \in Page, NEW l, NEW t, clicks < MaxClicks,
             op # "openPage" => main = "page",
             op \notin PageOps => l \in LineIds(p),
             op \in LineOps => t \in Text
      PROVE  GoodRequest(PageRequest(op, p, l, t))
  <2>1. clicks + 1 \in Click
    BY <1>2, PageViewAssumption DEF EventsInv, Click
  <2>2. op # "openPage" => layout \in Click
    BY <1>2 DEF MainInv
  <2>. QED BY <1>2, <2>1, <2>2 DEF GoodRequest, PageRequest
<1>3. GoodRequest(Login(clicks + 1)) /\ GoodRequest(Logout(clicks + 1))
  BY DEF GoodRequest, Login, Logout, SessionRequest, DataOps, PageOps, LineOps
<1>4. ASSUME NEW p \in Page, OpenPage(p) \/ TurnPage(p) PROVE ViewInv'
  <2>1. PICK op \in PageOps : /\ Causes(GetPage(op, p)) /\ backdrop' = clicks'
                              /\ UNCHANGED <<main, layout, models, shown, loading, fading, races>>
                              /\ op # "openPage" => main = "page"
    BY <1>4 DEF OpenPage, TurnPage, PageOps
  <2>2. clicks < MaxClicks
    BY <2>1 DEF Causes
  <2>3. op \notin LineOps
    BY DEF PageOps, LineOps
  <2>4. GoodRequest(GetPage(op, p))
    BY <1>2, <2>1, <2>2, <2>3 DEF GetPage
  <2>. QED BY <1>1, <2>1, <2>4
<1>5. ASSUME NEW l \in AnyLine, NEW t \in Text, EditLine(l, t) PROVE ViewInv'
  <2>1. /\ main = "page" /\ l \in Edited(shown.page) /\ Causes(CorrectLine(shown.page, l, t))
        /\ UNCHANGED <<viewVars, races>>
    BY <1>5 DEF EditLine
  <2>2. shown.page \in Page /\ l \in LineIds(shown.page)
    BY <2>1, PageFacts DEF MainInv, Document
  <2>3. clicks < MaxClicks
    BY <2>1 DEF Causes
  <2>4. GoodRequest(CorrectLine(shown.page, l, t))
    BY <1>2, <2>1, <2>2, <2>3 DEF CorrectLine
  <2>. QED BY <1>1, <2>1, <2>4 DEF viewVars
<1>6. ASSUME NEW p \in Page, NEW l \in AnyLine, NEW t \in Text, EditToken(p, l, t) PROVE ViewInv'
  <2>1. /\ main = "page" /\ l \in LineIds(p) /\ Causes(CorrectToken(p, l, t))
        /\ UNCHANGED <<viewVars, races>>
    BY <1>6, PageFacts DEF EditToken
  <2>2. clicks < MaxClicks
    BY <2>1 DEF Causes
  <2>3. GoodRequest(CorrectToken(p, l, t))
    BY <1>2, <2>1, <2>2 DEF CorrectToken
  <2>. QED BY <1>1, <2>1, <2>3 DEF viewVars
<1>7. CASE SubmitLogin \/ ClickLogout
  BY <1>1, <1>3, <1>7 DEF SubmitLogin, ClickLogout, viewVars
<1>9. CASE SearchConcordance
  <2>1. /\ Causes(GetPage("search", shown.page)) /\ backdrop' = clicks'
        /\ UNCHANGED <<main, layout, models, shown, loading, fading, races>>
    BY <1>9 DEF SearchConcordance
  <2>2. clicks + 1 \in Click
    BY <2>1, PageViewAssumption DEF Causes, EventsInv, Click
  <2>3. GoodRequest(GetPage("search", shown.page))
    BY <2>2 DEF GoodRequest, GetPage, PageRequest, DataOps, PageOps, LineOps
  <2>. QED BY <1>1, <2>1, <2>3
<1>8. CASE Redraw \/ GoElsewhere
  <2>1. /\ UNCHANGED <<sessionVars, stored, models, loading, fading, backdrop, clicks, stuck>>
        /\ races' \subseteq races \cup {"hasty"}
    BY <1>8 DEF Redraw, GoElsewhere
  <2>2. MessagesInv' /\ StoredInv' /\ Arrays' /\ issued' <= MaxTokens
    <3>1. Answers'
      BY <2>1, AnswersStay DEF MessagesInv, sessionVars
    <3>. QED BY <2>1, <3>1 DEF MessagesInv, StoredInv, Arrays, sessionVars
  <2>3. EventsInv'
    BY <2>1 DEF EventsInv, Races
  <2>4. CASE GoElsewhere
    <3>1. MainInv'
      BY <2>4 DEF GoElsewhere, Replace, MainInv, Blank
    <3>. QED BY <2>2, <2>3, <3>1
  <2>5. CASE Redraw
    <3>1. main = "page" /\ UNCHANGED <<main, layout>> /\ shown' = Draw(models[layout], Wipe(shown))
      BY <2>5 DEF Redraw
    <3>2. layout \in Click /\ Document(shown)
      BY <3>1 DEF MainInv
    <3>3. models[layout] \in Seq(Lines \cup {Hole}) /\ Document(Wipe(shown))
      BY <3>2, WipeType DEF Arrays
    <3>4. Document(shown')
      BY <3>1, <3>3, DrawType
    <3>5. shown'.page # None
      BY <3>4, PageFacts DEF Document
    <3>6. MainInv'
      BY <3>1, <3>2, <3>4, <3>5 DEF MainInv, Document
    <3>. QED BY <2>2, <2>3, <3>6
  <2>. QED BY <1>8, <2>4, <2>5
<1>. QED BY <1>4, <1>5, <1>6, <1>7, <1>8, <1>9 DEF UserStep

(* The server gives good answers to good requests. *)
LEMMA ReplyMessages ==
  ASSUME MessagesInv, NEW r \in pending, NEW a, Reply(r, a), GoodAnswer(a)
  PROVE  MessagesInv'
<1>1. pending' \subseteq pending /\ answered' = Append(answered, a)
  BY DEF Reply
<1>2. Answers'
  BY <1>1, AnswersStay DEF MessagesInv
<1>. QED BY <1>1, <1>2 DEF MessagesInv

(* What the page has does not change while the server works. *)
LEMMA ViewFrame ==
  ASSUME ViewInv, UNCHANGED <<viewVars, clicks, stuck>>, races' \subseteq races \cup {"lost"}
  PROVE  Arrays' /\ MainInv' /\ EventsInv'
<1>1. Arrays' /\ MainInv'
  BY DEF ViewInv, Arrays, MainInv, viewVars
<1>2. EventsInv'
  BY DEF ViewInv, EventsInv, viewVars, Races
<1>. QED BY <1>1, <1>2

LEMMA StoredStays ==
  ASSUME StoredInv, NEW p \in Page, NEW l \in LineIds(p), NEW t \in Text,
         stored' = [stored EXCEPT ![p][l] = t]
  PROVE  StoredInv'
<1>1. DOMAIN stored' = Page
  BY DEF StoredInv
<1>2. ASSUME NEW q \in Page PROVE stored'[q] \in [LineIds(q) -> Texts]
  <2>1. stored[q] \in [LineIds(q) -> Texts] /\ stored[p] \in [LineIds(p) -> Texts] /\ t \in Texts
    BY DEF StoredInv, Texts
  <2>2. stored'[q] = IF q = p THEN [stored[p] EXCEPT ![l] = t] ELSE stored[q]
    BY DEF StoredInv
  <2>. QED BY <2>1, <2>2
<1>. QED BY <1>1, <1>2 DEF StoredInv

(* The gateway, the routes and the other device. *)
LEMMA ServerView ==
  ASSUME SessionInv, ViewInv, ServeAny \/ Mishap \/ UseElsewhere
  PROVE  ViewInv'
<1>. USE DEF Untouched
<1>0. MessagesInv /\ StoredInv /\ issued <= MaxTokens
  BY DEF ViewInv
<1>00. StoredInv' \/ stored' # stored
  BY <1>0 DEF StoredInv
<1>1. ASSUME NEW r \in pending, Refuse(r) PROVE ViewInv'
  <2>1. /\ UNCHANGED <<issued, stored, viewVars, clicks, stuck, races>>
        /\ Reply(r, Answer(r, "refused", None)) /\ GoodRequest(r)
    BY <1>0, <1>1 DEF Refuse, MessagesInv
  <2>2. GoodAnswer(Answer(r, "refused", None))
    BY <2>1, GoodAnswerIs
  <2>3. MessagesInv'
    BY <1>0, <2>1, <2>2, ReplyMessages
  <2>. QED BY <1>0, <1>00, <2>1, <2>3, ViewFrame DEF ViewInv
<1>2. ASSUME NEW r \in pending, ServeRead(r) PROVE ViewInv'
  <2>1. PICK d : d = DataFor(r)
    OBVIOUS
  <2>2. /\ UNCHANGED <<issued, stored, viewVars, clicks, stuck, races>>
        /\ Reply(r, Answer(r, "ok", d)) /\ GoodRequest(r) /\ r.op \in PageOps \cup {"getLine"}
    BY <1>0, <1>2, <2>1 DEF ServeRead, MessagesInv
  <2>3. r.op \in PageOps => d \in Seq(Lines)
    BY <1>0, <2>1, <2>2, LinesOfType DEF DataFor, GoodRequest, DataOps
  <2>4. r.op = "getLine" => d \in TokensOf(r.page, r.line)
    BY <1>0, <2>1, <2>2, LinesOfType DEF DataFor, GoodRequest, DataOps, PageOps
  <2>5. GoodAnswer(Answer(r, "ok", d))
    BY <2>2, <2>3, <2>4, GoodAnswerIs DEF PageOps
  <2>6. MessagesInv'
    BY <1>0, <2>2, <2>5, ReplyMessages
  <2>. QED BY <1>0, <1>00, <2>2, <2>6, ViewFrame DEF ViewInv
<1>3. ASSUME NEW r \in pending, NEW late \in BOOLEAN, ServeCorrection(r, late) PROVE ViewInv'
  <2>1. PICK d : d = Line(r.page, r.line, r.text)
    OBVIOUS
  <2>2. PICK status, data : /\ Reply(r, Answer(r, status, data))
                            /\ status = "ok" => data = d
    BY <1>3, <2>1 DEF ServeCorrection
  <2>3. /\ UNCHANGED <<issued, viewVars, clicks, stuck>> /\ races' \subseteq races \cup {"lost"}
        /\ stored' = [stored EXCEPT ![r.page][r.line] = r.text]
        /\ r.op \in LineOps /\ GoodRequest(r)
    BY <1>0, <1>3 DEF ServeCorrection, MessagesInv
  <2>4. r.page \in Page /\ r.line \in LineIds(r.page) /\ r.text \in Text
    BY <2>3 DEF GoodRequest, DataOps, LineOps, PageOps
  <2>5. d \in TokensOf(r.page, r.line)
    BY <2>1, <2>4, PageFacts DEF TokensOf, Line, Lines, Texts
  <2>6. GoodAnswer(Answer(r, status, data))
    BY <2>2, <2>3, <2>5, GoodAnswerIs DEF LineOps, PageOps
  <2>7. MessagesInv'
    BY <1>0, <2>2, <2>6, ReplyMessages
  <2>8. StoredInv'
    BY <1>0, <2>3, <2>4, StoredStays
  <2>. QED BY <1>0, <2>3, <2>7, <2>8, ViewFrame DEF ViewInv
<1>4. ASSUME NEW r \in pending, Fail(r) PROVE ViewInv'
  <2>1. PICK q : q = AsSent(r)
    OBVIOUS
  <2>2. /\ UNCHANGED <<issued, stored, viewVars, clicks, stuck, races>>
        /\ Reply(r, Answer(q, "failed", None)) /\ GoodRequest(r)
    BY <1>0, <1>4, <2>1 DEF Fail, MessagesInv
  <2>3. GoodRequest(q)
    <3>1. SoundRequest(r)
      BY DEF SessionInv
    <3>2. CASE r.op = "inserting"
      BY <2>1, <3>1, <3>2 DEF AsSent, SoundRequest, GoodRequest, DataOps, PageOps, LineOps
    <3>3. CASE r.op # "inserting"
      BY <2>1, <2>2, <3>3 DEF AsSent
    <3>. QED BY <3>2, <3>3
  <2>4. GoodAnswer(Answer(q, "failed", None))
    BY <2>3, GoodAnswerIs
  <2>5. MessagesInv'
    BY <1>0, <2>2, <2>4, ReplyMessages
  <2>. QED BY <1>0, <1>00, <2>2, <2>5, ViewFrame DEF ViewInv
<1>7. ASSUME NEW r \in pending, ServeSearch(r) PROVE ViewInv'
  <2>1. /\ UNCHANGED <<issued, stored, viewVars, clicks, stuck, races>>
        /\ Reply(r, Answer(r, "ok", None)) /\ GoodRequest(r) /\ r.op = "search"
    BY <1>0, <1>7 DEF ServeSearch, MessagesInv
  <2>2. GoodAnswer(Answer(r, "ok", None))
    BY <2>1, GoodAnswerIs DEF PageOps
  <2>3. MessagesInv'
    BY <1>0, <2>1, <2>2, ReplyMessages
  <2>. QED BY <1>0, <1>00, <2>1, <2>3, ViewFrame DEF ViewInv
<1>5. ASSUME NEW r \in pending, ServeSession(r) PROVE ViewInv'
  <2>1. UNCHANGED <<stored, viewVars, clicks, stuck, races>> /\ r.op \in SessionOps /\ GoodRequest(r)
    BY <1>0, <1>5 DEF ServeSession, MessagesInv
  <2>2. CASE ServeLoginDelete(r)
    <3>. DEFINE q == [r EXCEPT !.op = "inserting"]
    <3>1. UNCHANGED <<issued, answered>> /\ pending' = (pending \ {r}) \cup {q}
      BY <2>2 DEF ServeLoginDelete
    <3>2. SoundRequest(r)
      BY DEF SessionInv
    <3>3. q.op = "inserting"
      BY <3>2 DEF SoundRequest
    <3>. HIDE DEF q
    <3>4. GoodRequest(q)
      BY <3>3 DEF GoodRequest, DataOps, PageOps, LineOps
    <3>5. Answers'
      BY <1>0, <3>1, AnswersStay DEF MessagesInv
    <3>6. MessagesInv'
      BY <1>0, <3>1, <3>4, <3>5 DEF MessagesInv
    <3>. QED BY <1>0, <1>00, <2>1, <3>1, <3>6, ViewFrame DEF ViewInv
  <2>3. CASE ~ServeLoginDelete(r)
    <3>1. PICK q, status, data : /\ Reply(r, Answer(q, status, data))
                                 /\ q = r \/ q = [r EXCEPT !.op = "login"]
      BY <1>5, <2>3 DEF ServeSession, RefuseLogin, ServeLoginInsert, ServeLoginCheck,
                        ServeLogout
    <3>2. q.op \in SessionOps
      <4>1. SoundRequest(r)
        BY DEF SessionInv
      <4>. QED BY <2>1, <3>1, <4>1 DEF SoundRequest, SessionOps
    <3>3. q.op \notin DataOps \cup {"search"}
      BY <3>2 DEF SessionOps, DataOps, PageOps, LineOps
    <3>4. GoodAnswer(Answer(q, status, data))
      BY <3>3, GoodAnswerIs DEF GoodRequest, DataOps, LineOps
    <3>5. MessagesInv'
      BY <1>0, <3>1, <3>4, ReplyMessages
    <3>6. issued' <= MaxTokens
      BY <1>0, <1>5, <2>3, SessionAssumption
         DEF SessionInv, ServeSession, RefuseLogin, ServeLoginInsert, ServeLoginCheck,
             ServeLogout
    <3>. QED BY <1>00, <2>1, <3>5, <3>6, ViewFrame DEF ViewInv
  <2>. QED BY <2>2, <2>3
<1>6. CASE UseElsewhere
  <2>1. UNCHANGED <<pending, answered, stored, viewVars, clicks, stuck, races>>
    BY <1>6 DEF UseElsewhere, LoginElsewhereDelete, LoginElsewhereInsert
  <2>2. issued' <= MaxTokens
    BY <1>0, <1>6, SessionAssumption
       DEF SessionInv, UseElsewhere, LoginElsewhereDelete, LoginElsewhereInsert
  <2>3. Answers'
    BY <1>0, <2>1, AnswersStay DEF MessagesInv
  <2>4. MessagesInv'
    BY <1>0, <2>1, <2>3 DEF MessagesInv
  <2>. QED BY <1>00, <2>1, <2>2, <2>4, ViewFrame DEF ViewInv
<1>. QED BY <1>1, <1>2, <1>3, <1>4, <1>5, <1>6, <1>7 DEF ServeAny, Serve, Mishap

(* Another view, or none, in place of the page. *)
LEMMA ReplaceMain ==
  ASSUME MainInv
  PROVE  /\ \A view \in {"login", "other"} : Replace(view) => MainInv'
         /\ UNCHANGED <<main, layout, shown>> => MainInv'
         /\ \A a : ShowError(a) => MainInv'
<1>1. \A view \in {"login", "other"} : Replace(view) => MainInv'
  BY DEF Replace, MainInv, Blank
<1>2. UNCHANGED <<main, layout, shown>> => MainInv'
  BY DEF MainInv
<1>. QED BY <1>1, <1>2 DEF ShowError

(* A rendering of a page: its lines are empty. *)
LEMMA EmptyDocument ==
  ASSUME NEW p \in Page, NEW n \in Click
  PROVE  Document([page |-> p, by |-> n, tokens |-> Empty(p)])
BY ListFacts DEF Document, Empty

LEMMA RacesType ==
  ASSUME NEW i, NEW b, NEW c
  PROVE  Overtaking(i) \cup When(b, "strayed") \cup When(c, "hasty") \subseteq Races
BY DEF Overtaking, When, Races

(* An answer that arrives, and what does not change with it. *)
LEMMA ReceiveMessages ==
  ASSUME ViewInv, SessionInv, NEW i \in DOMAIN answered, Receive(i)
  PROVE  /\ MessagesInv' /\ StoredInv' /\ issued' <= MaxTokens
         /\ UNCHANGED clicks /\ clicks' \in 0..MaxClicks
         /\ GoodAnswer(answered[i]) /\ GoodRequest(answered[i].req)
<1>0. MessagesInv /\ StoredInv /\ issued <= MaxTokens /\ clicks \in 0..MaxClicks
  BY DEF ViewInv, EventsInv
<1>1. GoodAnswer(answered[i]) /\ GoodRequest(answered[i].req)
  BY <1>0, AnswerGood DEF MessagesInv, GoodAnswer
<1>2. UNCHANGED <<stored, issued, clicks>>
  BY DEF Receive
<1>3. answered' = Without(answered, i) /\ Answers'
  BY <1>0, ReceiveToken, AnswersStay DEF MessagesInv
<1>4. pending' \subseteq pending \/ TokenCorrected(i)
  BY DEF Receive, Take, PageOpened, PageTurned, LineCorrected, LineFetched, LineNotFetched,
         PageFailed, CorrectionFailed, Searched, SearchFailed, LoggedIn, LoginFailed,
         LoggedOut, LoginChecked
<1>5. \A r \in pending' : GoodRequest(r)
  <2>1. CASE pending' \subseteq pending
    BY <1>0, <2>1 DEF MessagesInv
  <2>2. CASE TokenCorrected(i)
    <3>1. answered[i].req.op = "correctToken" /\ pending' = pending \cup {GetLine(answered[i].req)}
      BY <2>2 DEF TokenCorrected, Good
    <3>2. GoodRequest(GetLine(answered[i].req))
      BY <1>1, <3>1 DEF GoodRequest, GetLine, DataOps, LineOps, PageOps
    <3>. QED BY <1>0, <3>1, <3>2 DEF MessagesInv
  <2>. QED BY <1>4, <2>1, <2>2
<1>6. StoredInv'
  BY <1>0, <1>2 DEF StoredInv
<1>. QED BY <1>0, <1>1, <1>2, <1>3, <1>5, <1>6 DEF MessagesInv

\* What a callback may do to the view.
Kept == MainInv' /\ Arrays' /\ EventsInv'

LEMMA OpenedView ==
  ASSUME ViewInv, NEW i, GoodAnswer(answered[i]), PageOpened(i), UNCHANGED clicks
  PROVE  Kept
<1>. DEFINE r == answered[i].req
<1>0. MainInv /\ Arrays /\ EventsInv
  BY DEF ViewInv
<1>1. r.n \in Click /\ r.page \in Page /\ answered[i].data \in Seq(Lines)
  BY DEF GoodAnswer, GoodRequest, PageOpened, Good, DataOps, PageOps
<1>2. answered[i].data \in Seq(Lines \cup {Hole})
  BY <1>1, SeqMonotonic
<1>3. /\ main' = "page" /\ layout' = r.n
      /\ models' = [models EXCEPT ![r.n] = answered[i].data]
      /\ shown' = [page |-> r.page, by |-> r.n, tokens |-> Empty(r.page)]
      /\ loading' = loading \cup {[layout |-> r.n, by |-> r.n]}
      /\ backdrop' \in {None, backdrop} /\ UNCHANGED <<fading, stuck>>
  BY DEF PageOpened, Lift
<1>4. races' \subseteq Races
  <2>1. PICK b : b = (loading # {} \/ fading # <<>>)
    OBVIOUS
  <2>2. races' = races \cup Overtaking(i) \cup When(b, "hasty")
    BY <2>1 DEF PageOpened
  <2>. QED BY <1>0, <2>2, RacesType DEF EventsInv
<1>5. Arrays'
  BY <1>0, <1>1, <1>2, <1>3 DEF Arrays
<1>6. MainInv'
  <2>1. Document(shown')
    BY <1>1, <1>3, EmptyDocument
  <2>2. shown'.page # None /\ r.n # None
    BY <1>1, <1>3, PageFacts
  <2>3. Document(shown)'
    BY <2>1 DEF Document
  <2>. QED BY <1>1, <1>3, <2>2, <2>3 DEF MainInv
<1>7. EventsInv'
  BY <1>0, <1>1, <1>3, <1>4 DEF EventsInv
<1>. QED BY <1>5, <1>6, <1>7 DEF Kept

LEMMA TurnedView ==
  ASSUME ViewInv, NEW i, GoodAnswer(answered[i]), PageTurned(i), UNCHANGED clicks
  PROVE  Kept
<1>. DEFINE r == answered[i].req
<1>0. MainInv /\ Arrays /\ EventsInv
  BY DEF ViewInv
<1>1. r.n \in Click /\ r.layout \in Click /\ r.page \in Page /\ answered[i].data \in Seq(Lines)
  BY DEF GoodAnswer, GoodRequest, PageTurned, Good, DataOps, PageOps
<1>2. answered[i].data \in Seq(Lines \cup {Hole})
  BY <1>1, SeqMonotonic
<1>3. /\ models' = [models EXCEPT ![r.layout] = answered[i].data]
      /\ shown' = IF r.layout = layout
                  THEN [page |-> r.page, by |-> r.n, tokens |-> Empty(r.page)] ELSE shown
      /\ loading' \subseteq loading \cup {[layout |-> r.layout, by |-> r.n]}
      /\ backdrop' \in {None, backdrop} /\ UNCHANGED <<main, layout, fading, stuck>>
  BY DEF PageTurned, Lift
<1>4. races' \subseteq Races
  <2>1. PICK b : b = (r.layout = layout /\ (loading # {} \/ fading # <<>>))
    OBVIOUS
  <2>2. races' = races \cup Overtaking(i) \cup When(b, "hasty")
    BY <2>1 DEF PageTurned
  <2>. QED BY <1>0, <2>2, RacesType DEF EventsInv
<1>5. Arrays'
  BY <1>0, <1>1, <1>2, <1>3 DEF Arrays
<1>6. MainInv'
  <2>1. CASE r.layout # layout
    BY <1>0, <1>3, <2>1, ReplaceMain
  <2>2. CASE r.layout = layout
    <3>1. layout # None
      BY <1>1, <2>2, PageFacts
    <3>2. Document(shown')
      BY <1>1, <1>3, <2>2, EmptyDocument
    <3>3. shown'.page # None
      BY <1>1, <1>3, <2>2, PageFacts
    <3>4. Document(shown)'
      BY <3>2 DEF Document
    <3>. QED BY <1>0, <1>3, <3>1, <3>3, <3>4 DEF MainInv
  <2>. QED BY <2>1, <2>2
<1>7. EventsInv'
  BY <1>0, <1>1, <1>3, <1>4 DEF EventsInv
<1>. QED BY <1>5, <1>6, <1>7 DEF Kept

(* The place of a line that is in the document. *)
LEMMA AnchorView ==
  ASSUME MainInv, NEW p \in Page, NEW l, HasAnchor(p, l)
  PROVE  main = "page" /\ Document(shown) /\ shown.page = p /\ l \in LineIds(p) /\ shown.by \in Click
BY PageFacts DEF MainInv, HasAnchor, Document

LEMMA CorrectedView ==
  ASSUME ViewInv, NEW i, GoodAnswer(answered[i]), LineCorrected(i), UNCHANGED clicks
  PROVE  Kept
<1>. DEFINE r == answered[i].req
            x == answered[i].data
<1>0. MainInv /\ Arrays /\ EventsInv
  BY DEF ViewInv
<1>1. r.layout \in Click /\ r.page \in Page /\ r.line \in LineIds(r.page) /\ x \in TokensOf(r.page, r.line)
  BY DEF GoodAnswer, GoodRequest, LineCorrected, Good, DataOps, PageOps, LineOps
<1>2. x \in Lines /\ r.line \in Nat \ {0}
  BY <1>1, PageFacts DEF TokensOf
<1>3. /\ models' = [models EXCEPT ![r.layout] = SetAt(models[r.layout], r.line, x)]
      /\ fading' = IF HasAnchor(r.page, r.line)
                   THEN Append(fading, [line |-> x, by |-> shown.by]) ELSE fading
      /\ UNCHANGED <<main, layout, shown, loading, backdrop, stuck>>
  BY DEF LineCorrected
<1>4. races' \subseteq Races
  <2>1. PICK b, c : /\ b = (main = "page" /\ (r.layout # layout \/ r.page # shown.page))
                    /\ c = (loading # {})
    OBVIOUS
  <2>2. races' = races \cup Overtaking(i) \cup When(b, "strayed") \cup When(c, "hasty")
    BY <2>1 DEF LineCorrected
  <2>. QED BY <1>0, <2>2, RacesType DEF EventsInv
<1>5. Arrays'
  <2>1. SetAt(models[r.layout], r.line, x) \in Seq(Lines \cup {Hole})
    BY <1>0, <1>1, <1>2, SetAtType DEF Arrays
  <2>. QED BY <1>0, <1>1, <1>3, <2>1 DEF Arrays
<1>6. MainInv'
  BY <1>0, <1>3, ReplaceMain
<1>7. fading' \in Seq([line : Lines, by : Click])
  <2>1. CASE HasAnchor(r.page, r.line)
    <3>1. [line |-> x, by |-> shown.by] \in [line : Lines, by : Click]
      BY <1>0, <1>1, <1>2, <2>1, AnchorView
    <3>. QED BY <1>0, <1>3, <2>1, <3>1, ListFacts DEF EventsInv
  <2>. QED BY <1>0, <1>3, <2>1 DEF EventsInv
<1>8. EventsInv'
  BY <1>0, <1>3, <1>4, <1>7 DEF EventsInv
<1>. QED BY <1>5, <1>6, <1>8 DEF Kept

LEMMA FetchedView ==
  ASSUME ViewInv, NEW i, GoodAnswer(answered[i]), LineFetched(i), UNCHANGED clicks
  PROVE  Kept
<1>. DEFINE r == answered[i].req
            x == answered[i].data
            here == HasAnchor(r.page, r.line)
<1>0. MainInv /\ Arrays /\ EventsInv
  BY DEF ViewInv
<1>1. r.layout \in Click /\ r.page \in Page /\ r.line \in LineIds(r.page) /\ x \in TokensOf(r.page, r.line)
  BY DEF GoodAnswer, GoodRequest, LineFetched, Good, DataOps, PageOps, LineOps
<1>2. x \in Lines /\ x.line = r.line /\ r.line \in Nat \ {0}
  BY <1>1, PageFacts DEF TokensOf
<1>3. /\ models' = IF here THEN [models EXCEPT ![r.layout] = SetAt(models[r.layout], r.line, x)]
                   ELSE models
      /\ shown' = IF here THEN DrawLine(x, WipeLine(r.line, shown)) ELSE shown
      /\ UNCHANGED <<main, layout, loading, fading, backdrop, stuck>>
  BY DEF LineFetched
<1>4. races' \subseteq Races
  <2>1. PICK b, c : /\ b = (here /\ r.layout # layout)
                    /\ c = (here /\ (loading # {} \/ fading # <<>>))
    OBVIOUS
  <2>2. races' = races \cup Overtaking(i) \cup When(b, "strayed") \cup When(c, "hasty")
    BY <2>1 DEF LineFetched
  <2>. QED BY <1>0, <2>2, RacesType DEF EventsInv
<1>5. Arrays'
  <2>1. SetAt(models[r.layout], r.line, x) \in Seq(Lines \cup {Hole})
    BY <1>0, <1>1, <1>2, SetAtType DEF Arrays
  <2>. QED BY <1>0, <1>1, <1>3, <2>1 DEF Arrays
<1>6. MainInv'
  <2>1. CASE ~here
    BY <1>0, <1>3, <2>1, ReplaceMain
  <2>2. CASE here
    <3>1. main = "page" /\ Document(shown) /\ shown.page = r.page
      BY <1>0, <1>1, <2>2, AnchorView
    <3>2. PICK s : s = WipeLine(r.line, shown)
      OBVIOUS
    <3>3. Document(s) /\ s.page = r.page
      BY <1>1, <3>1, <3>2, WipeType
    <3>4. Document(DrawLine(x, s)) /\ DrawLine(x, s).page = r.page
      BY <1>1, <1>2, <3>3, DrawLineType
    <3>5. shown' = DrawLine(x, s)
      BY <1>3, <2>2, <3>2
    <3>6. Document(shown)'
      BY <3>4, <3>5 DEF Document
    <3>. QED BY <1>0, <1>1, <1>3, <3>1, <3>4, <3>5, <3>6, PageFacts DEF MainInv
  <2>. QED BY <2>1, <2>2
<1>7. EventsInv'
  BY <1>0, <1>3, <1>4 DEF EventsInv
<1>. QED BY <1>5, <1>6, <1>7 DEF Kept

(* The callbacks. *)
LEMMA ReceiveKept ==
  ASSUME SessionInv, ViewInv, NEW i \in DOMAIN answered, Receive(i)
  PROVE  Kept
<1>2. /\ clicks' \in 0..MaxClicks
      /\ GoodAnswer(answered[i]) /\ GoodRequest(answered[i].req) /\ UNCHANGED clicks
  BY ReceiveMessages
<1>3. MainInv /\ Arrays /\ EventsInv
  BY DEF ViewInv
<1>4. ASSUME UNCHANGED <<models, loading, fading>>, MainInv', backdrop' \in {None, backdrop},
             stuck' \subseteq Click, races' \subseteq races \cup {"lost"}
      PROVE  Kept
  <2>1. Arrays'
    BY <1>3, <1>4 DEF Arrays
  <2>2. EventsInv'
    BY <1>2, <1>3, <1>4 DEF EventsInv, Races
  <2>. QED BY <1>4, <2>1, <2>2 DEF Kept
<1>5. CASE PageOpened(i)
  BY <1>2, <1>5, OpenedView
<1>6. CASE PageTurned(i)
  BY <1>2, <1>6, TurnedView
<1>7. CASE LineCorrected(i)
  BY <1>2, <1>7, CorrectedView
<1>8. CASE LineFetched(i)
  BY <1>2, <1>8, FetchedView
<1>9. CASE TokenCorrected(i) \/ LineNotFetched(i) \/ LoginChecked(i)
  <2>1. UNCHANGED <<main, layout, shown, models, loading, fading, backdrop, stuck>>
        /\ races' \subseteq races \cup {"lost"}
    BY <1>9 DEF TokenCorrected, LineNotFetched, LoginChecked, viewVars
  <2>. QED BY <1>3, <1>4, <2>1, ReplaceMain DEF EventsInv
<1>10. CASE PageFailed(i)
  <2>1. /\ ShowError(answered[i]) /\ UNCHANGED <<models, loading, fading, races>>
        /\ backdrop' \in {None, backdrop}
        /\ stuck' \subseteq stuck \cup {answered[i].req.n} /\ answered[i].req.op \in PageOps
    BY <1>10 DEF PageFailed, DefaultErrorHandling, Lift, Bad
  <2>2. answered[i].req.n \in Click
    BY <1>2, <2>1 DEF GoodRequest, DataOps
  <2>3. stuck' \subseteq Click
    BY <1>3, <2>1, <2>2 DEF EventsInv
  <2>4. MainInv'
    BY <1>3, <2>1, ReplaceMain
  <2>. QED BY <1>4, <2>1, <2>3, <2>4
<1>11. CASE CorrectionFailed(i) \/ LoggedIn(i) \/ LoginFailed(i) \/ LoggedOut(i)
  <2>1. /\ ShowError(answered[i]) \/ Replace("other")
        /\ UNCHANGED <<models, loading, fading, backdrop, stuck, races>>
    BY <1>11 DEF CorrectionFailed, LoggedIn, LoginFailed, LoggedOut, DefaultErrorHandling
  <2>2. MainInv'
    BY <1>3, <2>1, ReplaceMain
  <2>. QED BY <1>3, <1>4, <2>1, <2>2 DEF EventsInv
<1>12. CASE Searched(i) \/ SearchFailed(i)
  <2>1. /\ UNCHANGED <<main, layout, shown, models, loading, fading, races>>
        /\ backdrop' \in {None, backdrop}
        /\ stuck' \subseteq stuck \cup {answered[i].req.n} /\ answered[i].req.op = "search"
    BY <1>12 DEF Searched, SearchFailed, Lift, Good, Bad, viewVars
  <2>2. stuck' \subseteq Click
    BY <1>2, <1>3, <2>1 DEF GoodRequest, EventsInv
  <2>. QED BY <1>3, <1>4, <2>1, <2>2, ReplaceMain
<1>. QED BY <1>5, <1>6, <1>7, <1>8, <1>9, <1>10, <1>11, <1>12 DEF Receive

LEMMA ReceiveView ==
  ASSUME SessionInv, ViewInv, ReceiveAny
  PROVE  ViewInv'
BY ReceiveKept, ReceiveMessages DEF ReceiveAny, Kept, ViewInv

(* Images that are loaded, and lines that have faded. *)
LEMMA BrowserView ==
  ASSUME ViewInv, BrowserStep
  PROVE  ViewInv'
<1>0. MainInv /\ Arrays /\ EventsInv
  BY DEF ViewInv
<1>1. /\ UNCHANGED <<sessionVars, stored, main, layout, models, backdrop, clicks, stuck, races>>
      /\ loading' \subseteq loading
  BY DEF BrowserStep, Faded, ImagesLoaded
<1>2. MessagesInv' /\ StoredInv' /\ Arrays' /\ issued' <= MaxTokens
  <2>1. Answers'
    BY <1>1, AnswersStay DEF ViewInv, MessagesInv, sessionVars
  <2>. QED BY <1>1, <2>1 DEF ViewInv, MessagesInv, StoredInv, Arrays, sessionVars
<1>3. fading' \in Seq([line : Lines, by : Click])
  BY <1>0, ListFacts DEF EventsInv, BrowserStep, Faded, ImagesLoaded
<1>4. EventsInv'
  BY <1>0, <1>1, <1>3 DEF EventsInv
<1>5. ASSUME main = "page", Document(shown') PROVE MainInv'
  <2>1. shown'.page # None /\ Document(shown)'
    BY <1>5, PageFacts DEF Document
  <2>. QED BY <1>0, <1>1, <1>5, <2>1 DEF MainInv
<1>6. ASSUME NEW x \in loading, ImagesLoaded(x) PROVE MainInv'
  <2>1. CASE main # "page"
    BY <1>0, <1>6, <2>1, ReplaceMain DEF ImagesLoaded
  <2>2. CASE main = "page"
    <3>1. Document(shown) /\ models[x.layout] \in Seq(Lines \cup {Hole})
      BY <1>0, <2>2 DEF MainInv, Arrays, EventsInv
    <3>2. shown' = Draw(models[x.layout], shown)
      BY <1>6, <2>2 DEF ImagesLoaded
    <3>3. Document(shown')
      BY <3>1, <3>2, DrawType
    <3>. QED BY <1>5, <2>2, <3>3
  <2>. QED BY <2>1, <2>2
<1>7. ASSUME Faded PROVE MainInv'
  <2>1. PICK x, s : /\ x = Head(fading).line
                    /\ s = IF Head(fading).by = shown.by THEN WipeLine(x.line, shown) ELSE shown
                    /\ shown' = IF HasAnchor(x.page, x.line) THEN DrawLine(x, s) ELSE shown
    BY <1>7 DEF Faded
  <2>2. x \in Lines
    <3>1. Head(fading) \in [line : Lines, by : Click]
      BY <1>0, <1>7, ListFacts DEF EventsInv, Faded
    <3>. QED BY <2>1, <3>1
  <2>3. CASE ~HasAnchor(x.page, x.line)
    BY <1>0, <1>1, <2>1, <2>3, ReplaceMain
  <2>4. CASE HasAnchor(x.page, x.line)
    <3>1. x.page \in Page /\ x \in TokensOf(x.page, x.line)
      BY <2>2 DEF Lines, TokensOf
    <3>2. main = "page" /\ Document(shown) /\ shown.page = x.page /\ x.line \in LineIds(x.page)
      BY <1>0, <2>4, <3>1, AnchorView
    <3>3. Document(s) /\ s.page = x.page
      BY <2>1, <3>2, WipeType
    <3>4. Document(DrawLine(x, s))
      BY <3>1, <3>2, <3>3, DrawLineType
    <3>. QED BY <1>5, <2>1, <2>4, <3>2, <3>4
  <2>. QED BY <2>3, <2>4
<1>. QED BY <1>2, <1>4, <1>6, <1>7 DEF BrowserStep, ViewInv

LEMMA StepView ==
  ASSUME SessionInv, ViewInv, [Next]_vars
  PROVE  ViewInv'
<1>1. CASE UNCHANGED vars
  <2>1. /\ UNCHANGED <<viewVars, clicks, stuck, races, stored>> /\ UNCHANGED sessionVars
    BY <1>1 DEF vars
  <2>2. Arrays' /\ MainInv' /\ EventsInv'
    BY <2>1, ViewFrame
  <2>3. Answers'
    BY <2>1, AnswersStay DEF ViewInv, MessagesInv, sessionVars
  <2>. QED BY <2>1, <2>2, <2>3 DEF ViewInv, MessagesInv, StoredInv, sessionVars
<1>. QED BY <1>1, UserView, ServerView, ReceiveView, BrowserView DEF Next

(* What every reachable state of the page view is like. *)
LEMMA Viewed == Spec => []ViewInv
BY TokensSound, InitView, StepView, PTL DEF Spec

(* The types of the session, the page, its arrays and its events. *)
THEOREM TypeCorrect == Spec => []TypeOK
<1>1. SessionInv /\ ViewInv => TypeOK
  <2>. SUFFICES ASSUME SessionInv, ViewInv PROVE TypeOK
    OBVIOUS
  <2>1. auth \in Token \cup {NoToken} /\ sessions \subseteq Token
    BY SessionAssumption DEF SessionInv, ViewInv, Token, NoToken
  <2>2. {layout, backdrop} \subseteq Click \cup {None}
    BY DEF ViewInv, MainInv, EventsInv
  <2>3. shown.page # None => shown.tokens \in [LineIds(shown.page) -> Seq(Lines)]
    BY DEF ViewInv, MainInv, Document
  <2>. QED BY <2>1, <2>2, <2>3 DEF ViewInv, StoredInv, Arrays, MainInv, EventsInv, TypeOK
<1>. QED BY <1>1, TokensSound, Viewed, PTL

(* Whatever overtakes what, a line never shows the text of another line or  *)
(* of another page (common/util.js draws by anchors).                       *)
THEOREM TokensDrawnAtTheirLine == Spec => []DrawnAtItsLine
<1>1. ViewInv => DrawnAtItsLine
  <2>. SUFFICES ASSUME ViewInv, main = "page", NEW l \in LineIds(shown.page),
                       NEW i \in DOMAIN shown.tokens[l]
                PROVE  shown.tokens[l][i].page = shown.page /\ shown.tokens[l][i].line = l
    BY DEF DrawnAtItsLine
  <2>1. shown.tokens[l] \in Seq(TokensOf(shown.page, l))
    BY DEF ViewInv, MainInv, Document
  <2>2. shown.tokens[l][i] \in TokensOf(shown.page, l)
    BY <2>1, ElementOfSeq, LenProperties
  <2>. QED BY <2>2 DEF TokensOf
<1>. QED BY <1>1, Viewed, PTL

-----------------------------------------------------------------------------
(* What the array and the document are worth while news is under way.       *)

\* The answer shows what the line l of the page p is.
TellsLine(a, p, l) ==
  /\ a.status = "ok" /\ a.req.op \in {"correctLine", "getLine"}
  /\ a.req.page = p /\ a.req.line = l

\* Such an answer is under way behind the place k.
Told(p, l, k) == \E j \in DOMAIN answered : j > k /\ TellsLine(answered[j], p, l)

(* The line has been or will be asked for: by a request nobody has seen,   *)
(* by the callback of a corrected token, or by one that failed, whose loss *)
(* the browser is about to see.                                            *)
Due(p, l) ==
  \/ \E r \in pending : r.op = "getLine" /\ r.page = p /\ r.line = l
  \/ \E i \in DOMAIN answered :
       /\ answered[i].req.op = IF answered[i].status = "ok" THEN "correctToken" ELSE "getLine"
       /\ answered[i].req.page = p /\ answered[i].req.line = l

\* A text of the line is the stored one, or there is news of it to come.
Current(p, l, t, k) == t = stored[p][l] \/ Told(p, l, k) \/ Due(p, l)

\* The lines of a page, in their places.
Shaped(lines, p) ==
  /\ DOMAIN lines = LineIds(p)
  /\ \A l \in LineIds(p) : lines[l] \in TokensOf(p, l)

CurrentLines(lines, p, k) ==
  NoGaps(p) => /\ Shaped(lines, p)
               /\ \A l \in LineIds(p) : Current(p, l, lines[l].text, k)

\* An answer at the place k is current, or there is news behind it.
AnswerHolds(a, k) ==
  a.status = "ok" =>
    /\ a.req.op \in PageOps => CurrentLines(a.data, a.req.page, k)
    /\ a.req.op \in {"correctLine", "getLine"} =>
         Current(a.req.page, a.req.line, a.data.text, k)

AnswersHold == \A k \in DOMAIN answered : AnswerHolds(answered[k], k)

\* So is the array of the page, with all that is under way.
ArrayHolds == main = "page" => CurrentLines(models[layout], shown.page, 0)

\* The last animation of the line l.
LastOf(list, k, l) ==
  list[k].line.line = l /\ \A j \in DOMAIN list : j > k => list[j].line.line # l

(* Unless a rendering met images that were still loading, a line shows what *)
(* the array has, or its last animation will; while images load, the page   *)
(* is empty.                                                                *)
DrawnOf(lines, list, tokens, l) ==
  \/ \E k \in DOMAIN list : LastOf(list, k, l) /\ list[k].line = lines[l]
  \/ /\ \A k \in DOMAIN list : list[k].line.line # l
     /\ tokens[l] = <<lines[l]>>

Drawn(lines, list, loads, s, n) ==
  NoGaps(s.page) =>
    /\ \A k \in DOMAIN list : list[k].by = s.by /\ list[k].line.page = s.page
    /\ loads # {} => /\ list = <<>> /\ s.tokens = Empty(s.page)
                     /\ \E x \in loads : loads = {x} /\ x.layout = n
    /\ loads = {} => \A l \in LineIds(s.page) : DrawnOf(lines, list, s.tokens, l)

DrawnHolds == main = "page" => Drawn(models[layout], fading, loading, shown, layout)

Clean == races \cap {"overtaken", "strayed", "lost"} = {}

ShownInv ==
  Clean => /\ AnswersHold /\ ArrayHolds
           /\ "hasty" \notin races => DrawnHolds

-----------------------------------------------------------------------------
(* The lines of a page without gaps.                                        *)

(* The numbers up to n in their order are themselves. *)
LEMMA AscendingUpTo ==
  ASSUME NEW n \in Nat
  PROVE  Ascending(1..n) = [i \in 1..n |-> i]
<1>1. PICK s : s = Ascending(1..n)
  OBVIOUS
<1>2. IsFiniteSet(1..n) /\ Cardinality(1..n) = n /\ 1..n \in SUBSET Int
  BY FS_Interval
<1>3. s \in Seq(1..n) /\ Len(s) = n /\ PagesOf(s) = 1..n /\ Increasing(s)
  <2>1. PICK S \in SUBSET Int : S = 1..n
    BY <1>2
  <2>. QED BY <1>1, <1>2, <2>1, AscendingIs
<1>4. s \in [1..n -> 1..n]
  BY <1>3, LenProperties
<1>5. \A m \in 1..n : \E j \in 1..n : s[j] = m
  BY <1>3, <1>4 DEF PagesOf
<1>6. \A i, j \in 1..n : i < j => s[i] < s[j]
  BY <1>3, <1>4 DEF Increasing
<1>7. \A i \in 1..n : s[i] = i
  <2>. DEFINE S == {i \in 1..n : s[i] # i}
  <2>. SUFFICES ASSUME S # {} PROVE FALSE
    OBVIOUS
  <2>1. S \in SUBSET Nat
    OBVIOUS
  <2>2. PICK i \in S : \A j \in S : i <= j
    BY <2>1, SmallestOf
  <2>3. i \in 1..n /\ s[i] # i /\ \A j \in 1..n : j < i => s[j] = j
    BY <2>2
  <2>. HIDE DEF S
  <2>4. s[i] \in 1..n
    BY <1>4, <2>3
  <2>5. ~(s[i] < i)
    <3>. SUFFICES ASSUME s[i] < i PROVE FALSE
      OBVIOUS
    <3>1. s[s[i]] = s[i] /\ s[s[i]] < s[i]
      BY <1>6, <2>3, <2>4
    <3>. QED BY <2>4, <3>1
  <2>6. PICK j \in 1..n : s[j] = i
    BY <1>5, <2>3
  <2>7. j # i /\ ~(j < i)
    BY <2>3, <2>6
  <2>8. s[i] < s[j]
    BY <1>6, <2>3, <2>7
  <2>. QED BY <2>3, <2>4, <2>5, <2>6, <2>8
<1>. QED BY <1>1, <1>4, <1>7

(* The list of the ids of one line. *)
LEMMA AscendingOne ==
  ASSUME NEW l \in Nat
  PROVE  Ascending({l}) = <<l>>
<1>1. PICK s : s = Ascending({l})
  OBVIOUS
<1>2. PICK S : S = {l}
  OBVIOUS
<1>3. S \in SUBSET Int /\ IsFiniteSet(S) /\ Cardinality(S) = 1
  <2>1. S \in SUBSET Int
    BY <1>2
  <2>2. IsFiniteSet({l}) /\ Cardinality({l}) = 1
    BY FS_Singleton, Zenon
  <2>. QED BY <1>2, <2>1, <2>2
<1>4. s \in Seq(S) /\ Len(s) = 1
  BY <1>1, <1>2, <1>3, AscendingIs
<1>5. s \in [1..1 -> {l}]
  BY <1>2, <1>4, LenProperties
<1>. QED BY <1>1, <1>5

(* What a route answers for such a page. *)
LEMMA LinesAre ==
  ASSUME StoredInv, NEW p \in Page, NoGaps(p)
  PROVE  /\ LinesOf(p) = [l \in LineIds(p) |-> Line(p, l, stored[p][l])]
         /\ Shaped(LinesOf(p), p)
         /\ \A l \in LineIds(p) : LinesOf(p)[l].text = stored[p][l]
<1>1. PICK n : n = Cardinality(LineIds(p))
  OBVIOUS
<1>2. n \in Nat /\ LineIds(p) = 1..n
  BY <1>1, PageFacts, FS_CardinalityType DEF NoGaps
<1>3. Ascending(LineIds(p)) = [i \in 1..n |-> i]
  BY <1>2, AscendingUpTo
<1>4. LinesOf(p) = [l \in LineIds(p) |-> Line(p, l, stored[p][l])]
  BY <1>2, <1>3 DEF LinesOf
<1>5. ASSUME NEW l \in LineIds(p) PROVE LinesOf(p)[l] = Line(p, l, stored[p][l])
  BY <1>4
<1>6. Shaped(LinesOf(p), p)
  BY <1>4, <1>5, LinesOfType DEF Shaped
<1>7. ASSUME NEW l \in LineIds(p) PROVE LinesOf(p)[l].text = stored[p][l]
  <2>1. Line(p, l, stored[p][l]).text = stored[p][l]
    BY DEF Line
  <2>. QED BY <1>5, <2>1, Zenon
<1>. QED BY <1>4, <1>6, <1>7

(* An array that has one line set anew. *)
LEMMA SetAtShaped ==
  ASSUME NEW p \in Page, NoGaps(p), NEW lines \in Seq(Lines \cup {Hole}), Shaped(lines, p),
         NEW l \in LineIds(p), NEW x \in TokensOf(p, l)
  PROVE  /\ Shaped(SetAt(lines, l, x), p)
         /\ SetAt(lines, l, x)[l] = x
         /\ \A m \in LineIds(p) : m # l => SetAt(lines, l, x)[m] = lines[m]
<1>1. PICK n : n = Cardinality(LineIds(p))
  OBVIOUS
<1>2. n \in Nat /\ LineIds(p) = 1..n
  BY <1>1, PageFacts, FS_CardinalityType DEF NoGaps
<1>3. Len(lines) \in Nat /\ 1..Len(lines) = 1..n
  BY <1>2, LenProperties DEF Shaped
<1>4. Len(lines) = n
  BY <1>2, <1>3
<1>5. SetAt(lines, l, x) = [i \in 1..n |-> IF i = l THEN x ELSE lines[i]]
  BY <1>2, <1>4 DEF SetAt
<1>. QED BY <1>2, <1>5 DEF Shaped

(* A page that is drawn into empty lines. *)
LEMMA DrawShaped ==
  ASSUME NEW s, Document(s), NoGaps(s.page), NEW lines, Shaped(lines, s.page),
         s.tokens = Empty(s.page), NEW l \in LineIds(s.page)
  PROVE  Draw(lines, s).tokens[l] = <<lines[l]>>
<1>. DEFINE images == Cardinality(LineIds(s.page))
            drawn  == {i \in DOMAIN lines :
                         i <= images /\ \A j \in 1..i : lines[j].page \in {s.page, None}}
            at(m)  == {i \in drawn : lines[i].line = m}
            tokens == [m \in LineIds(s.page) |-> s.tokens[m] \o EntriesAt(lines, at(m))]
<1>1. s.page \in Page
  BY DEF Document
<1>2. images \in Nat /\ LineIds(s.page) = 1..images
  BY <1>1, PageFacts, FS_CardinalityType DEF NoGaps
<1>3. /\ DOMAIN lines = 1..images
      /\ \A i \in 1..images : lines[i].page = s.page /\ lines[i].line = i
  BY <1>2 DEF Shaped, TokensOf
<1>4. Draw(lines, s).tokens = tokens
  <2>1. Draw(lines, s) = [s EXCEPT !.tokens = tokens]
    BY DEF Draw
  <2>. HIDE DEF tokens
  <2>. QED BY <2>1 DEF Document
<1>. HIDE DEF images
<1>5. drawn = 1..images
  <2>1. \A i \in 1..images : i <= images /\ \A j \in 1..i : lines[j].page = s.page
    BY <1>2, <1>3
  <2>. QED BY <1>3, <2>1
<1>. HIDE DEF drawn
<1>6. at(l) = {l}
  BY <1>2, <1>3, <1>5
<1>7. tokens[l] = s.tokens[l] \o EntriesAt(lines, {l})
  BY <1>6
<1>8. EntriesAt(lines, {l}) = <<lines[l]>>
  <2>1. l \in Nat
    BY <1>2
  <2>2. Ascending({l}) = <<l>>
    BY <2>1, AscendingOne
  <2>. QED BY <2>2 DEF EntriesAt
<1>9. s.tokens[l] = <<>>
  BY DEF Empty
<1>. HIDE DEF tokens
<1>10. PICK x : x = lines[l]
  OBVIOUS
<1>11. <<>> \o <<x>> = <<x>>
  OBVIOUS
<1>. QED BY <1>4, <1>7, <1>8, <1>9, <1>10, <1>11

-----------------------------------------------------------------------------
(* The answers under way, one more and one less.                            *)

LEMMA AnswersList ==
  ASSUME Answers
  PROVE  /\ Len(answered) \in Nat /\ DOMAIN answered = 1..Len(answered)
         /\ \A a : answered' = Append(answered, a) =>
              /\ DOMAIN answered' = 1..Len(answered) + 1
              /\ \A k \in DOMAIN answered : k \in DOMAIN answered' /\ answered'[k] = answered[k]
              /\ answered'[Len(answered) + 1] = a
<1>1. PICK S : answered \in Seq(S)
  BY DEF Answers
<1>2. Len(answered) \in Nat /\ DOMAIN answered = 1..Len(answered)
  BY <1>1, LenProperties
<1>3. ASSUME NEW a, answered' = Append(answered, a)
      PROVE  /\ DOMAIN answered' = 1..Len(answered) + 1
             /\ \A k \in DOMAIN answered : k \in DOMAIN answered' /\ answered'[k] = answered[k]
             /\ answered'[Len(answered) + 1] = a
  <2>1. answered \in Seq(S \cup {a})
    BY <1>1, SeqMonotonic
  <2>2. PICK t : t = Append(answered, a)
    OBVIOUS
  <2>3. /\ Len(t) = Len(answered) + 1 /\ DOMAIN t = 1..Len(answered) + 1
        /\ \A k \in 1..Len(answered) : t[k] = answered[k]
        /\ t[Len(answered) + 1] = a
    BY <2>1, <2>2, AppendProperties
  <2>. QED BY <1>2, <1>3, <2>2, <2>3
<1>. QED BY <1>2, <1>3

\* The place an answer had before the one at i was taken.
Was(i, k) == IF k < i THEN k ELSE k + 1

LEMMA AnswersLeft ==
  ASSUME Answers, NEW i \in DOMAIN answered, answered' = Without(answered, i)
  PROVE  /\ DOMAIN answered \subseteq Nat \ {0}
         /\ \A k \in DOMAIN answered' :
              /\ k \in Nat \ {0} /\ Was(i, k) \in DOMAIN answered /\ Was(i, k) # i
              /\ answered'[k] = answered[Was(i, k)]
         /\ \A j \in DOMAIN answered : j # i =>
              \E k \in DOMAIN answered' : j = Was(i, k)
<1>1. PICK S : answered \in Seq(S)
  BY DEF Answers
<1>2. PICK s, t, n : s = answered /\ t = answered' /\ n = Len(s)
  OBVIOUS
<1>3. s \in Seq(S) /\ n \in Nat /\ DOMAIN s = 1..n /\ i \in 1..n
  BY <1>1, <1>2, LenProperties
<1>4. PICK u, v : u = SubSeq(s, 1, i - 1) /\ v = SubSeq(s, i + 1, n)
  OBVIOUS
<1>5. u \in Seq(S) /\ Len(u) = i - 1 /\ \A k \in 1..i - 1 : u[k] = s[k]
  BY <1>2, <1>3, <1>4
<1>6. v \in Seq(S) /\ Len(v) = n - i /\ \A k \in 1..n - i : v[k] = s[i + k]
  <2>1. PICK a, b : a = i + 1 /\ b = n
    OBVIOUS
  <2>2. a \in Int /\ b \in Int /\ a \in 1..Len(s) + 1 /\ b \in a - 1..Len(s)
    BY <1>2, <1>3, <2>1
  <2>3. /\ SubSeq(s, a, b) \in Seq(S)
        /\ Len(SubSeq(s, a, b)) = b - a + 1
        /\ \A k \in 1..b - a + 1 : SubSeq(s, a, b)[k] = s[a + k - 1]
    BY <1>3, <2>2
  <2>4. v = SubSeq(s, a, b)
    BY <1>4, <2>1
  <2>5. b - a + 1 = n - i /\ \A k \in 1..n - i : a + k - 1 = i + k
    BY <1>3, <2>1
  <2>. QED BY <2>3, <2>4, <2>5
<1>7. /\ t = u \o v /\ DOMAIN t = 1..n - 1
      /\ \A k \in 1..n - 1 : t[k] = IF k <= i - 1 THEN u[k] ELSE v[k - (i - 1)]
  <2>1. t = u \o v
    BY <1>2, <1>4 DEF Without
  <2>2. /\ u \o v \in Seq(S) /\ Len(u \o v) = Len(u) + Len(v)
        /\ \A k \in 1..Len(u) + Len(v) : (u \o v)[k] = IF k <= Len(u) THEN u[k] ELSE v[k - Len(u)]
    BY <1>5, <1>6, ConcatProperties, Zenon
  <2>3. DOMAIN (u \o v) = 1..Len(u \o v)
    BY <2>2, LenProperties, Zenon
  <2>4. Len(u) + Len(v) = n - 1
    BY <1>3, <1>5, <1>6
  <2>. QED BY <1>5, <2>1, <2>2, <2>3, <2>4
<1>8. ASSUME NEW k \in 1..n - 1 PROVE t[k] = s[Was(i, k)]
  <2>1. CASE k < i
    BY <1>3, <1>5, <1>7, <2>1 DEF Was
  <2>2. CASE ~(k < i)
    <3>1. PICK m \in Int : m = k - (i - 1)
      BY <1>3
    <3>2. m \in 1..n - i /\ i + m = k + 1 /\ ~(k <= i - 1)
      BY <1>3, <2>2, <3>1
    <3>3. t[k] = v[m] /\ v[m] = s[k + 1]
      BY <1>6, <1>7, <3>1, <3>2
    <3>. QED BY <2>2, <3>3 DEF Was
  <2>. QED BY <2>1, <2>2
<1>9. ASSUME NEW k \in 1..n - 1
      PROVE  k \in Nat \ {0} /\ Was(i, k) \in 1..n /\ Was(i, k) # i
  BY <1>3 DEF Was
<1>10. ASSUME NEW j \in 1..n, j # i PROVE \E k \in 1..n - 1 : j = Was(i, k)
  <2>1. CASE j < i
    BY <1>3, <2>1 DEF Was
  <2>2. CASE ~(j < i)
    <3>1. j - 1 \in 1..n - 1 /\ ~(j - 1 < i) /\ j = j - 1 + 1
      BY <1>3, <1>10, <2>2
    <3>. QED BY <3>1 DEF Was
  <2>. QED BY <2>1, <2>2
<1>11. 1..n \subseteq Nat \ {0}
  BY <1>3
<1>. QED BY <1>2, <1>3, <1>7, <1>8, <1>9, <1>10, <1>11

-----------------------------------------------------------------------------
(* News.                                                                    *)

(* A request more takes no news away. *)
LEMMA SendCurrent ==
  ASSUME UNCHANGED <<answered, stored>>,
         \A r \in pending : r.op = "getLine" => r \in pending',
         NEW p, NEW l, NEW t, NEW k, Current(p, l, t, k)
  PROVE  Current(p, l, t, k)'
<1>1. Told(p, l, k) => Told(p, l, k)'
  BY DEF Told
<1>2. Due(p, l) => Due(p, l)'
  BY DEF Due
<1>. QED BY <1>1, <1>2 DEF Current

\* What a correction stores.
Stores(r) == stored' = [stored EXCEPT ![r.page][r.line] = r.text]

(* Nor does an answer: that of a corrected line, or of a line that was      *)
(* asked for, is news itself, and that of a corrected token promises some.  *)
LEMMA ReplyCurrent ==
  ASSUME Answers, StoredInv, NEW r \in pending, NEW a, Reply(r, a), GoodRequest(r),
         r.op = "getLine" => a.req = r,
         stored' # stored => Stores(r) /\ r.op \in LineOps /\ a.req = r /\ a.status = "ok",
         NEW p \in Page, NEW l \in LineIds(p), NEW t, NEW k \in 0..Len(answered),
         Current(p, l, t, k)
  PROVE  Current(p, l, t, k)'
<1>1. PICK last : last = Len(answered) + 1
  OBVIOUS
<1>2. /\ Len(answered) \in Nat /\ DOMAIN answered = 1..Len(answered)
      /\ DOMAIN answered' = 1..last
      /\ \A j \in DOMAIN answered : j \in DOMAIN answered' /\ answered'[j] = answered[j]
      /\ answered'[last] = a
  <2>1. answered' = Append(answered, a)
    BY DEF Reply
  <2>2. /\ Len(answered) \in Nat /\ DOMAIN answered = 1..Len(answered)
        /\ DOMAIN answered' = 1..Len(answered) + 1
        /\ \A j \in DOMAIN answered : j \in DOMAIN answered' /\ answered'[j] = answered[j]
        /\ answered'[Len(answered) + 1] = a
    BY <2>1, AnswersList, Zenon
  <2>. QED BY <1>1, <2>2
<1>3. last \in DOMAIN answered' /\ last > k /\ pending' = pending \ {r}
  BY <1>1, <1>2 DEF Reply
<1>4. Told(p, l, k) => Told(p, l, k)'
  BY <1>2 DEF Told
<1>5. TellsLine(a, p, l) => Told(p, l, k)'
  <2>. SUFFICES ASSUME TellsLine(a, p, l) PROVE Told(p, l, k)'
    OBVIOUS
  <2>1. TellsLine(answered'[last], p, l)
    BY <1>2
  <2>. QED BY <1>3, <2>1 DEF Told, TellsLine
<1>6. /\ a.req.op = IF a.status = "ok" THEN "correctToken" ELSE "getLine"
      /\ a.req.page = p /\ a.req.line = l
      => Due(p, l)'
  BY <1>2, <1>3 DEF Due
<1>7. Due(p, l) => Told(p, l, k)' \/ Due(p, l)'
  <2>1. ASSUME NEW q \in pending, q.op = "getLine", q.page = p, q.line = l
        PROVE  Told(p, l, k)' \/ Due(p, l)'
    <3>1. CASE q # r
      BY <1>3, <2>1, <3>1 DEF Due
    <3>2. CASE q = r
      BY <1>5, <1>6, <2>1, <3>2 DEF TellsLine
    <3>. QED BY <3>1, <3>2
  <2>2. ASSUME NEW j \in DOMAIN answered,
               /\ answered[j].req.op = IF answered[j].status = "ok" THEN "correctToken" ELSE "getLine"
               /\ answered[j].req.page = p /\ answered[j].req.line = l
        PROVE  Due(p, l)'
    BY <1>2, <2>2 DEF Due
  <2>. QED BY <2>1, <2>2 DEF Due
<1>8. stored'[p][l] # stored[p][l] => Told(p, l, k)' \/ Due(p, l)'
  <2>. SUFFICES ASSUME stored'[p][l] # stored[p][l] PROVE Told(p, l, k)' \/ Due(p, l)'
    OBVIOUS
  <2>1. Stores(r) /\ r.op \in LineOps /\ a.req = r /\ a.status = "ok"
    OBVIOUS
  <2>2. r.page = p /\ r.line = l
    BY <2>1 DEF Stores, StoredInv, GoodRequest, DataOps
  <2>. QED BY <1>5, <1>6, <2>1, <2>2 DEF TellsLine, LineOps
<1>. QED BY <1>4, <1>7, <1>8 DEF Current

(* An answer that arrives has overtaken an older one, or tells of the line, *)
(* or was lost, or leaves the news there is.                                *)
LEMMA ArriveCurrent ==
  ASSUME Answers, NEW i \in DOMAIN answered, answered' = Without(answered, i), stored' = stored,
         pending \subseteq pending',
         answered[i].status = "ok" /\ answered[i].req.op = "correctToken" =>
           GetLine(answered[i].req) \in pending',
         ~(answered[i].status # "ok" /\ answered[i].req.op = "getLine"),
         "op" \in DOMAIN answered[i].req,
         NEW p, NEW l, NEW t, NEW k \in Nat, NEW h \in Nat, Current(p, l, t, h),
         h < i => ~TellsLine(answered[i], p, l),
         h = Was(i, k) \/ (h = i /\ k = 0)
  PROVE  Current(p, l, t, k)'
<1>0. /\ DOMAIN answered \subseteq Nat \ {0}
      /\ \A m \in DOMAIN answered' :
           /\ m \in Nat \ {0} /\ Was(i, m) \in DOMAIN answered /\ Was(i, m) # i
           /\ answered'[m] = answered[Was(i, m)]
      /\ \A j \in DOMAIN answered : j # i => \E m \in DOMAIN answered' : j = Was(i, m)
  BY AnswersLeft, Zenon
<1>1. Told(p, l, h) => Told(p, l, k)'
  <2>. SUFFICES ASSUME NEW j \in DOMAIN answered, j > h, TellsLine(answered[j], p, l)
                PROVE  Told(p, l, k)'
    BY DEF Told
  <2>1. j # i
    <3>. SUFFICES ASSUME j = i PROVE FALSE
      OBVIOUS
    <3>1. h < i
      BY <1>0
    <3>. QED BY <3>1
  <2>2. PICK m \in DOMAIN answered' : j = Was(i, m)
    BY <1>0, <2>1
  <2>3. answered'[m] = answered[j] /\ m \in Nat
    BY <1>0, <2>2
  <2>4. m > k
    BY <1>0, <2>2, <2>3 DEF Was
  <2>5. TellsLine(answered'[m], p, l)
    BY <2>3
  <2>. QED BY <2>4, <2>5 DEF Told, TellsLine
<1>2. Due(p, l) => Due(p, l)'
  <2>1. ASSUME NEW q \in pending, q.op = "getLine", q.page = p, q.line = l PROVE Due(p, l)'
    BY <2>1 DEF Due
  <2>2. ASSUME NEW j \in DOMAIN answered,
               /\ answered[j].req.op = IF answered[j].status = "ok" THEN "correctToken" ELSE "getLine"
               /\ answered[j].req.page = p /\ answered[j].req.line = l
        PROVE  Due(p, l)'
    <3>1. CASE j # i
      <4>1. PICK m \in DOMAIN answered' : j = Was(i, m)
        BY <1>0, <3>1
      <4>2. answered'[m] = answered[j]
        BY <1>0, <4>1
      <4>. QED BY <2>2, <4>2 DEF Due
    <3>2. CASE j = i
      <4>1. PICK q : q = GetLine(answered[i].req)
        OBVIOUS
      <4>2. answered[i].status = "ok" /\ answered[i].req.op = "correctToken" /\ q \in pending'
        BY <2>2, <3>2, <4>1
      <4>3. q.op = "getLine" /\ q.page = p /\ q.line = l
        BY <2>2, <3>2, <4>1, <4>2 DEF GetLine
      <4>. QED BY <4>2, <4>3 DEF Due
    <3>. QED BY <3>1, <3>2
  <2>. QED BY <2>1, <2>2 DEF Due
<1>. QED BY <1>1, <1>2 DEF Current

-----------------------------------------------------------------------------
(* What the answers under way hold.                                         *)

LEMMA CurrentAll ==
  ASSUME NEW lines, NEW p, NEW k, NEW m, CurrentLines(lines, p, k),
         \A l \in LineIds(p) : \A t : Current(p, l, t, k) => Current(p, l, t, m)'
  PROVE  CurrentLines(lines, p, m)'
BY DEF CurrentLines

(* An answer holds what it held. *)
LEMMA HoldsStill ==
  ASSUME NEW a, NEW k, NEW m, GoodAnswer(a), AnswerHolds(a, k),
         \A p \in Page : \A l \in LineIds(p) : \A t : Tells(a) /\ Current(p, l, t, k) => Current(p, l, t, m)'
  PROVE  AnswerHolds(a, m)'
<1>1. PICK p, l, d, s, o : p = a.req.page /\ l = a.req.line /\ d = a.data /\ s = a.status /\ o = a.req.op
  OBVIOUS
<1>2. CASE a.status = "ok" /\ o \in PageOps
  <2>1. p \in Page /\ CurrentLines(d, p, k) /\ Tells(a)
    BY <1>1, <1>2 DEF GoodAnswer, GoodRequest, DataOps, AnswerHolds, Tells
  <2>2. CurrentLines(d, p, m)'
    BY <2>1, CurrentAll
  <2>. QED BY <1>1, <1>2, <2>2 DEF AnswerHolds, PageOps
<1>3. CASE a.status = "ok" /\ o \in {"correctLine", "getLine"}
  <2>1. p \in Page /\ l \in LineIds(p) /\ Current(p, l, d.text, k) /\ Tells(a)
    BY <1>1, <1>3 DEF GoodAnswer, GoodRequest, DataOps, PageOps, LineOps, AnswerHolds, Tells
  <2>2. Current(p, l, d.text, m)'
    BY <2>1
  <2>. QED BY <1>1, <1>3, <2>2 DEF AnswerHolds, PageOps
<1>. QED BY <1>1, <1>2, <1>3 DEF AnswerHolds

(* Nothing is answered and nothing arrives. *)
LEMMA FrameHolds ==
  ASSUME ViewInv, AnswersHold, ArrayHolds, UNCHANGED <<answered, main, layout, models>>,
         shown'.page = shown.page,
         \A p \in Page : \A l \in LineIds(p) : \A t, k : Current(p, l, t, k) => Current(p, l, t, k)'
  PROVE  AnswersHold' /\ ArrayHolds'
<1>1. ASSUME NEW k \in DOMAIN answered PROVE AnswerHolds(answered[k], k)'
  <2>1. PICK a : a = answered[k]
    OBVIOUS
  <2>2. GoodAnswer(a) /\ AnswerHolds(a, k)
    BY <2>1, AnswerGood DEF ViewInv, MessagesInv, AnswersHold
  <2>3. AnswerHolds(a, k)'
    BY <2>2, HoldsStill
  <2>. QED BY <2>1, <2>3 DEF AnswerHolds
<1>2. AnswersHold'
  BY <1>1 DEF AnswersHold
<1>3. ArrayHolds'
  <2>. SUFFICES ASSUME main = "page" PROVE CurrentLines(models[layout], shown.page, 0)'
    BY DEF ArrayHolds
  <2>1. PICK lines, p : lines = models[layout] /\ p = shown.page
    OBVIOUS
  <2>2. p \in Page /\ CurrentLines(lines, p, 0)
    BY <2>1 DEF ArrayHolds, ViewInv, MainInv, Document
  <2>3. CurrentLines(lines, p, 0)'
    BY <2>2, CurrentAll
  <2>. QED BY <2>1, <2>3
<1>. QED BY <1>2, <1>3

(* An answer is given, and the page stays as it is. *)
LEMMA ReplyHolds ==
  ASSUME ViewInv, AnswersHold, ArrayHolds, UNCHANGED <<main, layout, models, shown>>,
         NEW r \in pending, NEW a, Reply(r, a), GoodRequest(r),
         r.op = "getLine" => a.req = r,
         stored' # stored => Stores(r) /\ r.op \in LineOps /\ a.req = r /\ a.status = "ok",
         \A k : AnswerHolds(a, k)'
  PROVE  AnswersHold' /\ ArrayHolds'
<1>0. Answers /\ StoredInv
  BY DEF ViewInv, MessagesInv
<1>1. /\ Len(answered) \in Nat /\ DOMAIN answered = 1..Len(answered)
      /\ DOMAIN answered' = 1..Len(answered) + 1
      /\ \A j \in DOMAIN answered : j \in DOMAIN answered' /\ answered'[j] = answered[j]
      /\ answered'[Len(answered) + 1] = a
  <2>1. answered' = Append(answered, a)
    BY DEF Reply
  <2>. QED BY <1>0, <2>1, AnswersList, Zenon
<1>2. ASSUME NEW p \in Page, NEW l \in LineIds(p), NEW t, NEW k \in 0..Len(answered), Current(p, l, t, k)
      PROVE  Current(p, l, t, k)'
  BY <1>0, <1>2, ReplyCurrent
<1>3. ASSUME NEW k \in DOMAIN answered' PROVE AnswerHolds(answered[k], k)'
  <2>1. CASE k \in DOMAIN answered
    <3>1. PICK b : b = answered[k]
      OBVIOUS
    <3>2. GoodAnswer(b) /\ AnswerHolds(b, k) /\ k \in 0..Len(answered)
      BY <1>0, <1>1, <2>1, <3>1, AnswerGood DEF AnswersHold
    <3>3. AnswerHolds(b, k)'
      BY <1>2, <3>2, HoldsStill
    <3>. QED BY <1>1, <2>1, <3>1, <3>3 DEF AnswerHolds
  <2>2. CASE k \notin DOMAIN answered
    <3>1. answered'[k] = a
      BY <1>1, <2>2
    <3>2. AnswerHolds(a, k)'
      OBVIOUS
    <3>. QED BY <3>1, <3>2 DEF AnswerHolds
  <2>. QED BY <2>1, <2>2
<1>4. AnswersHold'
  BY <1>3 DEF AnswersHold
<1>5. ArrayHolds'
  <2>. SUFFICES ASSUME main = "page" PROVE CurrentLines(models[layout], shown.page, 0)'
    BY DEF ArrayHolds
  <2>1. PICK lines, p : lines = models[layout] /\ p = shown.page
    OBVIOUS
  <2>2. p \in Page /\ CurrentLines(lines, p, 0) /\ 0 \in 0..Len(answered)
    BY <1>1, <2>1 DEF ArrayHolds, ViewInv, MainInv, Document
  <2>3. CurrentLines(lines, p, 0)'
    BY <1>2, <2>2, CurrentAll
  <2>. QED BY <2>1, <2>3
<1>. QED BY <1>4, <1>5

(* What an arrival that leaves the session clean has not met.               *)
LEMMA Arrival ==
  ASSUME SessionInv, ViewInv, NEW i \in DOMAIN answered, Receive(i), Clean'
  PROVE  /\ answered' = Without(answered, i) /\ stored' = stored
         /\ pending \subseteq pending' /\ races \subseteq races' /\ Clean
         /\ GoodAnswer(answered[i]) /\ GoodRequest(answered[i].req) /\ "op" \in DOMAIN answered[i].req
         /\ answered[i].status = "ok" /\ answered[i].req.op = "correctToken" =>
              GetLine(answered[i].req) \in pending'
         /\ ~(answered[i].status # "ok" /\ answered[i].req.op = "getLine")
         /\ Tells(answered[i]) => \A j \in 1..i - 1 : ~Tells(answered[j])
<1>. DEFINE a == answered[i]
<1>1. /\ answered' = Without(answered, i)
      /\ pending' = pending \/ pending' = pending \cup {GetLine(a.req)}
  BY ReceiveToken
<1>2. GoodAnswer(a) /\ GoodRequest(a.req)
  BY ReceiveMessages
<1>3. "op" \in DOMAIN a.req
  BY AnswerSound DEF SessionInv, Sound, SoundRequest
<1>4. stored' = stored
  BY DEF Receive
<1>. HIDE DEF a
<1>5. a.status = "ok" /\ a.req.op = "correctToken" => GetLine(a.req) \in pending'
  BY DEF a, Receive, Good, Bad, PageOps, LineOps, TokenCorrected, PageOpened, PageTurned, LineCorrected,
         LineFetched, PageFailed, CorrectionFailed, LineNotFetched, LoggedIn, LoginFailed, LoggedOut,
         LoginChecked, Searched, SearchFailed
<1>6. races \subseteq races'
  BY DEF Receive, TokenCorrected, PageOpened, PageTurned, LineCorrected, viewVars,
         LineFetched, PageFailed, CorrectionFailed, LineNotFetched, LoggedIn, LoginFailed, LoggedOut,
         LoginChecked, Searched, SearchFailed
<1>7. a.status # "ok" /\ a.req.op = "getLine" => "lost" \in races'
  BY DEF a, Receive, Good, Bad, PageOps, LineOps, TokenCorrected, PageOpened, PageTurned, LineCorrected,
         LineFetched, PageFailed, CorrectionFailed, LineNotFetched, LoggedIn, LoginFailed, LoggedOut,
         LoginChecked, Searched, SearchFailed
<1>8. Tells(a) => Overtaking(i) \subseteq races'
  BY DEF a, Tells, Receive, Good, Bad, PageOps, LineOps, TokenCorrected, PageOpened, PageTurned,
         LineCorrected,
         LineFetched, PageFailed, CorrectionFailed, LineNotFetched, LoggedIn, LoginFailed, LoggedOut,
         LoginChecked, Searched, SearchFailed
<1>9. "lost" \notin races' /\ "overtaken" \notin races' /\ Clean
  BY <1>6 DEF Clean
<1>10. Tells(a) => \A j \in 1..i - 1 : ~Tells(answered[j])
  BY <1>8, <1>9 DEF a, Overtaking
<1>. QED BY <1>1, <1>2, <1>3, <1>4, <1>5, <1>6, <1>7, <1>9, <1>10 DEF a

LEMMA ArriveNews ==
  ASSUME SessionInv, ViewInv, NEW i \in DOMAIN answered, Receive(i), Clean',
         NEW p, NEW l, NEW t, NEW k \in Nat, NEW h \in Nat, Current(p, l, t, h),
         h < i => ~TellsLine(answered[i], p, l),
         h = Was(i, k) \/ (h = i /\ k = 0)
  PROVE  Current(p, l, t, k)'
<1>1. Answers
  BY DEF ViewInv, MessagesInv
<1>. QED BY <1>1, Arrival, ArriveCurrent

LEMMA ArriveAnswers ==
  ASSUME SessionInv, ViewInv, AnswersHold, NEW i \in DOMAIN answered, Receive(i), Clean'
  PROVE  AnswersHold'
<1>0. Answers
  BY DEF ViewInv, MessagesInv
<1>1. /\ answered' = Without(answered, i)
      /\ Tells(answered[i]) => \A j \in 1..i - 1 : ~Tells(answered[j])
  BY Arrival
<1>2. /\ DOMAIN answered \subseteq Nat \ {0}
      /\ \A k \in DOMAIN answered' :
           /\ k \in Nat \ {0} /\ Was(i, k) \in DOMAIN answered
           /\ answered'[k] = answered[Was(i, k)]
  BY <1>0, <1>1, AnswersLeft, Zenon
<1>3. ASSUME NEW k \in DOMAIN answered' PROVE AnswerHolds(answered[k], k)'
  <2>1. PICK h, a : h = Was(i, k) /\ a = answered[h]
    OBVIOUS
  <2>2. GoodAnswer(a) /\ AnswerHolds(a, h) /\ h \in Nat /\ k \in Nat \ {0} /\ answered'[k] = a
    BY <1>0, <1>2, <1>3, <2>1, AnswerGood DEF AnswersHold
  <2>3. ASSUME NEW p \in Page, NEW l \in LineIds(p), NEW t, Tells(a), Current(p, l, t, h)
        PROVE  Current(p, l, t, k)'
    <3>1. h < i => ~TellsLine(answered[i], p, l)
      <4>. SUFFICES ASSUME h < i, TellsLine(answered[i], p, l) PROVE FALSE
        OBVIOUS
      <4>1. Tells(answered[i])
        BY DEF TellsLine, Tells
      <4>2. h \in 1..i - 1
        BY <1>2, <2>1, <2>2 DEF Was
      <4>. QED BY <1>1, <2>1, <2>3, <4>1, <4>2
    <3>. QED BY <2>1, <2>2, <2>3, <3>1, ArriveNews
  <2>4. AnswerHolds(a, k)'
    BY <2>2, <2>3, HoldsStill
  <2>. QED BY <2>2, <2>4 DEF AnswerHolds
<1>. QED BY <1>3 DEF AnswersHold

(* A page of the array that the arriving answer does not touch. *)
LEMMA ArriveElsewhere ==
  ASSUME SessionInv, ViewInv, NEW i \in DOMAIN answered, Receive(i), Clean',
         NEW p \in Page, NEW lines, CurrentLines(lines, p, 0),
         \A l \in LineIds(p) : ~TellsLine(answered[i], p, l)
  PROVE  CurrentLines(lines, p, 0)'
<1>1. 0 = Was(i, 0)
  <2>1. i \in Nat \ {0}
    BY AnswersList DEF ViewInv, MessagesInv
  <2>. QED BY <2>1 DEF Was
<1>2. ASSUME NEW l \in LineIds(p), NEW t, Current(p, l, t, 0) PROVE Current(p, l, t, 0)'
  BY <1>1, <1>2, ArriveNews
<1>. QED BY <1>2, CurrentAll

(* A page that arrives becomes the array. *)
LEMMA ArrivePage ==
  ASSUME SessionInv, ViewInv, AnswersHold, NEW i \in DOMAIN answered, Receive(i), Clean',
         answered[i].status = "ok", answered[i].req.op \in PageOps,
         NEW p, p = answered[i].req.page, NEW lines, lines = answered[i].data
  PROVE  CurrentLines(lines, p, 0)'
<1>1. CurrentLines(lines, p, i)
  BY DEF AnswersHold, AnswerHolds
<1>2. i \in Nat
  BY AnswersList DEF ViewInv, MessagesInv
<1>3. ASSUME NEW l \in LineIds(p), NEW t, Current(p, l, t, i) PROVE Current(p, l, t, 0)'
  BY <1>2, <1>3, ArriveNews
<1>. QED BY <1>1, <1>3, CurrentAll

(* A line that arrives is set into the array of its page. *)
LEMMA ArriveLine ==
  ASSUME SessionInv, ViewInv, AnswersHold, NEW i \in DOMAIN answered, Receive(i), Clean',
         answered[i].status = "ok", answered[i].req.op \in {"correctLine", "getLine"},
         NEW p, p = answered[i].req.page, NEW l, l = answered[i].req.line, NEW x, x = answered[i].data,
         NEW lines \in Seq(Lines \cup {Hole}), CurrentLines(lines, p, 0)
  PROVE  CurrentLines(SetAt(lines, l, x), p, 0)'
<1>1. GoodAnswer(answered[i]) /\ GoodRequest(answered[i].req)
  BY Arrival
<1>2. p \in Page /\ l \in LineIds(p) /\ x \in TokensOf(p, l)
  BY <1>1 DEF GoodAnswer, GoodRequest, DataOps, LineOps, PageOps
<1>3. Current(p, l, x.text, i)
  BY DEF AnswersHold, AnswerHolds
<1>4. i \in Nat \ {0}
  BY AnswersList DEF ViewInv, MessagesInv
<1>5. Current(p, l, x.text, 0)'
  BY <1>3, <1>4, ArriveNews
<1>6. ASSUME NEW m \in LineIds(p), m # l, NEW t, Current(p, m, t, 0) PROVE Current(p, m, t, 0)'
  <2>1. 0 = Was(i, 0) /\ ~TellsLine(answered[i], p, m)
    BY <1>4, <1>6 DEF Was, TellsLine
  <2>. QED BY <1>6, <2>1, ArriveNews
<1>. SUFFICES ASSUME NoGaps(p)
              PROVE  /\ Shaped(SetAt(lines, l, x), p)
                     /\ \A m \in LineIds(p) : Current(p, m, SetAt(lines, l, x)[m].text, 0)'
  BY DEF CurrentLines
<1>7. Shaped(lines, p) /\ \A m \in LineIds(p) : Current(p, m, lines[m].text, 0)
  BY DEF CurrentLines
<1>8. /\ Shaped(SetAt(lines, l, x), p) /\ SetAt(lines, l, x)[l] = x
      /\ \A m \in LineIds(p) : m # l => SetAt(lines, l, x)[m] = lines[m]
  BY <1>2, <1>7, SetAtShaped
<1>9. PICK new : new = SetAt(lines, l, x)
  OBVIOUS
<1>10. ASSUME NEW m \in LineIds(p) PROVE Current(p, m, new[m].text, 0)'
  <2>1. CASE m = l
    <3>1. new[m].text = x.text
      BY <1>8, <1>9, <2>1
    <3>. QED BY <1>5, <2>1, <3>1
  <2>2. CASE m # l
    <3>1. PICK t : t = lines[m].text
      OBVIOUS
    <3>2. Current(p, m, t, 0)'
      BY <1>6, <1>7, <2>2, <3>1
    <3>3. new[m].text = t
      BY <1>8, <1>9, <2>2, <3>1
    <3>. QED BY <3>2, <3>3
  <2>. QED BY <2>1, <2>2
<1>. QED BY <1>8, <1>9, <1>10

LEMMA ReceiveArray ==
  ASSUME SessionInv, ViewInv, AnswersHold, ArrayHolds, NEW i \in DOMAIN answered, Receive(i), Clean'
  PROVE  ArrayHolds'
<1>. DEFINE r == answered[i].req
<1>0. MainInv /\ Arrays /\ GoodAnswer(answered[i]) /\ GoodRequest(r)
  BY Arrival DEF ViewInv
<1>1. ASSUME UNCHANGED <<main, layout>>, shown'.page = shown.page,
             main = "page" => /\ models'[layout] = models[layout]
                              /\ \A l \in LineIds(shown.page) : ~TellsLine(answered[i], shown.page, l)
      PROVE  ArrayHolds'
  <2>. SUFFICES ASSUME main = "page" PROVE CurrentLines(models[layout], shown.page, 0)'
    BY <1>1 DEF ArrayHolds
  <2>1. PICK lines, p : lines = models[layout] /\ p = shown.page
    OBVIOUS
  <2>2. p \in Page /\ CurrentLines(lines, p, 0)
    BY <1>0, <2>1 DEF ArrayHolds, MainInv, Document
  <2>3. CurrentLines(lines, p, 0)'
    BY <1>1, <2>1, <2>2, ArriveElsewhere
  <2>. QED BY <1>1, <2>1, <2>3
<1>2. ASSUME answered[i].status = "ok", r.op \in PageOps, NEW n, n = layout',
             models'[n] = answered[i].data, shown'.page = r.page
      PROVE  ArrayHolds'
  <2>1. PICK lines, p : lines = answered[i].data /\ p = r.page
    OBVIOUS
  <2>2. CurrentLines(lines, p, 0)'
    BY <1>2, <2>1, ArrivePage
  <2>3. CurrentLines(models[layout], shown.page, 0)'
    BY <1>2, <2>1, <2>2
  <2>. QED BY <2>3 DEF ArrayHolds
<1>3. ASSUME answered[i].status = "ok", r.op \in {"correctLine", "getLine"}, UNCHANGED <<main, layout>>,
             main = "page", r.layout = layout, r.page = shown.page, shown'.page = shown.page,
             models' = [models EXCEPT ![r.layout] = SetAt(models[r.layout], r.line, answered[i].data)]
      PROVE  ArrayHolds'
  <2>1. PICK lines, p, l, x : lines = models[layout] /\ p = r.page /\ l = r.line /\ x = answered[i].data
    OBVIOUS
  <2>2. lines \in Seq(Lines \cup {Hole}) /\ CurrentLines(lines, p, 0) /\ layout \in DOMAIN models
    BY <1>0, <1>3, <2>1 DEF ArrayHolds, MainInv, Arrays
  <2>3. CurrentLines(SetAt(lines, l, x), p, 0)'
    BY <1>3, <2>1, <2>2, ArriveLine
  <2>4. models'[layout'] = SetAt(lines, l, x) /\ shown'.page = p
    BY <1>3, <2>1, <2>2
  <2>5. PICK new : new = SetAt(lines, l, x)
    OBVIOUS
  <2>6. CurrentLines(new, p, 0)'
    BY <2>3, <2>5
  <2>7. CurrentLines(models[layout], shown.page, 0)'
    BY <2>4, <2>5, <2>6
  <2>. QED BY <2>7 DEF ArrayHolds
<1>4. CASE PageOpened(i)
  <2>1. r.n \in Click
    BY <1>0, <1>4 DEF GoodRequest, DataOps, PageOps, PageOpened, Good
  <2>2. /\ answered[i].status = "ok" /\ r.op \in PageOps /\ layout' = r.n
        /\ models'[r.n] = answered[i].data /\ shown'.page = r.page
    BY <1>0, <1>4, <2>1 DEF PageOpened, Good, PageOps, Arrays
  <2>. QED BY <1>2, <2>2
<1>5. CASE PageTurned(i)
  <2>1. r.layout \in Click
    BY <1>0, <1>5 DEF GoodRequest, DataOps, PageOps, PageTurned, Good
  <2>2. /\ answered[i].status = "ok" /\ r.op \in PageOps /\ r.op = "turnPage" /\ UNCHANGED <<main, layout>>
        /\ models'[r.layout] = answered[i].data
        /\ r.layout = layout => shown'.page = r.page
        /\ r.layout # layout => shown' = shown /\ models'[layout] = models[layout]
    BY <1>0, <1>5, <2>1 DEF PageTurned, Good, PageOps, Arrays
  <2>3. CASE r.layout = layout
    BY <1>2, <2>2, <2>3
  <2>4. CASE r.layout # layout
    BY <1>1, <2>2, <2>4 DEF TellsLine
  <2>. QED BY <2>3, <2>4
<1>6. CASE LineCorrected(i)
  <2>1. /\ answered[i].status = "ok" /\ r.op = "correctLine" /\ UNCHANGED <<main, layout, shown>>
        /\ models' = [models EXCEPT ![r.layout] = SetAt(models[r.layout], r.line, answered[i].data)]
    BY <1>6 DEF LineCorrected, Good
  <2>2. main = "page" => r.layout = layout /\ r.page = shown.page
    <3>1. "strayed" \notin races'
      BY DEF Clean
    <3>2. PICK b : b = (main = "page" /\ (r.layout # layout \/ r.page # shown.page))
      OBVIOUS
    <3>3. When(b, "strayed") \subseteq races'
      BY <1>6, <3>2 DEF LineCorrected
    <3>. QED BY <3>1, <3>2, <3>3 DEF When
  <2>3. CASE main = "page"
    BY <1>3, <2>1, <2>2, <2>3
  <2>4. CASE main # "page"
    BY <2>1, <2>4 DEF ArrayHolds
  <2>. QED BY <2>3, <2>4
<1>7. CASE LineFetched(i)
  <2>0. /\ answered[i].status = "ok" /\ r.op = "getLine" /\ UNCHANGED <<main, layout>>
        /\ r.page \in Page /\ r.line \in LineIds(r.page)
    BY <1>0, <1>7 DEF LineFetched, Good, GoodRequest, DataOps, PageOps, LineOps
  <2>1. CASE HasAnchor(r.page, r.line)
    <3>1. main = "page" /\ Document(shown) /\ shown.page = r.page
      BY <1>0, <2>0, <2>1, AnchorView
    <3>2. r.layout = layout
      <4>1. "strayed" \notin races'
        BY DEF Clean
      <4>2. PICK b : b = (HasAnchor(r.page, r.line) /\ r.layout # layout)
        OBVIOUS
      <4>3. When(b, "strayed") \subseteq races'
        BY <1>7, <4>2 DEF LineFetched
      <4>. QED BY <2>1, <4>1, <4>2, <4>3 DEF When
    <3>3. /\ models' = [models EXCEPT ![r.layout] = SetAt(models[r.layout], r.line, answered[i].data)]
          /\ shown' = DrawLine(answered[i].data, WipeLine(r.line, shown))
      BY <1>7, <2>1 DEF LineFetched
    <3>4. shown'.page = shown.page
      <4>1. DOMAIN WipeLine(r.line, shown) = DOMAIN shown /\ WipeLine(r.line, shown).page = shown.page
        BY <3>1 DEF Document, WipeLine
      <4>. QED BY <3>1, <3>3, <4>1 DEF Document, DrawLine
    <3>. QED BY <1>3, <2>0, <3>1, <3>2, <3>3, <3>4
  <2>2. CASE ~HasAnchor(r.page, r.line)
    <3>1. UNCHANGED <<models, shown>>
      BY <1>7, <2>2 DEF LineFetched
    <3>2. shown.page # r.page
      BY <2>0, <2>2 DEF HasAnchor
    <3>. QED BY <1>1, <2>0, <3>1, <3>2 DEF TellsLine
  <2>. QED BY <2>1, <2>2
<1>8. CASE TokenCorrected(i) \/ LineNotFetched(i) \/ LoginChecked(i)
           \/ Searched(i) \/ SearchFailed(i)
  <2>1. UNCHANGED <<main, layout, models, shown>>
    BY <1>8 DEF TokenCorrected, LineNotFetched, LoginChecked, Searched, SearchFailed, viewVars
  <2>2. answered[i].status # "ok" \/ r.op \notin {"correctLine", "getLine"}
    BY <1>8 DEF TokenCorrected, LineNotFetched, LoginChecked, Searched, Good, SearchFailed, Bad
  <2>. QED BY <1>1, <2>1, <2>2 DEF TellsLine
<1>9. CASE PageFailed(i) \/ CorrectionFailed(i) \/ LoggedIn(i) \/ LoginFailed(i) \/ LoggedOut(i)
  <2>1. models' = models /\ (main' # "page" \/ UNCHANGED <<main, layout, shown>>)
    BY <1>9 DEF PageFailed, CorrectionFailed, LoggedIn, LoginFailed, LoggedOut,
                DefaultErrorHandling, ShowError, Replace
  <2>2. answered[i].status # "ok" \/ r.op \notin {"correctLine", "getLine"}
    BY <1>9 DEF PageFailed, CorrectionFailed, LoggedIn, LoginFailed, LoggedOut, Good, Bad
  <2>3. CASE main' # "page"
    BY <2>3 DEF ArrayHolds
  <2>4. CASE main' = "page"
    BY <1>1, <2>1, <2>2, <2>4 DEF TellsLine
  <2>. QED BY <2>3, <2>4
<1>. QED BY <1>4, <1>5, <1>6, <1>7, <1>8, <1>9 DEF Receive

-----------------------------------------------------------------------------
(* What is drawn.                                                           *)

Animations == [line : Lines, by : Click]

(* An animation more. *)
LEMMA AppendDrawn ==
  ASSUME NEW list \in Seq(Animations), NEW e \in Animations, NEW lines, NEW new, NEW tokens, NEW l,
         e.line.line = l => e.line = new[l],
         e.line.line # l => DrawnOf(lines, list, tokens, l) /\ new[l] = lines[l]
  PROVE  DrawnOf(new, Append(list, e), tokens, l)
<1>1. PICK u, n : u = Append(list, e) /\ n = Len(list)
  OBVIOUS
<1>2. /\ n \in Nat /\ DOMAIN list = 1..n /\ DOMAIN u = 1..n + 1
      /\ \A k \in 1..n : u[k] = list[k]
      /\ u[n + 1] = e
  BY <1>1, AppendProperties, LenProperties
<1>3. CASE e.line.line = l
  <2>1. n + 1 \in DOMAIN u /\ \A j \in DOMAIN u : ~(j > n + 1)
    BY <1>2
  <2>2. LastOf(u, n + 1, l) /\ u[n + 1].line = new[l]
    BY <1>2, <1>3, <2>1 DEF LastOf
  <2>. QED BY <1>1, <2>1, <2>2 DEF DrawnOf
<1>4. CASE e.line.line # l
  <2>1. \A j \in DOMAIN u : j \in 1..n \/ j = n + 1
    BY <1>2
  <2>2. CASE \E k \in DOMAIN list : LastOf(list, k, l) /\ list[k].line = lines[l]
    <3>1. PICK k \in DOMAIN list : LastOf(list, k, l) /\ list[k].line = lines[l]
      BY <2>2
    <3>2. k \in DOMAIN u /\ u[k] = list[k]
      BY <1>2
    <3>3. LastOf(u, k, l)
      BY <1>2, <1>4, <2>1, <3>1, <3>2 DEF LastOf
    <3>. QED BY <1>1, <1>4, <3>1, <3>2, <3>3 DEF DrawnOf
  <2>3. CASE (\A k \in DOMAIN list : list[k].line.line # l) /\ tokens[l] = <<lines[l]>>
    <3>1. \A k \in DOMAIN u : u[k].line.line # l
      BY <1>2, <1>4, <2>1, <2>3
    <3>. QED BY <1>1, <1>4, <2>3, <3>1 DEF DrawnOf
  <2>. QED BY <1>4, <2>2, <2>3 DEF DrawnOf
<1>. QED BY <1>3, <1>4

(* The first animation ends. *)
LEMMA TailDrawn ==
  ASSUME NEW list \in Seq(Animations), list # <<>>, NEW lines, NEW tokens, NEW new, NEW l,
         DrawnOf(lines, list, tokens, l),
         new[l] = IF Head(list).line.line = l THEN <<Head(list).line>> ELSE tokens[l]
  PROVE  DrawnOf(lines, Tail(list), new, l)
<1>1. PICK u, n : u = Tail(list) /\ n = Len(list)
  OBVIOUS
<1>2. /\ n \in Nat \ {0} /\ DOMAIN list = 1..n /\ DOMAIN u = 1..n - 1
      /\ \A k \in 1..n - 1 : u[k] = list[k + 1]
      /\ Head(list) = list[1]
  <2>1. /\ u \in Seq(Animations) /\ Len(u) = n - 1 /\ \A k \in 1..Len(u) : u[k] = list[k + 1]
        /\ Head(list) = list[1]
    BY <1>1, HeadTailProperties
  <2>2. n \in Nat /\ n # 0
    BY <1>1, LenProperties, EmptySeq
  <2>. QED BY <1>1, <2>1, <2>2, LenProperties
<1>0. \A j \in DOMAIN u : j \in Nat \ {0} /\ j + 1 \in DOMAIN list /\ u[j] = list[j + 1]
  BY <1>2
<1>3. CASE \E k \in DOMAIN list : LastOf(list, k, l) /\ list[k].line = lines[l]
  <2>1. PICK k \in DOMAIN list : LastOf(list, k, l) /\ list[k].line = lines[l]
    BY <1>3
  <2>2. CASE k = 1
    <3>1. \A j \in DOMAIN u : j + 1 > k
      BY <1>0, <2>2
    <3>2. \A j \in DOMAIN u : u[j].line.line # l
      BY <1>0, <2>1, <3>1 DEF LastOf
    <3>3. new[l] = <<lines[l]>>
      BY <1>2, <2>1, <2>2 DEF LastOf
    <3>. QED BY <1>1, <3>2, <3>3 DEF DrawnOf
  <2>3. CASE k # 1
    <3>1. PICK m \in 1..n - 1 : m + 1 = k
      <4>1. k - 1 \in 1..n - 1 /\ k - 1 + 1 = k
        BY <1>2, <2>3
      <4>. QED BY <4>1
    <3>2. u[m] = list[k]
      BY <1>2, <3>1
    <3>3. ASSUME NEW j \in DOMAIN u, j > m PROVE u[j].line.line # l
      <4>1. j + 1 \in DOMAIN list /\ u[j] = list[j + 1]
        BY <1>0
      <4>2. j + 1 > k
        BY <1>0, <3>1, <3>3
      <4>. QED BY <2>1, <4>1, <4>2 DEF LastOf
    <3>4. LastOf(u, m, l) /\ u[m].line = lines[l] /\ m \in DOMAIN u
      BY <1>2, <2>1, <3>2, <3>3 DEF LastOf
    <3>. QED BY <1>1, <3>4 DEF DrawnOf
  <2>. QED BY <2>2, <2>3
<1>4. CASE (\A k \in DOMAIN list : list[k].line.line # l) /\ tokens[l] = <<lines[l]>>
  <2>1. \A j \in DOMAIN u : u[j].line.line # l
    BY <1>0, <1>4
  <2>2. Head(list).line.line # l
    BY <1>2, <1>4
  <2>. QED BY <1>1, <1>4, <2>1, <2>2 DEF DrawnOf
<1>. QED BY <1>3, <1>4 DEF DrawnOf

LEMMA DrawnFrame ==
  ASSUME DrawnHolds, UNCHANGED <<main, layout, loading, fading, shown>>,
         main = "page" => models'[layout] = models[layout]
  PROVE  DrawnHolds'
BY DEF DrawnHolds

(* A rendering into a page where nothing loads or fades. *)
LEMMA EmptyDrawn ==
  ASSUME NEW p, NEW n, NEW m, NEW lines
  PROVE  Drawn(lines, <<>>, {[layout |-> n, by |-> m]}, [page |-> p, by |-> m, tokens |-> Empty(p)], n)
<1>1. PICK x : x = [layout |-> n, by |-> m]
  OBVIOUS
<1>2. x.layout = n /\ x \in {x} /\ {x} # {}
  BY <1>1
<1>3. DOMAIN <<>> = {}
  OBVIOUS
<1>. QED BY <1>1, <1>2, <1>3 DEF Drawn

LEMMA RenderedDrawn ==
  ASSUME "hasty" \notin races', DrawnHolds, NEW i, PageOpened(i) \/ PageTurned(i), Arrays, MainInv,
         GoodRequest(answered[i].req)
  PROVE  DrawnHolds'
<1>. DEFINE r == answered[i].req
<1>1. CASE PageOpened(i)
  <2>1. PICK b : b = (loading # {} \/ fading # <<>>)
    OBVIOUS
  <2>2. ~b
    <3>1. When(b, "hasty") \subseteq races'
      BY <1>1, <2>1 DEF PageOpened
    <3>. QED BY <3>1 DEF When
  <2>3. /\ shown' = [page |-> r.page, by |-> r.n, tokens |-> Empty(r.page)] /\ layout' = r.n
        /\ loading' = {[layout |-> r.n, by |-> r.n]} /\ fading' = <<>>
    BY <1>1, <2>1, <2>2 DEF PageOpened
  <2>. QED BY <2>3, EmptyDrawn DEF DrawnHolds
<1>2. CASE PageTurned(i) /\ r.layout = layout
  <2>1. PICK b : b = (r.layout = layout /\ (loading # {} \/ fading # <<>>))
    OBVIOUS
  <2>2. ~b
    <3>1. When(b, "hasty") \subseteq races'
      BY <1>2, <2>1 DEF PageTurned
    <3>. QED BY <3>1 DEF When
  <2>3. /\ shown' = [page |-> r.page, by |-> r.n, tokens |-> Empty(r.page)] /\ layout' = r.layout
        /\ loading' = {[layout |-> r.layout, by |-> r.n]} /\ fading' = <<>>
    BY <1>2, <2>1, <2>2 DEF PageTurned
  <2>. QED BY <2>3, EmptyDrawn DEF DrawnHolds
<1>3. CASE PageTurned(i) /\ r.layout # layout
  <2>1. /\ UNCHANGED <<main, layout, loading, fading, shown>>
        /\ models' = [models EXCEPT ![r.layout] = answered[i].data]
    BY <1>3 DEF PageTurned
  <2>2. main = "page" => models'[layout] = models[layout]
    BY <1>3, <2>1 DEF Arrays, MainInv
  <2>. QED BY <2>1, <2>2, DrawnFrame
<1>. QED BY <1>1, <1>2, <1>3

(* A corrected line begins to fade in. *)
LEMMA CorrectedDrawn ==
  ASSUME ViewInv, "hasty" \notin races', DrawnHolds, ArrayHolds, NEW i, LineCorrected(i),
         GoodAnswer(answered[i]), Clean'
  PROVE  DrawnHolds'
<1>. DEFINE r == answered[i].req
<1>0. MainInv /\ Arrays /\ EventsInv
  BY DEF ViewInv
<1>. SUFFICES ASSUME main = "page", NoGaps(shown.page)
              PROVE  Drawn(models[layout], fading, loading, shown, layout)'
  BY DEF DrawnHolds, Drawn, LineCorrected
<1>1. PICK b, c : /\ b = (main = "page" /\ (r.layout # layout \/ r.page # shown.page))
                  /\ c = (loading # {})
  OBVIOUS
<1>2. ~b /\ ~c
  <2>1. When(b, "strayed") \cup When(c, "hasty") \subseteq races'
    BY <1>1 DEF LineCorrected
  <2>. QED BY <2>1 DEF When, Clean
<1>3. PICK lines, list, tokens, p, by, l, x :
        /\ lines = models[layout] /\ list = fading /\ tokens = shown.tokens /\ p = shown.page
        /\ by = shown.by /\ l = r.line /\ x = answered[i].data
  OBVIOUS
<1>4. /\ p \in Page /\ by \in Click /\ l \in LineIds(p) /\ x \in TokensOf(p, l)
      /\ lines \in Seq(Lines \cup {Hole}) /\ list \in Seq(Animations) /\ layout \in Click
      /\ r.layout = layout /\ r.page = p /\ loading = {}
  BY <1>0, <1>1, <1>2, <1>3 DEF MainInv, Document, GoodAnswer, GoodRequest, DataOps, LineOps, PageOps,
     LineCorrected, Good, Arrays, EventsInv, Animations
<1>5. PICK new, e : new = SetAt(lines, l, x) /\ e = [line |-> x, by |-> by]
  OBVIOUS
<1>6. /\ models'[layout] = new /\ fading' = Append(list, e)
      /\ UNCHANGED <<main, layout, loading, shown>>
  BY <1>0, <1>3, <1>4, <1>5 DEF LineCorrected, HasAnchor, Arrays
<1>7. /\ new[l] = x /\ \A m \in LineIds(p) : m # l => new[m] = lines[m]
  <2>1. Shaped(lines, p)
    BY <1>3 DEF ArrayHolds, CurrentLines
  <2>. QED BY <1>3, <1>4, <1>5, <2>1, SetAtShaped
<1>8. e \in Animations /\ e.line = x /\ e.by = by /\ x.line = l /\ x.page = p
  BY <1>4, <1>5 DEF Animations, TokensOf
<1>9. /\ \A k \in DOMAIN list : list[k].by = by /\ list[k].line.page = p
      /\ \A m \in LineIds(p) : DrawnOf(lines, list, tokens, m)
  BY <1>3, <1>4 DEF DrawnHolds, Drawn
<1>10. PICK u : u = Append(list, e)
  OBVIOUS
<1>11. \A k \in DOMAIN u : u[k].by = by /\ u[k].line.page = p
  <2>1. PICK n : n = Len(list)
    OBVIOUS
  <2>2. /\ n \in Nat /\ DOMAIN list = 1..n /\ DOMAIN u = 1..n + 1
        /\ \A k \in 1..n : u[k] = list[k]
        /\ u[n + 1] = e
    BY <1>4, <1>8, <1>10, <2>1, AppendProperties, LenProperties
  <2>3. \A k \in DOMAIN u : k \in 1..n \/ k = n + 1
    BY <2>2
  <2>. QED BY <1>8, <1>9, <2>2, <2>3
<1>12. ASSUME NEW m \in LineIds(p) PROVE DrawnOf(new, u, tokens, m)
  BY <1>4, <1>7, <1>8, <1>9, <1>10, AppendDrawn
<1>13. Drawn(new, u, {}, shown, layout)
  BY <1>3, <1>11, <1>12 DEF Drawn
<1>. QED BY <1>4, <1>6, <1>10, <1>13

(* A line that was asked for is drawn at once. *)
LEMMA FetchedDrawn ==
  ASSUME ViewInv, "hasty" \notin races', DrawnHolds, ArrayHolds, NEW i, LineFetched(i),
         GoodAnswer(answered[i]), Clean'
  PROVE  DrawnHolds'
<1>. DEFINE r == answered[i].req
            here == HasAnchor(r.page, r.line)
<1>0. MainInv /\ Arrays /\ EventsInv
  BY DEF ViewInv
<1>1. CASE ~here
  <2>1. UNCHANGED <<main, layout, loading, fading, shown, models>>
    BY <1>1 DEF LineFetched
  <2>. QED BY <2>1, DrawnFrame
<1>2. CASE here
  <2>1. r.page \in Page /\ r.line \in LineIds(r.page) /\ answered[i].data \in TokensOf(r.page, r.line)
        /\ r.layout \in Click
    BY DEF GoodAnswer, GoodRequest, DataOps, LineOps, PageOps, LineFetched, Good
  <2>2. main = "page" /\ Document(shown) /\ shown.page = r.page
    BY <1>0, <1>2, <2>1, AnchorView
  <2>. SUFFICES ASSUME NoGaps(shown.page)
                PROVE  Drawn(models[layout], fading, loading, shown, layout)'
    <3>1. shown'.page = shown.page
      <4>1. DOMAIN WipeLine(r.line, shown) = DOMAIN shown /\ WipeLine(r.line, shown).page = shown.page
        BY <2>2 DEF Document, WipeLine
      <4>2. shown' = DrawLine(answered[i].data, WipeLine(r.line, shown))
        BY <1>2 DEF LineFetched
      <4>. QED BY <2>2, <4>1, <4>2 DEF Document, DrawLine
    <3>. QED BY <3>1 DEF DrawnHolds, Drawn
  <2>3. PICK b, c : b = (here /\ r.layout # layout) /\ c = (here /\ (loading # {} \/ fading # <<>>))
    OBVIOUS
  <2>4. ~b /\ ~c
    <3>1. When(b, "strayed") \cup When(c, "hasty") \subseteq races'
      BY <2>3 DEF LineFetched
    <3>. QED BY <3>1 DEF When, Clean
  <2>5. PICK lines, tokens, p, l, x :
          /\ lines = models[layout] /\ tokens = shown.tokens /\ p = shown.page
          /\ l = r.line /\ x = answered[i].data
    OBVIOUS
  <2>6. /\ p \in Page /\ l \in LineIds(p) /\ x \in TokensOf(p, l)
        /\ lines \in Seq(Lines \cup {Hole}) /\ layout \in Click
        /\ r.layout = layout /\ r.page = p /\ loading = {} /\ fading = <<>>
    BY <1>0, <1>2, <2>1, <2>2, <2>3, <2>4, <2>5 DEF Arrays
  <2>7. PICK new : new = SetAt(lines, l, x)
    OBVIOUS
  <2>8. /\ models'[layout] = new /\ UNCHANGED <<main, layout, loading, fading>>
        /\ shown' = DrawLine(x, WipeLine(l, shown))
    BY <1>0, <1>2, <2>5, <2>6, <2>7 DEF LineFetched, Arrays
  <2>9. /\ new[l] = x /\ \A m \in LineIds(p) : m # l => new[m] = lines[m]
    <3>1. Shaped(lines, p)
      BY <2>2, <2>5 DEF ArrayHolds, CurrentLines
    <3>. QED BY <2>5, <2>6, <2>7, <3>1, SetAtShaped
  <2>10. \A m \in LineIds(p) : tokens[m] = <<lines[m]>>
    <3>1. DOMAIN <<>> = {}
      OBVIOUS
    <3>. QED BY <2>2, <2>5, <2>6, <3>1 DEF DrawnHolds, Drawn, DrawnOf
  <2>11. /\ shown'.page = p
         /\ \A m \in LineIds(p) : shown'.tokens[m] = IF m = l THEN <<x>> ELSE tokens[m]
    <3>1. PICK s : s = WipeLine(l, shown)
      OBVIOUS
    <3>2. /\ Document(s) /\ s.page = p
      BY <2>2, <2>5, <2>6, <3>1, WipeType
    <3>3. s.tokens = [tokens EXCEPT ![l] = <<>>]
      BY <2>2, <2>5, <3>1 DEF Document, WipeLine
    <3>4. DOMAIN tokens = LineIds(p)
      BY <2>2, <2>5 DEF Document
    <3>5. x.line = l
      BY <2>6 DEF TokensOf
    <3>6. shown'.tokens = [s.tokens EXCEPT ![l] = Append(s.tokens[l], x)] /\ shown'.page = p
      BY <2>8, <3>1, <3>2, <3>5 DEF Document, DrawLine
    <3>7. Append(<<>>, x) = <<x>>
      OBVIOUS
    <3>. QED BY <2>6, <3>3, <3>4, <3>6, <3>7
  <2>12. PICK s : s = shown'
    OBVIOUS
  <2>13. ASSUME NEW m \in LineIds(p) PROVE DrawnOf(new, <<>>, s.tokens, m)
    <3>1. s.tokens[m] = <<new[m]>>
      BY <2>9, <2>10, <2>11, <2>12
    <3>2. DOMAIN <<>> = {}
      OBVIOUS
    <3>. QED BY <3>1, <3>2 DEF DrawnOf
  <2>14. Drawn(new, <<>>, {}, s, layout)
    <3>1. DOMAIN <<>> = {}
      OBVIOUS
    <3>. QED BY <2>11, <2>12, <2>13, <3>1 DEF Drawn
  <2>. QED BY <2>6, <2>8, <2>12, <2>14
<1>. QED BY <1>1, <1>2

(* A slider draws the page anew. *)
LEMMA RedrawDrawn ==
  ASSUME ViewInv, "hasty" \notin races', DrawnHolds, ArrayHolds, Redraw
  PROVE  DrawnHolds'
<1>0. /\ main = "page" /\ Document(shown) /\ layout \in Click
      /\ models[layout] \in Seq(Lines \cup {Hole}) /\ UNCHANGED <<main, layout, models, loading, fading>>
  BY DEF Redraw, ViewInv, MainInv, Arrays
<1>1. PICK s, lines, p, by : s = Wipe(shown) /\ lines = models[layout] /\ p = shown.page /\ by = shown.by
  OBVIOUS
<1>2. Document(s) /\ s.page = p /\ s.by = by /\ s.tokens = Empty(p) /\ p \in Page
  BY <1>0, <1>1, WipeType DEF Wipe, Document
<1>3. PICK new : new = Draw(lines, s)
  OBVIOUS
<1>4. Document(new) /\ new.page = p /\ new.by = by /\ shown' = new
  BY <1>0, <1>1, <1>2, <1>3, DrawType DEF Redraw
<1>5. loading = {}
  BY DEF Redraw
<1>. SUFFICES ASSUME NoGaps(p) PROVE Drawn(lines, fading, {}, new, layout)
  BY <1>0, <1>1, <1>4, <1>5 DEF DrawnHolds, Drawn
<1>6. /\ \A k \in DOMAIN fading : fading[k].by = by /\ fading[k].line.page = p
      /\ \A l \in LineIds(p) : DrawnOf(lines, fading, shown.tokens, l)
  BY <1>0, <1>1, <1>5 DEF DrawnHolds, Drawn
<1>7. Shaped(lines, p)
  BY <1>0, <1>1 DEF ArrayHolds, CurrentLines
<1>8. \A l \in LineIds(p) : new.tokens[l] = <<lines[l]>>
  BY <1>2, <1>3, <1>7, DrawShaped
<1>9. \A l \in LineIds(p) : DrawnOf(lines, fading, new.tokens, l)
  BY <1>6, <1>8 DEF DrawnOf
<1>. QED BY <1>4, <1>6, <1>9 DEF Drawn

(* The images are loaded. *)
LEMMA LoadedDrawn ==
  ASSUME ViewInv, DrawnHolds, ArrayHolds, NEW x \in loading, ImagesLoaded(x)
  PROVE  DrawnHolds'
<1>1. CASE main # "page"
  BY <1>1 DEF DrawnHolds, ImagesLoaded
<1>2. CASE main = "page"
  <2>0. /\ Document(shown) /\ layout \in Click /\ x.layout \in Click
        /\ \A c \in Click : models[c] \in Seq(Lines \cup {Hole})
        /\ UNCHANGED <<main, layout, models, fading>>
    BY <1>2 DEF ImagesLoaded, ViewInv, MainInv, Arrays, EventsInv
  <2>1. PICK new, p, lines, drawn : /\ new = shown' /\ p = shown.page
                                    /\ lines = models[layout] /\ drawn = models[x.layout]
    OBVIOUS
  <2>2. new = Draw(drawn, shown) /\ drawn \in Seq(Lines \cup {Hole}) /\ p \in Page
    BY <1>2, <2>0, <2>1 DEF ImagesLoaded, Document
  <2>3. Document(new) /\ new.page = p /\ new.by = shown.by
    BY <2>0, <2>1, <2>2, DrawType
  <2>. SUFFICES ASSUME NoGaps(p) PROVE Drawn(lines, fading, loading', new, layout)
    BY <2>0, <2>1, <2>3 DEF DrawnHolds, Drawn
  <2>4. fading = <<>> /\ shown.tokens = Empty(p) /\ x.layout = layout /\ loading' = {}
    BY <1>2, <2>1 DEF DrawnHolds, Drawn, ImagesLoaded
  <2>5. Shaped(lines, p) /\ drawn = lines
    BY <1>2, <2>1, <2>4 DEF ArrayHolds, CurrentLines
  <2>6. \A l \in LineIds(p) : new.tokens[l] = <<lines[l]>>
    BY <2>0, <2>1, <2>2, <2>4, <2>5, DrawShaped
  <2>7. DOMAIN <<>> = {}
    OBVIOUS
  <2>8. \A l \in LineIds(p) : DrawnOf(lines, fading, new.tokens, l)
    BY <2>4, <2>6, <2>7 DEF DrawnOf
  <2>. QED BY <2>1, <2>3, <2>4, <2>7, <2>8 DEF Drawn
<1>. QED BY <1>1, <1>2

(* A line has faded in. *)
LEMMA FadedDrawn ==
  ASSUME ViewInv, DrawnHolds, Faded
  PROVE  DrawnHolds'
<1>0. /\ MainInv /\ fading \in Seq(Animations) /\ fading # <<>> /\ fading' = Tail(fading)
      /\ UNCHANGED <<main, layout, models, loading>>
  BY DEF ViewInv, EventsInv, Animations, Faded
<1>1. PICK list, e, x, by : list = fading /\ e = Head(list) /\ x = e.line /\ by = e.by
  OBVIOUS
<1>2. /\ x \in Lines /\ by \in Click /\ x.page \in Page
      /\ list \in Seq(Animations) /\ list # <<>> /\ 1 \in DOMAIN list /\ e = list[1]
  <2>1. list \in Seq(Animations) /\ list # <<>> /\ e \in Animations /\ 1 \in DOMAIN list /\ e = list[1]
    BY <1>0, <1>1
  <2>. QED BY <1>1, <2>1 DEF Animations, Lines
<1>3. PICK s : s = IF by = shown.by THEN WipeLine(x.line, shown) ELSE shown
  OBVIOUS
<1>4. shown' = IF HasAnchor(x.page, x.line) THEN DrawLine(x, s) ELSE shown
  BY <1>1, <1>3 DEF Faded
<1>5. CASE main # "page"
  <2>1. ~HasAnchor(x.page, x.line)
    BY <1>0, <1>2, <1>5, AnchorView
  <2>. QED BY <1>0, <1>4, <1>5, <2>1 DEF DrawnHolds
<1>6. CASE main = "page"
  <2>1. PICK p, tokens, new, lines : /\ p = shown.page /\ tokens = shown.tokens /\ new = shown'
                                     /\ lines = models[layout]
    OBVIOUS
  <2>2. Document(shown) /\ p \in Page /\ DOMAIN tokens = LineIds(p)
    BY <1>0, <1>6, <2>1 DEF MainInv, Document
  <2>3. new.page = p /\ new.by = shown.by
    <3>1. CASE ~HasAnchor(x.page, x.line)
      BY <1>4, <2>1, <3>1
    <3>2. CASE HasAnchor(x.page, x.line)
      <4>1. x.page = p /\ x.line \in LineIds(p) /\ x \in TokensOf(p, x.line)
        BY <1>2, <2>1, <3>2 DEF HasAnchor, TokensOf
      <4>2. Document(s) /\ s.page = p /\ s.by = shown.by
        BY <1>3, <2>1, <2>2, <4>1, WipeType
      <4>. QED BY <1>4, <2>1, <3>2, <4>1, <4>2, DrawLineType
    <3>. QED BY <3>1, <3>2
  <2>. SUFFICES ASSUME NoGaps(p) PROVE Drawn(lines, Tail(list), loading, new, layout)
    BY <1>0, <1>1, <2>1, <2>3 DEF DrawnHolds, Drawn
  <2>4. /\ loading = {}
        /\ \A k \in DOMAIN list : list[k].by = shown.by /\ list[k].line.page = p
        /\ \A l \in LineIds(p) : DrawnOf(lines, list, tokens, l)
    BY <1>0, <1>1, <1>6, <2>1 DEF DrawnHolds, Drawn
  <2>5. by = shown.by /\ x.page = p
    BY <1>1, <1>2, <2>4
  <2>6. ASSUME NEW l \in LineIds(p) PROVE new.tokens[l] = IF x.line = l THEN <<x>> ELSE tokens[l]
    <3>1. CASE x.line \notin LineIds(p)
      BY <1>4, <2>1, <2>5, <3>1 DEF HasAnchor
    <3>2. CASE x.line \in LineIds(p)
      <4>1. s = WipeLine(x.line, shown) /\ new = DrawLine(x, s)
        BY <1>3, <1>4, <2>1, <2>5, <3>2 DEF HasAnchor
      <4>2. Document(s) /\ s.tokens = [tokens EXCEPT ![x.line] = <<>>]
        BY <2>1, <2>2, <3>2, <4>1, WipeType DEF Document, WipeLine
      <4>3. new.tokens = [s.tokens EXCEPT ![x.line] = Append(s.tokens[x.line], x)]
        BY <4>1, <4>2 DEF Document, DrawLine
      <4>4. Append(<<>>, x) = <<x>>
        OBVIOUS
      <4>. QED BY <2>2, <3>2, <4>2, <4>3, <4>4
    <3>. QED BY <3>1, <3>2
  <2>7. ASSUME NEW l \in LineIds(p) PROVE DrawnOf(lines, Tail(list), new.tokens, l)
    <3>1. new.tokens[l] = IF Head(list).line.line = l THEN <<Head(list).line>> ELSE tokens[l]
      BY <1>1, <2>6
    <3>. QED BY <1>2, <2>4, <3>1, TailDrawn
  <2>8. \A k \in DOMAIN Tail(list) : Tail(list)[k].by = shown.by /\ Tail(list)[k].line.page = p
    <3>1. /\ DOMAIN Tail(list) = 1..Len(list) - 1 /\ DOMAIN list = 1..Len(list) /\ Len(list) \in Nat
          /\ \A k \in 1..Len(list) - 1 : Tail(list)[k] = list[k + 1]
      BY <1>2, HeadTailProperties, LenProperties
    <3>2. \A k \in DOMAIN Tail(list) : k + 1 \in DOMAIN list
      BY <3>1
    <3>. QED BY <2>4, <3>1, <3>2
  <2>. QED BY <2>3, <2>4, <2>7, <2>8 DEF Drawn
<1>. QED BY <1>5, <1>6

-----------------------------------------------------------------------------
(* The steps.                                                               *)

\* What a step must keep that leaves the session clean.
Shows == AnswersHold' /\ ArrayHolds' /\ ("hasty" \notin races' => DrawnHolds')

LEMMA ShownFrame ==
  ASSUME races \subseteq races'
  PROVE  /\ Clean' => Clean
         /\ "hasty" \notin races' => "hasty" \notin races
         /\ (Clean' => Shows) => ShownInv'
BY DEF Clean, Shows, ShownInv

LEMMA InitShown == Init => ShownInv
BY DEF Init, ShownInv, AnswersHold, ArrayHolds, DrawnHolds

LEMMA SentShown ==
  ASSUME ViewInv, ShownInv, NEW r, Causes(r),
         UNCHANGED <<main, layout, models, shown, loading, fading, races>>
  PROVE  ShownInv'
<1>1. /\ UNCHANGED <<answered, stored>> /\ pending \subseteq pending'
  BY DEF Causes, Ask
<1>2. ASSUME Clean' PROVE Shows
  <2>1. AnswersHold /\ ArrayHolds /\ ("hasty" \notin races => DrawnHolds)
    BY <1>2, ShownFrame DEF ShownInv
  <2>2. AnswersHold' /\ ArrayHolds'
    BY <1>1, <2>1, FrameHolds, SendCurrent
  <2>. QED BY <2>1, <2>2, DrawnFrame DEF Shows
<1>. QED BY <1>2, ShownFrame

LEMMA UserShown ==
  ASSUME ViewInv, ShownInv, UserStep
  PROVE  ShownInv'
<1>1. ASSUME NEW p \in Page, OpenPage(p) \/ TurnPage(p) PROVE ShownInv'
  BY <1>1, SentShown DEF OpenPage, TurnPage
<1>2. ASSUME NEW l \in AnyLine, NEW t \in Text, EditLine(l, t) PROVE ShownInv'
  BY <1>2, SentShown DEF EditLine, viewVars
<1>3. ASSUME NEW p \in Page, NEW l \in AnyLine, NEW t \in Text, EditToken(p, l, t) PROVE ShownInv'
  BY <1>3, SentShown DEF EditToken, viewVars
<1>4. CASE SubmitLogin \/ ClickLogout \/ SearchConcordance
  BY <1>4, SentShown DEF SubmitLogin, ClickLogout, SearchConcordance, viewVars
<1>5. CASE Redraw
  <2>1. UNCHANGED <<answered, pending, stored, main, layout, models>> /\ races \subseteq races'
    BY <1>5 DEF Redraw, sessionVars
  <2>2. ASSUME Clean' PROVE Shows
    <3>1. AnswersHold /\ ArrayHolds /\ ("hasty" \notin races => DrawnHolds)
      BY <2>1, <2>2, ShownFrame DEF ShownInv
    <3>2. shown'.page = shown.page
      <4>1. Document(shown) /\ layout \in Click /\ models[layout] \in Seq(Lines \cup {Hole})
            /\ shown' = Draw(models[layout], Wipe(shown))
        BY <1>5 DEF Redraw, ViewInv, MainInv, Arrays
      <4>2. Document(Wipe(shown)) /\ Wipe(shown).page = shown.page
        BY <4>1, WipeType
      <4>. QED BY <4>1, <4>2, DrawType
    <3>3. AnswersHold' /\ ArrayHolds'
      BY <2>1, <3>1, <3>2, FrameHolds, SendCurrent
    <3>4. "hasty" \notin races' => DrawnHolds'
      BY <1>5, <2>1, <3>1, RedrawDrawn
    <3>. QED BY <3>3, <3>4 DEF Shows
  <2>. QED BY <2>1, <2>2, ShownFrame
<1>6. CASE GoElsewhere
  <2>1. /\ UNCHANGED <<answered, pending, stored, races>> /\ main' = "other"
    BY <1>6 DEF GoElsewhere, Replace, sessionVars
  <2>2. ASSUME Clean' PROVE Shows
    <3>1. AnswersHold
      BY <2>1, <2>2, ShownFrame DEF ShownInv
    <3>2. ASSUME NEW k \in DOMAIN answered PROVE AnswerHolds(answered[k], k)'
      <4>1. PICK a : a = answered[k]
        OBVIOUS
      <4>2. GoodAnswer(a) /\ AnswerHolds(a, k)
        BY <3>1, <4>1, AnswerGood DEF ViewInv, MessagesInv, AnswersHold
      <4>3. AnswerHolds(a, k)'
        BY <2>1, <4>2, HoldsStill, SendCurrent
      <4>. QED BY <2>1, <4>1, <4>3
    <3>3. AnswersHold'
      BY <2>1, <3>2 DEF AnswersHold
    <3>4. ArrayHolds' /\ DrawnHolds'
      BY <2>1 DEF ArrayHolds, DrawnHolds
    <3>. QED BY <3>3, <3>4 DEF Shows
  <2>. QED BY <2>1, <2>2, ShownFrame
<1>. QED BY <1>1, <1>2, <1>3, <1>4, <1>5, <1>6 DEF UserStep

LEMMA StutterShown ==
  ASSUME ViewInv, ShownInv, UNCHANGED <<pending, answered, stored, viewVars, races>>
  PROVE  ShownInv'
<1>1. UNCHANGED <<main, layout, models, shown, loading, fading>>
  BY DEF viewVars
<1>2. ASSUME Clean' PROVE Shows
  <2>1. AnswersHold /\ ArrayHolds /\ ("hasty" \notin races => DrawnHolds)
    BY <1>2, ShownFrame DEF ShownInv
  <2>2. AnswersHold' /\ ArrayHolds'
    BY <1>1, <2>1, FrameHolds, SendCurrent
  <2>. QED BY <1>1, <2>1, <2>2, DrawnFrame DEF Shows
<1>. QED BY <1>2, ShownFrame

(* The routes and the gateway answer. *)
LEMMA AnsweredShown ==
  ASSUME ViewInv, ShownInv, UNCHANGED viewVars, races \subseteq races',
         NEW r \in pending, NEW a, Reply(r, a), GoodRequest(r),
         r.op = "getLine" => a.req = r,
         Clean' /\ stored' # stored => Stores(r) /\ r.op \in LineOps /\ a.req = r /\ a.status = "ok",
         \A k : AnswerHolds(a, k)'
  PROVE  ShownInv'
<1>1. UNCHANGED <<main, layout, models, shown, loading, fading>>
  BY DEF viewVars
<1>2. ASSUME Clean' PROVE Shows
  <2>1. AnswersHold /\ ArrayHolds /\ ("hasty" \notin races => DrawnHolds)
    BY <1>2, ShownFrame DEF ShownInv
  <2>2. AnswersHold' /\ ArrayHolds'
    BY <1>1, <1>2, <2>1, ReplyHolds
  <2>. QED BY <1>1, <2>1, <2>2, DrawnFrame, ShownFrame DEF Shows
<1>. QED BY <1>2, ShownFrame

LEMMA ServerShown ==
  ASSUME SessionInv, ViewInv, ShownInv, ServeAny \/ Mishap \/ UseElsewhere
  PROVE  ShownInv'
<1>. USE DEF Untouched
<1>0. StoredInv /\ \A r \in pending : GoodRequest(r) /\ SoundRequest(r)
  BY DEF ViewInv, MessagesInv, SessionInv
<1>1. ASSUME NEW r \in pending, NEW q, NEW status, status # "ok", Reply(r, Answer(q, status, None)),
             r.op = "getLine" => q = r, UNCHANGED <<viewVars, stored, races>>
      PROVE  ShownInv'
  <2>1. PICK a : a = Answer(q, status, None)
    OBVIOUS
  <2>2. a.req = q /\ a.status # "ok"
    BY <1>1, <2>1 DEF Answer
  <2>3. \A k : AnswerHolds(a, k)'
    BY <2>2 DEF AnswerHolds
  <2>. QED BY <1>0, <1>1, <2>1, <2>2, <2>3, AnsweredShown
<1>2. ASSUME NEW r \in pending, Refuse(r) PROVE ShownInv'
  BY <1>1, <1>2 DEF Refuse
<1>3. ASSUME NEW r \in pending, Fail(r) PROVE ShownInv'
  <2>1. PICK q : q = AsSent(r)
    OBVIOUS
  <2>2. r.op = "getLine" => q = r
    BY <2>1 DEF AsSent
  <2>. QED BY <1>1, <1>3, <2>1, <2>2 DEF Fail
<1>9. ASSUME NEW r \in pending, ServeSearch(r) PROVE ShownInv'
  <2>1. PICK a : a = Answer(r, "ok", None)
    OBVIOUS
  <2>2. /\ Reply(r, a) /\ UNCHANGED <<viewVars, stored, races>> /\ r.op = "search"
        /\ a.req = r /\ GoodRequest(r)
    BY <1>0, <1>9, <2>1 DEF ServeSearch, Answer
  <2>3. \A k : AnswerHolds(a, k)'
    BY <2>2 DEF AnswerHolds, PageOps
  <2>. QED BY <2>2, <2>3, AnsweredShown
<1>4. ASSUME NEW r \in pending, ServeRead(r) PROVE ShownInv'
  <2>1. PICK d, a : d = DataFor(r) /\ a = Answer(r, "ok", d)
    OBVIOUS
  <2>2. /\ Reply(r, a) /\ UNCHANGED <<viewVars, stored, races>>
        /\ r.op \in PageOps \cup {"getLine"} /\ GoodRequest(r)
    BY <1>0, <1>4, <2>1 DEF ServeRead
  <2>3. a.req = r /\ a.status = "ok" /\ a.data = d
    BY <2>1 DEF Answer
  <2>4. PICK p, l : p = r.page /\ l = r.line
    OBVIOUS
  <2>5. CASE r.op \in PageOps
    <3>1. p \in Page /\ d = LinesOf(p)
      BY <2>1, <2>2, <2>4, <2>5 DEF GoodRequest, DataOps, DataFor
    <3>2. NoGaps(p) => /\ Shaped(d, p)
                       /\ \A m \in LineIds(p) : d[m].text = stored[p][m]
      BY <1>0, <3>1, LinesAre
    <3>3. \A k : CurrentLines(d, p, k)'
      BY <2>2, <3>2 DEF CurrentLines, Current
    <3>4. \A k : AnswerHolds(a, k)'
      BY <2>3, <2>4, <2>5, <3>3 DEF AnswerHolds, PageOps
    <3>. QED BY <2>2, <2>3, <3>4, AnsweredShown
  <2>6. CASE r.op = "getLine"
    <3>1. d.text = stored[p][l]
      BY <2>1, <2>4, <2>6 DEF DataFor, Line, PageOps
    <3>2. \A k : Current(p, l, d.text, k)'
      BY <2>2, <3>1 DEF Current
    <3>3. \A k : AnswerHolds(a, k)'
      BY <2>3, <2>4, <2>6, <3>2 DEF AnswerHolds, PageOps
    <3>. QED BY <2>2, <2>3, <3>3, AnsweredShown
  <2>. QED BY <2>2, <2>5, <2>6
<1>5. ASSUME NEW r \in pending, ServeCorrection(r, FALSE) PROVE ShownInv'
  <2>1. PICK d, a : d = Line(r.page, r.line, r.text) /\ a = Answer(r, "ok", d)
    OBVIOUS
  <2>2. /\ Reply(r, a) /\ UNCHANGED viewVars /\ races' = races
        /\ r.op \in LineOps /\ GoodRequest(r) /\ Stores(r)
    BY <1>0, <1>5, <2>1 DEF ServeCorrection, Stores
  <2>3. a.req = r /\ a.status = "ok" /\ a.data = d
    BY <2>1 DEF Answer
  <2>4. PICK p, l, t : p = r.page /\ l = r.line /\ t = r.text
    OBVIOUS
  <2>5. p \in Page /\ l \in LineIds(p) /\ d.text = t
    BY <2>1, <2>2, <2>4 DEF GoodRequest, DataOps, LineOps, PageOps, Line
  <2>6. stored'[p][l] = t
    BY <1>0, <2>2, <2>4, <2>5 DEF Stores, StoredInv
  <2>7. \A k : Current(p, l, d.text, k)'
    BY <2>5, <2>6 DEF Current
  <2>8. \A k : AnswerHolds(a, k)'
    BY <2>2, <2>3, <2>4, <2>7 DEF AnswerHolds, PageOps, LineOps
  <2>. QED BY <2>2, <2>3, <2>8, AnsweredShown DEF LineOps
<1>6. ASSUME NEW r \in pending, ServeCorrection(r, TRUE) PROVE ShownInv'
  BY <1>6 DEF ServeCorrection, ShownInv, Clean
<1>7. ASSUME NEW r \in pending, ServeSession(r) PROVE ShownInv'
  <2>1. UNCHANGED <<viewVars, stored, races>> /\ r.op \in SessionOps /\ GoodRequest(r) /\ SoundRequest(r)
    BY <1>0, <1>7 DEF ServeSession
  <2>2. CASE ServeLoginDelete(r)
    <3>1. UNCHANGED answered /\ pending \ {r} \subseteq pending'
      BY <2>2 DEF ServeLoginDelete
    <3>2. \A q \in pending : q.op = "getLine" => q \in pending'
      BY <2>1, <3>1 DEF SessionOps
    <3>3. UNCHANGED <<main, layout, models, shown, loading, fading>>
      BY <2>1 DEF viewVars
    <3>4. ASSUME Clean' PROVE Shows
      <4>1. AnswersHold /\ ArrayHolds /\ ("hasty" \notin races => DrawnHolds)
        BY <2>1, <3>4, ShownFrame DEF ShownInv
      <4>2. AnswersHold' /\ ArrayHolds'
        BY <2>1, <3>1, <3>2, <3>3, <4>1, FrameHolds, SendCurrent
      <4>. QED BY <2>1, <3>3, <4>1, <4>2, DrawnFrame DEF Shows
    <3>. QED BY <2>1, <3>4, ShownFrame
  <2>3. CASE ~ServeLoginDelete(r)
    <3>1. PICK q, status, data : /\ Reply(r, Answer(q, status, data))
                                 /\ q = r \/ q = [r EXCEPT !.op = "login"]
      BY <1>7, <2>3 DEF ServeSession, RefuseLogin, ServeLoginInsert, ServeLoginCheck,
                        ServeLogout
    <3>2. q.op \in SessionOps
      BY <2>1, <3>1 DEF SoundRequest, SessionOps
    <3>3. PICK a : a = Answer(q, status, data)
      OBVIOUS
    <3>4. a.req = q
      BY <3>3 DEF Answer
    <3>5. \A k : AnswerHolds(a, k)'
      BY <3>2, <3>4 DEF AnswerHolds, SessionOps, PageOps
    <3>6. r.op # "getLine"
      BY <2>1 DEF SessionOps
    <3>. QED BY <2>1, <3>1, <3>3, <3>5, <3>6, AnsweredShown
  <2>. QED BY <2>2, <2>3
<1>8. CASE UseElsewhere
  <2>1. UNCHANGED <<pending, answered, stored, viewVars, races>>
    BY <1>8 DEF UseElsewhere, LoginElsewhereDelete, LoginElsewhereInsert
  <2>. QED BY <2>1, StutterShown
<1>. QED BY <1>2, <1>3, <1>4, <1>5, <1>6, <1>7, <1>8, <1>9 DEF ServeAny, Serve, Mishap

LEMMA ReceiveShown ==
  ASSUME SessionInv, ViewInv, ShownInv, ReceiveAny
  PROVE  ShownInv'
<1>1. PICK i \in DOMAIN answered : Receive(i)
  BY DEF ReceiveAny
<1>. SUFFICES ASSUME Clean' PROVE Shows
  BY DEF ShownInv, Shows
<1>2. /\ races \subseteq races' /\ Clean /\ GoodAnswer(answered[i]) /\ GoodRequest(answered[i].req)
  BY <1>1, Arrival
<1>3. AnswersHold /\ ArrayHolds /\ ("hasty" \notin races => DrawnHolds)
  BY <1>2 DEF ShownInv
<1>4. AnswersHold' /\ ArrayHolds'
  BY <1>1, <1>3, ArriveAnswers, ReceiveArray
<1>5. ASSUME "hasty" \notin races' PROVE DrawnHolds'
  <2>0. DrawnHolds /\ Arrays /\ MainInv
    BY <1>2, <1>3, <1>5 DEF ViewInv
  <2>1. CASE PageOpened(i) \/ PageTurned(i)
    BY <1>2, <1>5, <2>0, <2>1, RenderedDrawn
  <2>2. CASE LineCorrected(i)
    BY <1>2, <1>3, <1>5, <2>0, <2>2, CorrectedDrawn
  <2>3. CASE LineFetched(i)
    BY <1>2, <1>3, <1>5, <2>0, <2>3, FetchedDrawn
  <2>4. CASE TokenCorrected(i) \/ LineNotFetched(i) \/ LoginChecked(i)
             \/ Searched(i) \/ SearchFailed(i)
    <3>1. UNCHANGED <<main, layout, models, shown, loading, fading>>
      BY <2>4 DEF TokenCorrected, LineNotFetched, LoginChecked, Searched, SearchFailed, viewVars
    <3>. QED BY <2>0, <3>1, DrawnFrame
  <2>5. CASE PageFailed(i) \/ CorrectionFailed(i) \/ LoggedIn(i) \/ LoginFailed(i) \/ LoggedOut(i)
    <3>1. UNCHANGED <<models, loading, fading>> /\ (main' # "page" \/ UNCHANGED <<main, layout, shown>>)
      BY <2>5 DEF PageFailed, CorrectionFailed, LoggedIn, LoginFailed, LoggedOut,
                  DefaultErrorHandling, ShowError, Replace
    <3>2. CASE main' # "page"
      BY <3>2 DEF DrawnHolds
    <3>3. CASE main' = "page"
      BY <2>0, <3>1, <3>3, DrawnFrame
    <3>. QED BY <3>2, <3>3
  <2>. QED BY <1>1, <2>1, <2>2, <2>3, <2>4, <2>5 DEF Receive
<1>. QED BY <1>4, <1>5 DEF Shows

(* The document stays that of its page. *)
LEMMA BrowserPage ==
  ASSUME ViewInv, BrowserStep
  PROVE  shown'.page = shown.page
<1>0. MainInv /\ Arrays /\ EventsInv
  BY DEF ViewInv
<1>1. ASSUME NEW x \in loading, ImagesLoaded(x) PROVE shown'.page = shown.page
  <2>1. CASE main = "page"
    <3>1. Document(shown) /\ models[x.layout] \in Seq(Lines \cup {Hole})
      BY <1>0, <2>1 DEF MainInv, Arrays, EventsInv
    <3>. QED BY <1>1, <2>1, <3>1, DrawType DEF ImagesLoaded
  <2>2. CASE main # "page"
    BY <1>1, <2>2 DEF ImagesLoaded
  <2>. QED BY <2>1, <2>2
<1>2. ASSUME Faded PROVE shown'.page = shown.page
  <2>1. PICK x, s : /\ x = Head(fading).line
                    /\ s = IF Head(fading).by = shown.by THEN WipeLine(x.line, shown) ELSE shown
                    /\ shown' = IF HasAnchor(x.page, x.line) THEN DrawLine(x, s) ELSE shown
    BY <1>2 DEF Faded
  <2>2. CASE HasAnchor(x.page, x.line)
    <3>1. x \in Lines
      <4>1. Head(fading) \in [line : Lines, by : Click]
        BY <1>0, <1>2, ListFacts DEF EventsInv, Faded
      <4>. QED BY <2>1, <4>1
    <3>2. x.page \in Page /\ x \in TokensOf(x.page, x.line)
      BY <3>1 DEF Lines, TokensOf
    <3>3. Document(shown) /\ shown.page = x.page /\ x.line \in LineIds(x.page)
      BY <1>0, <2>2, <3>2, AnchorView
    <3>4. Document(s) /\ s.page = x.page
      BY <2>1, <3>3, WipeType
    <3>. QED BY <2>1, <2>2, <3>2, <3>3, <3>4, DrawLineType
  <2>. QED BY <2>1, <2>2
<1>. QED BY <1>1, <1>2 DEF BrowserStep

LEMMA BrowserShown ==
  ASSUME ViewInv, ShownInv, BrowserStep
  PROVE  ShownInv'
<1>1. UNCHANGED <<pending, answered, stored, main, layout, models, races>>
  BY DEF BrowserStep, Faded, ImagesLoaded, sessionVars
<1>2. shown'.page = shown.page
  BY BrowserPage
<1>3. ASSUME Clean' PROVE Shows
  <2>1. AnswersHold /\ ArrayHolds /\ ("hasty" \notin races => DrawnHolds)
    BY <1>1, <1>3, ShownFrame DEF ShownInv
  <2>2. AnswersHold' /\ ArrayHolds'
    BY <1>1, <1>2, <2>1, FrameHolds, SendCurrent
  <2>3. "hasty" \notin races' => DrawnHolds'
    BY <1>1, <2>1, FadedDrawn, LoadedDrawn DEF BrowserStep
  <2>. QED BY <2>2, <2>3 DEF Shows
<1>. QED BY <1>1, <1>3, ShownFrame

LEMMA StepShown ==
  ASSUME SessionInv, ViewInv, ShownInv, [Next]_vars
  PROVE  ShownInv'
<1>1. CASE UNCHANGED vars
  <2>1. UNCHANGED <<pending, answered, stored, viewVars, races>>
    BY <1>1 DEF vars, sessionVars
  <2>. QED BY <2>1, StutterShown
<1>. QED BY <1>1, UserShown, ServerShown, ReceiveShown, BrowserShown DEF Next

(* When nothing is under way, the array of the page and what is drawn at    *)
(* its lines are what the database has, but for the races named there.      *)
THEOREM ShownWhenQuiet == Spec => []ShownIsStored
<1>1. ViewInv /\ ShownInv => ShownIsStored
  <2>. SUFFICES ASSUME ViewInv, ShownInv, Quiet, main = "page", NoGaps(shown.page), Clean
                PROVE  /\ models[layout] = LinesOf(shown.page)
                       /\ "hasty" \notin races =>
                            \A l \in LineIds(shown.page) :
                              shown.tokens[l] = <<Line(shown.page, l, stored[shown.page][l])>>
    BY DEF ShownIsStored, Clean
  <2>1. PICK p, lines : p = shown.page /\ lines = models[layout]
    OBVIOUS
  <2>2. p \in Page /\ StoredInv /\ lines \in Seq(Lines \cup {Hole})
    BY <2>1 DEF ViewInv, MainInv, Document, Arrays
  <2>3. Shaped(lines, p) /\ \A l \in LineIds(p) : Current(p, l, lines[l].text, 0)
    BY <2>1 DEF ShownInv, ArrayHolds, CurrentLines
  <2>4. ASSUME NEW l, NEW t, Current(p, l, t, 0) PROVE t = stored[p][l]
    <3>1. ~Told(p, l, 0)
      BY DEF Quiet, Told, TellsLine, SessionOps
    <3>2. ~Due(p, l)
      BY DEF Quiet, Due, SessionOps
    <3>. QED BY <2>4, <3>1, <3>2 DEF Current
  <2>5. ASSUME NEW l \in LineIds(p) PROVE lines[l] = Line(p, l, stored[p][l])
    <3>1. PICK x : x = lines[l]
      OBVIOUS
    <3>2. x \in Lines /\ x.page = p /\ x.line = l /\ x.text = stored[p][l]
      BY <2>3, <2>4, <3>1 DEF Shaped, TokensOf
    <3>3. x = [page |-> x.page, line |-> x.line, text |-> x.text]
      BY <3>2 DEF Lines
    <3>. QED BY <3>1, <3>2, <3>3 DEF Line
  <2>6. lines = LinesOf(p)
    <3>1. lines = [l \in LineIds(p) |-> lines[l]]
      <4>1. lines = [l \in DOMAIN lines |-> lines[l]]
        BY <2>2, LenProperties
      <4>. QED BY <2>3, <4>1 DEF Shaped
    <3>2. LinesOf(p) = [l \in LineIds(p) |-> Line(p, l, stored[p][l])]
      BY <2>1, <2>2, LinesAre
    <3>. QED BY <2>5, <3>1, <3>2
  <2>7. "hasty" \notin races => \A l \in LineIds(p) : shown.tokens[l] = <<lines[l]>>
    <3>1. loading = {} /\ fading = <<>> /\ DOMAIN <<>> = {}
      BY DEF Quiet
    <3>. QED BY <2>1, <3>1 DEF ShownInv, DrawnHolds, Drawn, DrawnOf
  <2>. QED BY <2>1, <2>5, <2>6, <2>7
<1>. QED BY <1>1, InitShown, StepShown, TokensSound, Viewed, PTL DEF Spec

=============================================================================
