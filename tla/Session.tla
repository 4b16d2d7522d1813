------------------------------ MODULE Session -------------------------------
(***************************************************************************)
(* The sessions of one user: the rows of the table sessions, the token the *)
(* browser keeps in its local storage, and the requests and answers that   *)
(* are under way between them.  A request carries the token the browser    *)
(* has when it is sent; the gateway (src/services/pcwauth) lets it pass if *)
(* the table has the token when it arrives.  Answers may overtake each     *)
(* other.                                                                  *)
(***************************************************************************)
EXTENDS Integers, Sequences, FiniteSets

CONSTANTS
  MaxTokens,  \* bound of the model: tokens ever issued
  MaxPending  \* bound of the model: requests and answers under way

ASSUME SessionAssumption ==
  /\ MaxTokens \in Nat \ {0}
  /\ MaxPending \in Nat

VARIABLES
  auth,      \* the browser's token (app.js, pcw.auth)
  sessions,  \* the tokens the table sessions has for the user
  issued,    \* the tokens issued so far are 1..issued
  elsewhere, \* a login of the same user on another device: its next statement
  pending,   \* requests that no service has seen yet
  answered   \* their answers, in the order the server gave them

sessionVars == <<auth, sessions, issued, elsewhere, pending, answered>>

NoToken == 0
Token   == 1..MaxTokens

\* A request that the gateway lets pass: service.WithAuth finds its token.
Accepts(r) == r.auth \in sessions

\* What an answer holds besides the request: the status, and the data read.
Answer(r, status, data) == [req |-> r, status |-> status, data |-> data]

Room == Cardinality(pending) + Len(answered) < MaxPending

\* The browser sends r.
Ask(r) == /\ Room
          /\ pending' = pending \cup {r}

\* The server takes request r and gives answer a.
Reply(r, a) == /\ pending' = pending \ {r}
               /\ answered' = Append(answered, a)

Without(s, i) == SubSeq(s, 1, i - 1) \o SubSeq(s, i + 1, Len(s))

\* The answer at place i arrives, and nothing more is asked.
Take(i) == /\ answered' = Without(answered, i)
           /\ UNCHANGED pending

\* App.logout: the browser forgets its user and its token.
ForgetToken == auth' = NoToken

-----------------------------------------------------------------------------
(* Requests about the session itself.  They carry no page and no line.      *)

SessionRequest(n, op, token) == [n |-> n, op |-> op, auth |-> token]

Login(n)      == SessionRequest(n, "login", NoToken)
LoginCheck(n) == SessionRequest(n, "loginCheck", auth)
Logout(n)     == SessionRequest(n, "logout", auth)

SessionOps == {"login", "inserting", "loginCheck", "logout"}

\* postLogin with a wrong password: a 401, which the front end takes for the
\* end of the session, and nothing is done.
RefuseLogin(r) ==
  /\ r.op = "login"
  /\ Reply(r, Answer(r, "refused", NoToken))
  /\ UNCHANGED <<auth, sessions, issued, elsewhere>>

\* The request as the browser sent it.
AsSent(r) == IF r.op = "inserting" THEN [r EXCEPT !.op = "login"] ELSE r

\* postLogin, the first statement: DeleteSessionByUserID.
ServeLoginDelete(r) ==
  /\ r.op = "login"
  /\ sessions' = {}
  /\ pending' = (pending \ {r}) \cup {[r EXCEPT !.op = "inserting"]}
  /\ UNCHANGED <<auth, issued, elsewhere, answered>>

\* postLogin, the second statement: InsertSession.  The answer has the token.
ServeLoginInsert(r) ==
  /\ r.op = "inserting"
  /\ issued < MaxTokens
  /\ issued' = issued + 1
  /\ sessions' = sessions \cup {issued'}
  /\ Reply(r, Answer([r EXCEPT !.op = "login"], "ok", issued'))
  /\ UNCHANGED <<auth, elsewhere>>

\* getLogin, behind the gateway's check.
ServeLoginCheck(r) ==
  /\ r.op = "loginCheck"
  /\ Reply(r, Answer(r, IF Accepts(r) THEN "ok" ELSE "refused", NoToken))
  /\ UNCHANGED <<auth, sessions, issued, elsewhere>>

\* getLogout: whoever shows an accepted token ends all the user's sessions.
ServeLogout(r) ==
  /\ r.op = "logout"
  /\ sessions' = IF Accepts(r) THEN {} ELSE sessions
  /\ Reply(r, Answer(r, IF Accepts(r) THEN "ok" ELSE "refused", NoToken))
  /\ UNCHANGED <<auth, issued, elsewhere>>

\* The same two statements of postLogin for another device of the user.
LoginElsewhereDelete ==
  /\ elsewhere = "out"
  /\ elsewhere' = "inserting"
  /\ sessions' = {}
  /\ UNCHANGED <<auth, issued, pending, answered>>

LoginElsewhereInsert ==
  /\ elsewhere = "inserting"
  /\ issued < MaxTokens
  /\ elsewhere' = "in"
  /\ issued' = issued + 1
  /\ sessions' = sessions \cup {issued'}
  /\ UNCHANGED <<auth, pending, answered>>

=============================================================================
