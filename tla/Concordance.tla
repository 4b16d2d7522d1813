---------------------------- MODULE Concordance -----------------------------
(***************************************************************************)
(* The concordance: the dialog that lists the uncorrected tokens a search  *)
(* finds, page by page, and corrects those the user has marked             *)
(* (concordance/show/show_view.js, and the callbacks of                    *)
(* page:concordance_clicked in page/show/show_controller.js), with the     *)
(* search of the server (SearchRoute.cpp).  Every marked token is sent in  *)
(* a request of its own; when as many have been answered as were marked,   *)
(* the list is fetched anew.                                               *)
(*                                                                         *)
(* The images of the lines are taken as loaded when their tokens are drawn *)
(* into them.  What a correction does to the page below the dialog is in   *)
(* PageView.                                                               *)
(***************************************************************************)
EXTENDS Integers, Sequences, FiniteSets

CONSTANTS
  Match,       \* the tokens of the book the search finds, in their order
  LineOf(_),   \* the line of a token
  Hits,        \* App.getPageHits: the tokens on a page of the list
  Text,        \* what the user writes
  Own,         \* a token's own text, which it has in the beginning
  MaxPending,  \* bound of the model: requests and answers under way
  MaxClicks,   \* bound of the model: clicks that send requests
  MaxFailures, \* bound of the model: requests that fail
  MaxEdits     \* bound of the model: marks set and texts written

ASSUME ConcordanceAssumption ==
  /\ Match \subseteq Nat \ {0} /\ IsFiniteSet(Match) /\ Match # {}
  /\ Hits \in Nat \ {0}
  /\ Own \notin Text
  /\ {MaxPending, MaxClicks, MaxFailures, MaxEdits} \subseteq Nat

VARIABLES
  corrected, \* the text a token has been corrected to in the database, or None
  list,      \* the search result in the dialog, the view's option tokendata
  text,      \* what the drawn tokens show
  marked,    \* those of them that have the check mark
  items,     \* the list items below: page numbers and what else is there
  active,    \* the places of the active ones
  closed,    \* the dialog is hidden
  left,      \* of each click that corrects: checked_length
  pending,   \* requests the server has not seen
  answered,  \* its answers, in the order it gave them
  clicks, failures, edits, \* counters for the bounds
  meant,     \* history: the tokens that were marked when they were sent
  races      \* history: what came in the way of the list, see Races

viewVars   == <<list, text, marked, items, active, closed>>
serverVars == <<corrected, failures>>
bounds     == <<clicks, edits>>
vars == <<viewVars, serverVars, bounds, left, pending, answered, meant, races>>

None  == "uncorrected"
Click == 1..MaxClicks
Texts == Text \cup {Own}
Races == {"failed", "early", "overtaken", "reset", "resized"}

-----------------------------------------------------------------------------
(* The search: the uncorrected matches, in their order, `Hits' of them      *)
(* after the first `skip'.  The number of all of them is `total'.           *)

Uncorrected == {t \in Match : corrected[t] = None}

Search(skip) ==
  LET place(t) == Cardinality({u \in Uncorrected : u <= t})
  IN  [total  |-> Cardinality(Uncorrected),
       skip   |-> skip,
       tokens |-> {t \in Uncorrected : skip < place(t) /\ place(t) <=
                                         (IF skip > 0 THEN skip ELSE 0) + Hits}]

\* Math.ceil(tokendata.total / tokendata.max)
PagesFor(total) == (total + Hits - 1) \div Hits
MaxPages        == PagesFor(list.total)
SkipFor(page)   == (page - 1) * Hits

-----------------------------------------------------------------------------
(* The list items of the pagination.  Their values are page numbers, or     *)
(* these; the value of an item that is not there is not a number.           *)

Previous == -2
NextItem == -3
Dots     == -1
NaN      == -9

Pages(a, b) == [k \in 1..(IF b < a THEN 0 ELSE b - a + 1) |-> a + k - 1]

\* concordance.tpl
FirstItems(max) ==
  IF max > 5
  THEN <<Previous>> \o Pages(1, 5) \o <<Dots, max, NextItem>>
  ELSE <<Previous, 1>> \o Pages(2, max) \o <<NextItem>>

\* The three layouts of paginate_clicked, for the page that is asked for.
AtTheEnd(value, max) == value > 5 /\ value + 3 >= max

EndItems(value, max) ==
  <<Previous, Dots>> \o Pages(value - 3, value - 1) \o Pages(value, max - 1)
    \o <<max, NextItem>>

InTheMiddle(value, max) == value >= 5 /\ value < max - 1

MiddleItems(value, max) ==
  <<Previous, 1, Dots>> \o Pages(value - 2, value + 1) \o <<Dots, max, NextItem>>

\* Mutant: the middle begins one page later.
LateItems(value, max) ==
  IF AtTheEnd(value, max) THEN EndItems(value, max)
  ELSE IF InTheMiddle(value, max) /\ value # 5 THEN MiddleItems(value, max)
  ELSE IF value # NaN /\ value <= 5 /\ max > 5 THEN FirstItems(max)
  ELSE items

ItemsFor(value, max) ==
  IF AtTheEnd(value, max) THEN EndItems(value, max)
  ELSE IF InTheMiddle(value, max) THEN MiddleItems(value, max)
  ELSE IF value # NaN /\ value <= 5 /\ max > 5 THEN FirstItems(max)
  ELSE items

PlacesOf(value, its) == {i \in DOMAIN its : its[i] = value}

\* $('.active').next(), .prev(): the value of the first, if there is one.
Beside(step) == {i + step : i \in active} \cap DOMAIN items
FirstValue(places) ==
  IF places = {} THEN NaN
  ELSE items[CHOOSE i \in places : \A j \in places : i <= j]

\* The page that a click on the item at place i asks for.
Wanted(i) == CASE items[i] = NextItem -> FirstValue(Beside(1))
               [] items[i] = Previous -> FirstValue(Beside(-1))
               [] OTHER               -> items[i]

\* "...", and Next or Previous when nothing but themselves is beside.
NoPage(i) == \/ items[i] = Dots
             \/ items[i] = NextItem /\ Beside(1) = {Len(items)}
             \/ items[i] = Previous /\ Beside(-1) = {1}

-----------------------------------------------------------------------------
(* Requests and answers.                                                    *)

Request(op, n, token, t, page) ==
  [op |-> op, n |-> n, token |-> token, text |-> t, page |-> page]

PageSearch(n, page) == Request("page", n, 0, Own, page)
Refresh(n)          == Request("refresh", n, 0, Own, 1)
Correction(n, t)    == Request("correct", n, t, text[t], 0)

Searches    == {"page", "refresh"}
Answer(r, status, result) == [req |-> r, status |-> status, result |-> result]
NoResult    == [total |-> 0, skip |-> 0, tokens |-> {}]

UnderWay(ops) == {r \in pending : r.op \in ops}
  \cup {answered[i].req : i \in {j \in DOMAIN answered : answered[j].req.op \in ops}}

-----------------------------------------------------------------------------
(* The user.                                                                *)

\* Mutant: the marks of the old list are kept.
ShowMarks(result) == /\ list' = result
                     /\ text' = [t \in result.tokens |-> Own]
                     /\ marked' = marked

Show(result) == /\ list' = result
                /\ text' = [t \in result.tokens |-> Own]
                \* setContent draws without marks, then toggles all of them
                /\ marked' = result.tokens

ShowItems(its, value) == items' = its /\ active' = PlacesOf(value, its)

Clicks(requests) == /\ ~closed
                    /\ clicks < MaxClicks
                    /\ clicks' = clicks + 1
                    /\ Cardinality(pending \cup requests) + Len(answered) <= MaxPending
                    /\ pending' = pending \cup requests
                    /\ UNCHANGED <<serverVars, edits, answered>>

\* paginate_clicked, and concordance:pagination with its search.
Paginate(i) ==
  LET page == Wanted(i) IN
  /\ ~NoPage(i)
  /\ Clicks({PageSearch(clicks + 1, page)})
  /\ ShowItems(ItemsFor(page, MaxPages), page)
  /\ UNCHANGED <<list, text, marked, closed, left, meant, races>>

SharesLine(t, S) == \E u \in S : LineOf(u) = LineOf(t)

\* Mutant: whatever is on the page is sent.
SentWithAll == list.tokens

\* All tokens of a line are sent if one of them has the check mark.
Sent == {t \in list.tokens : SharesLine(t, marked)}

\* correct_clicked.  The number of check marks is counted, not the tokens.
CorrectSelected ==
  /\ Sent # {}
  /\ Clicks({Correction(clicks + 1, t) : t \in Sent})
  /\ left' = [left EXCEPT ![clicks'] = Cardinality(marked)]
  /\ meant' = meant \cup marked
  /\ UNCHANGED <<viewVars, races>>

\* cor_correct: the button of one token.
CorrectOne(t) ==
  /\ Clicks({Correction(clicks + 1, t)})
  /\ left' = [left EXCEPT ![clicks'] = 1]
  /\ meant' = meant \cup {t}
  /\ UNCHANGED <<viewVars, races>>

Edit(t, m) == /\ ~closed
              /\ edits < MaxEdits
              /\ edits' = edits + 1
              /\ text' = t
              /\ marked' = m
              /\ UNCHANGED <<list, items, active, closed, serverVars, clicks,
                             left, pending, answered, meant, races>>

\* toggle_selection
ToggleSelection == Edit(text, list.tokens \ marked)

\* cor_checked
CorChecked(t) == Edit(text, IF t \in marked THEN marked \ {t} ELSE marked \cup {t})

\* cor_input and set_correction: the text of all that are marked.
SetCorrection(x) ==
  Edit([t \in list.tokens |-> IF t \in marked THEN x ELSE text[t]], marked)

\* The user writes into one token, or takes a suggestion for it.
Write(t, x) == Edit([text EXCEPT ![t] = x], marked)

\* The user closes the dialog, or jumps to a page.
Close == /\ ~closed
         /\ closed' = TRUE
         /\ UNCHANGED <<list, text, marked, items, active, serverVars, bounds,
                        left, pending, answered, meant, races>>

-----------------------------------------------------------------------------
(* The server.                                                              *)

Reply(r, status, result) ==
  /\ pending' = pending \ {r}
  /\ answered' = Append(answered, Answer(r, status, result))
  /\ UNCHANGED <<viewVars, bounds, left, meant>>

ServeCorrection(r) ==
  /\ r.op = "correct"
  /\ corrected' = [corrected EXCEPT ![r.token] = r.text]
  /\ Reply(r, "ok", NoResult)
  /\ UNCHANGED <<failures, races>>

\* The skip of no page, which is not a number, is refused.
ServeSearch(r) ==
  /\ r.op \in Searches
  /\ r.page # NaN
  /\ Reply(r, "ok", Search(SkipFor(r.page)))
  /\ races' = races \cup
       (IF r.op = "refresh" /\ \E c \in pending : c.op = "correct" /\ c.n = r.n
        THEN {"early"} ELSE {})
  /\ UNCHANGED serverVars

\* An error, or an answer that is lost: the correction may have been stored.
Fail(r) ==
  /\ r.page = NaN \/ failures < MaxFailures
  /\ failures' = IF r.page = NaN THEN failures ELSE failures + 1
  /\ \/ UNCHANGED corrected
     \/ r.op = "correct" /\ corrected' = [corrected EXCEPT ![r.token] = r.text]
  /\ Reply(r, "failed", NoResult)
  /\ races' = races \cup {"failed"}

-----------------------------------------------------------------------------
(* The callbacks.  The answer at place i arrives.                           *)

Without(s, i) == SubSeq(s, 1, i - 1) \o SubSeq(s, i + 1, Len(s))

Take(i, ops) == /\ answered[i].req.op \in ops
                /\ answered' = Without(answered, i)
                /\ UNCHANGED <<serverVars, bounds, meant>>

Good(i) == answered[i].status = "ok"

\* Mutant: a batch of one is counted down, and nothing is fetched.
DoneTwice(n) == /\ left' = [left EXCEPT ![n] = @ - 1]
                /\ pending' = IF left[n] = 2 THEN pending \cup {Refresh(n)} ELSE pending

\* done(): the last of the counted corrections fetches the list anew.
Done(n) == /\ left' = [left EXCEPT ![n] = @ - 1]
           /\ pending' = IF left'[n] = 0 THEN pending \cup {Refresh(n)} ELSE pending

TokenCorrected(i) ==
  /\ Good(i)
  /\ Take(i, {"correct"})
  /\ Done(answered[i].req.n)
  /\ UNCHANGED <<viewVars, races>>

\* A page arrives before one that was asked for earlier, or a list before
\* one that was read earlier.
Overtaking(i) ==
  LET r == answered[i].req
      late == IF r.op = "page" THEN \E q \in UnderWay({"page"}) : q.n < r.n
                               ELSE \E j \in 1..i-1 : answered[j].req.op = "refresh"
  IN  IF late THEN {"overtaken"} ELSE {}

\* concordance:pagination: the list items stay as the click has left them.
PageFound(i) ==
  LET result == answered[i].result IN
  /\ Good(i)
  /\ Take(i, {"page"})
  /\ Show(result)
  /\ races' = races \cup Overtaking(i)
       \cup (IF PagesFor(result.total) # MaxPages THEN {"resized"} ELSE {})
  /\ UNCHANGED <<items, active, closed, left, pending>>

\* concordance:update_after_correction: without matches the dialog is hidden,
\* else it is rendered anew, list items and all.
Refreshed(i) ==
  LET result == answered[i].result IN
  /\ Good(i)
  /\ Take(i, {"refresh"})
  /\ IF result.total = 0
     THEN closed' = TRUE /\ UNCHANGED <<list, text, marked, items, active>>
     ELSE /\ Show(result)
          /\ ShowItems(FirstItems(PagesFor(result.total)), 1)
          /\ UNCHANGED closed
  /\ races' = races \cup Overtaking(i)
       \cup (IF UnderWay({"page"}) # {} THEN {"reset"} ELSE {})
  /\ UNCHANGED <<left, pending>>

\* A failed correction is a message; a failed search is not handled at all.
Failed(i) ==
  /\ ~Good(i)
  /\ Take(i, {"correct"} \cup Searches)
  /\ UNCHANGED <<viewVars, left, pending, races>>

-----------------------------------------------------------------------------
\* page:concordance_clicked has found the first page.
Init ==
  /\ corrected = [t \in Match |-> None]
  /\ list = Search(0)
  /\ text = [t \in list.tokens |-> Own]
  /\ marked = list.tokens
  /\ items = FirstItems(MaxPages)
  /\ active = PlacesOf(1, items)
  /\ closed = FALSE
  /\ left = [n \in Click |-> 0]
  /\ pending = {} /\ answered = <<>>
  /\ clicks = 0 /\ failures = 0 /\ edits = 0
  /\ meant = {} /\ races = {}

UserStep ==
  \/ \E i \in DOMAIN items : Paginate(i)
  \/ CorrectSelected
  \/ \E t \in list.tokens : CorrectOne(t) \/ CorChecked(t)
  \/ \E t \in list.tokens, x \in Text : Write(t, x)
  \/ \E x \in Texts : SetCorrection(x)
  \/ ToggleSelection
  \/ Close

Serve   == \E r \in pending : ServeCorrection(r) \/ ServeSearch(r)
Mishap  == \E r \in pending : Fail(r)
Receive == \E i \in DOMAIN answered :
             TokenCorrected(i) \/ PageFound(i) \/ Refreshed(i) \/ Failed(i)

Next == UserStep \/ Serve \/ Mishap \/ Receive

Spec == Init /\ [][Next]_vars

-----------------------------------------------------------------------------
Result == [total : 0..Cardinality(Match), skip : Int, tokens : SUBSET Match]

\* Type invariant.
TypeOK ==
  /\ corrected \in [Match -> Texts \cup {None}]
  /\ list \in Result
  /\ text \in [list.tokens -> Texts]
  /\ marked \subseteq list.tokens
  /\ active \subseteq DOMAIN items
  /\ closed \in BOOLEAN
  /\ left \in [Click -> Int]
  /\ \A r \in pending : r.op \in {"correct"} \cup Searches /\ r.n \in Click
  /\ meant \subseteq Match /\ races \subseteq Races

Quiet == pending = {} /\ answered = <<>> /\ ~closed

(* When nothing is under way, the dialog shows what the search finds now on *)
(* the page that is active below it: no corrected token is left in it, none *)
(* is missed, and the number of all of them is right.  The exceptions: a    *)
(* request has failed (nothing fetches the list anew then); the list was    *)
(* fetched before the last correction of its batch, because a line had more *)
(* tokens than marks; a search has overtaken another; the list was rendered *)
(* while a page was being fetched.                                          *)
ListIsCurrent ==
  Quiet /\ races \cap {"failed", "early", "overtaken", "reset"} = {} =>
    list = Search(SkipFor(FirstValue(active)))

(* Only tokens that were marked, or that share a line with a marked one, are*)
(* ever corrected (show_view.js:77-84 sends the whole line's).              *)
CorrectedSharesLine ==
  \A t \in Match : corrected[t] # None => SharesLine(t, meant)

(* The pages that are asked for exist.  With exactly six pages the layout   *)
(* for page 5 has "..." after it, and Next asks for that; and items stay as *)
(* they are when a page of a longer or shorter list comes below them.       *)
PagesExist ==
  [][\A r \in pending' \ pending :
       r.op = "page" /\ "resized" \notin races =>
         r.page \in 1..MaxPages \/ (r.page = Dots /\ MaxPages = 6)]_vars

=============================================================================
