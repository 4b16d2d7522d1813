# A TLA+ model of PoCoWeb

PoCoWeb is a server for the correction of OCR results.  This directory holds
TLA+ modules that model its core, TLC configurations that check them on small
instances, and proofs checked by TLAPS.  Paths such as `api/LineRoute.cpp` are
below `src/rest/src/` unless they say otherwise; `page/show/...`,
`concordance/show/...` and `a_pocoto/...` are below
`src/frontend/public_html/assets/js/apps/projects/`, `util.js` is
`src/frontend/public_html/assets/js/common/util.js`.

## 1. The system

A *book* (also *project*) is a set of pages of lines; the text of a line is a
sequence of characters, each with its OCR result and possibly a correction.  A
*package* is a project that shares the pages of a book: the table `projects`
has a row for both, with `origin` naming the book.  Everything is kept in one
MySQL database and in a directory tree per book.

| component | state it keeps | operations | interaction | hard parts |
|---|---|---|---|---|
| Line routes, `api/LineRoute` | `ID_SET`, the keys of locked lines; the tables `textlines`, `contents` | GET, PUT, POST, DELETE of lines; GET, PUT, POST of tokens | threads of one process, one database | lost updates, locks and connections on every path, the flag "manually corrected" |
| Characters, `database/DbStructs` | a list of `DbChar` with id, cut and flag | load, slice, correct, reset, update OCR, tokens | called by line, page, search and download routes | ids and cuts after long sequences of edits |
| Alignment, `core/WagnerFischer` | the table and the trace of one alignment | align, correct | called by line routes and by the archiver's file parsers | ties, empty strings |
| Connection pool, `database/ConnectionPool`, `mysql.hpp` | connections with an atomic flag, a mutex | get, release, transactions | every route | exhaustion, nested acquisition, release without the mutex, failures |
| Page routes, `api/PageRoute` | `project_pages` with previous and next page | get, first, last, next, prev, delete | call each other with a connection in hand | the page chain after deletions |
| Book routes, `api/BookRoute` | `projects`, `books`, the book's directory | list, upload, update, delete | flags written by the services | stale rewrite of flags; file system and database disagree |
| Packages, `src/services/pcwpkg` | `projects`, `project_pages` | split, assign, take back | `projects` shared with users, book routes, gateway | overlapping packages, races with deletion |
| Users, `src/services/pcwusers` | `users` | create, update, delete | reassigns packages | check and deletion in different transactions |
| Gateway, `src/services/pcwauth` | `sessions` | login, logout, ownership checks, proxy | in front of all others | checks that are stale when the request is served; login in two statements |
| Profiler, `src/services/pcwprofiler` | profile file, `suggestions`, `typcounts`, flag `profiled` | run, get profile, patterns, suspects | a background job | file and tables disagree after failures; restarts |
| Post-correction, `src/services/pcwpostcorrection` | protocols, lexicon file, model, `autocorrections`, flags | lexicon extension, automatic post-correction | background jobs; corrects through the line routes or the database | prerequisites checked before the job; all jobs deleted at start |
| Pool, `src/services/pcwpool` | none | download the ground truth of many books | reads `contents` | grouping of rows into lines |
| Search, character map, statistics | none | paged search of tokens, patterns, corrections | read `contents`, `suggestions` | limits, stale token ids |
| Download, `core/Archiver` | a temporary directory, the process's working directory | write corrections into the OCR files, zip | file system | working directory shared by threads |
| Project creation, `core/Book*`, `parser/*` | the uploaded files | unzip, parse, order pages, write line images | file system, then one transaction | page order, cuts |
| Cache, `core/Cache` | a bounded list | put, get, delete | handed to all routes, used by none | duplicates |
| Front end: page view, `page/show` | an array of lines for each layout, the tokens in the document, animations, the backdrop | open and turn pages, correct lines and tokens | the page and line routes; the concordance is a dialog above it | answers in any order find a page that has changed meanwhile |
| Front end: concordance, `concordance/show` | the list, its marks and texts, the items of the pagination | paging, single and batch corrections, the refresh after them | the search and line routes | counting answers, the borders of the layouts, lists that shrink |
| Front end: job views, `a_pocoto` | a layout with an interval | start a job, wait for it, load again | the job services | leaked intervals, jobs whose row has gone |
| Front end: session, `app.js`, `util.js`, `entities/users.js` | the token in the local storage | login, check, logout, the error handler | the gateway | late answers to requests of an older session |
| Front end: forms | - | one request each | clients of the above | the environment: any request at any time |
| Deployment | - | start and restart of the services | restarts what has crashed | jobs that died with their service |

### What makes each of them correct

* Line routes: requests for one line take effect one at a time; no correction
  is lost; a manual correction is overwritten by nothing but a manual request;
  locks, connections and transactions are given up on every path; answers are
  true; a deleted line is gone.
* Characters: a correction reads back as it was given; a reset returns the OCR
  result; cuts that are in order stay in order; an automatic correction leaves manual ones
  alone; a token's id leads to this token; a repeated request does no harm.
* Alignment: the script is one of minimal cost and turns the OCR into the text.
* Pool: a connection has one holder; none is lost; 503 means exhausted; no
  transaction outlives its request.
* Packages and users: packages of a book do not overlap (`doc.md`, line 236);
  every package and book has an owner that exists; pages form a chain.
* Jobs: one job for each book (`doc.md`, line 456); a flag says what files and
  tables hold; a job that died blocks nothing.
* Front end: when nothing is under way, the page shows what the database has,
  and the concordance what the search finds; a line never shows another line's
  text; only what the user has marked is corrected; "please wait" goes away; a
  valid session is forgotten only where the code gives it up.
* Gateway: what a user may do is decided by what the database says when the
  request takes effect; a user has at most one session.

## 2. The modules

| module | models | |
|---|---|---|
| `CorrectedLine` | a line as slots with flags, requests, what one request does | shared by the next two |
| `CorrectionRegister` | what the line routes promise: a register for each line | abstract specification |
| `LineCorrection` | the handlers of `api/LineRoute.cpp` on worker threads, with lock, copy, transactions, failures, connections | implements `CorrectionRegister` |
| `MCLineCorrection` | instances: one project; a book and its package | |
| `LineCorrectionProofs` | theorems about `LineCorrection` | |
| `WagnerFischer` | table, backtracking, and a reference definition of the edit distance | pure |
| `DbLine` | the characters of one line under any sequence of requests | uses `WagnerFischer` |
| `MCDbLine` | an instance: OCR results with cuts in order, and as a client may send them | |
| `DbLineProofs` | theorems about `DbLine` and `WagnerFischer` | |
| `ConnectionPool` | the pool, its users, their transactions | |
| `MCConnectionPool` | an instance: three workers | |
| `ConnectionPoolProofs` | theorems about `ConnectionPool` | |
| `PageOrder` | pages and lines in the order of their ids, the shares of a split, the links of pages | pure, extended by `Packages` and `PageView` |
| `PageOrderProofs` | theorems about the operators of `PageOrder` | |
| `Packages` | the tables `users`, `projects`, `project_pages`, `pages` under the requests of `pcwpkg`, the deletion of accounts (`pcwusers`), upload and deletion of books and pages, behind the gateway's check | |
| `MCPackages` | an instance: two requests at a time | |
| `PackagesProofs` | theorems about `Packages` | |
| `Session` | the sessions of one account: the token in the browser, login in its two statements, here and elsewhere, login check, logout, the gateway's check | extended by the next |
| `PageView` | the page view in one tab, its requests, the server's answers, the callbacks | |
| `MCPageView` | an instance: a page of two lines, and one of which only the third line is left | |
| `PageViewProofs` | theorems about `Session` and `PageView` | |
| `Concordance` | the dialog, the search of the server, the corrections it sends | |
| `MCConcordance` | an instance: two of the matches share a line | |
| `ConcordanceProofs` | theorems about `Concordance` | |
| `Jobs` | the row of a book in `jobs`, the tasks of the profiler and the post-correction, their data and flags, crashes, restarts, the requests that change the same flags and files | extended by the next |
| `JobViews` | the views that start jobs and wait for them, above the services of `Jobs` | |
| `JobsProofs` | theorems about `Jobs` and `JobViews` | |

**How the state corresponds to the code.** In `LineCorrection` a worker's `pc`
is its place in the handler: *connected* (after `must_get_connection`),
*locked* (after the constructor of `line_lock_guard`), *loaded*, *edited*,
*unwind* (leaving the body with the guard still alive), *closing* (the guard is
gone, the connection is not).  `local` is the `DbLine` of the handler, `idSet`
the set `ID_SET`.  Each access to the database that is one statement or one
transaction is one step, and so is each critical section of `LOCK`.  What
happens between them is local to a thread.  `Throw` is an exception at any
access to the database or the image file; what C++ does then (destructors in
reverse order, the answer of `CrtpRoute`) is the same as on the normal path.

`LineCorrection` knows of a line only what locks and flags are about: which
slots are corrected, and which of them manually.  `DbLine` has the same
requests in full: each is one step (this is what `ImplementsRegister` is for),
and the line is the list of `DbChar`.  The refusal (`Conflicting`, `Conflict`)
and the effect on flags and text (`Set`, `Corrected`) are in both.  The loops
over lists (`each_cor`, `correct_impl`, the table, the backtracking) are
recursive functions (`Those`, `Run`, `Table`, `Back`), each with an operator for
one round of the loop (`CorrectedAt`, `Entry`, `Traced`): the proofs go round
by round.  A new OCR result comes with the cuts of the client (`Cuts`), of which
the route checks the number only (`LineRoute.cpp:188`); `given` is a history
variable, the line as its last OCR result was stored, with these cuts or those of
the import (`Evenly`).

In `ConnectionPool` the search of `std::find_if` is a loop of steps `Skip`,
since the flags it reads are cleared by other threads without the mutex.
`busy` is a history variable: the connections in use when the search began.

In `Packages` a worker is a request on its way through the services: `Accept`
is the gateway's check (`projectOwner`, `rootOrSelf`) and the service's own
(`onlyProjects`, `onlyPackages`), `pc` the next statement of the handler,
`found` what it has read (the pages of a split, the owner of an assignment, the
packages of an account that is being deleted).  Each statement outside of a
transaction and each transaction is a step.  `rows[p]` is the part of
`project_pages` that belongs to project `p`, `stored[b]` the pages of book `b`
in `pages`, `textlines` and `contents`.  The tables of the SQL script declare
references, but MySQL ignores them in a column definition, so that nothing but
the handlers keeps the tables consistent.  `Fail` ends a request at any
statement whose error the code looks at.  Where it does not, the handler goes on
with what it has: `rows.Next()` is false at the end of a list and on an error, and
`split.go` (147-154) and `pcwusers/routes.go` (176, 190-204) do not ask
`rows.Err()`.  So `LoadPages` and `ReadPackages` may read a part of the list, and
`OwnsBooks` may let the owner of a book pass.  `short` is a history variable, the
workers to whom this has happened; `gained` is another one, the projects an
account got since the handler that deletes it looked for its books.
Accounts are never created in the model: a new one is like one that has not
done anything yet.

The front end runs callbacks on one thread, so that each callback is one step:
what the user clicks, the answer of a request (`Receive`), the end of an
animation (`Faded`) and the images' arrival (`ImagesLoaded`).  `pending` are the
requests the server has not seen, in no order; `answered` its answers, of which
any may arrive next.  A request is named by the number of the click that caused
it, and carries what the closure of its callback holds: the token it was sent
with, the layout, the page and the line.  `Fail` stands for a request that has
not been done and is answered with an error other than 401 or not at all, a login
or its check included; `Refuse` and `RefuseLogin` are the 401 for a dead token
and for a wrong password (`pcwauth/main.go:231`); `ServeCorrection(r, TRUE)` and the second disjunct of `Fail` in
`Concordance` for one that has been done and whose answer is lost.

`PageView` has a page three times, as the program has: `stored` in the
database, `models` in the view's model (the array `lines`, with the holes that
an assignment behind its end leaves), `shown` in the document.  What is drawn
where is decided by the anchors of `Util.addLine`, not by places in the array.
A destroyed layout keeps its model, since closures refer to it.

In `Concordance` a token is its place in the book and `corrected` says what it
has been corrected to; the search is `SearchRoute`'s: what is not corrected, in
order, `Hits` of it after `skip`.  `items` are the list items of the pagination
by their values, with negative numbers for "Previous", "Next", "..." and what
is not a number.  The count of check marks (`left`) is kept apart from the
tokens that are sent (`Sent`), as in the code.

In `Jobs` a task's `pc` is *run* (what it needs is read), *writing* (the file
is truncated or the old rows are deleted), *storing* (before the flag is set),
*done* and *failed* (before the end of the job is written into its row).  `data` says who has
written a job's result since it was last emptied.  `plain`, `spoiled`, `wiped`
and `stale` are history variables: they record the events after which a flag or
a row may be wrong, and the invariants say that there are no others.  In
`JobViews` a layout is a number; `interval` is the handle its object knows,
`leaked` the intervals nobody can clear any more.

## 3. The runs

| run | instance | shows |
|---|---|---|
| `lines` | 2 workers, 2 connections, 1 project, 1 line of 2 slots, 1 text | the invariants, the action property, the refinement and the liveness property of the line routes hold |
| `lines_shared` | the same with a package (two ids for the line), POST only | `ManualSurvives` fails: finding 1 |
| `lines_deleted` | 1 project, POST and DELETE | `NoOrphans` fails: finding 2 |
| `dbline` | OCR of up to 3, corrections of up to 2, lines of up to 4 characters, cuts in order, behind the box or backwards, 2 requests, then every third | the character-level properties hold |
| `dbline_ids` | the same | `TokenIdsFindTokens` fails: finding 3 |
| `packages` | 2 requests at a time, an administrator and a user, books of 3 pages, 3 rows of `projects` | page chain, partition, ownership and deletion are right under every interleaving, but for lists that were cut off unnoticed |
| `packages_overlap` | the same, 1 request at a time, 5 rows | `PackagesDisjoint` fails: finding 4 |
| `packages_orphans` | the same, 1 request at a time | `NoOrphanPackages` fails: finding 5 |
| `pool` | 3 workers, 2 connections | one holder, truthful 503, no transaction left, mutex released |
| `page_view` | 2 pages, of the lines 1 and 2, and of the line 3 only; 3 clicks, 2 requests at a time, 2 tokens, 1 failure | the page shows what is stored but for the named races; no line shows another's text; a live session is forgotten, and the backdrop stays, in the named cases only |
| `concordance` | 13 matches, 2 on a page; 3 clicks, 2 requests at a time, 1 failure, 1 edit | the list is what the search finds but for the named races; only marked lines are corrected; pages asked for exist |
| `jobs` | views of profile and lexicon extension, 2 tasks, 3 layouts, 3 clicks, 1 mishap, 1 edit | one job for each book, flags tell what files hold, "please wait" ends |

**Bounds.** Two workers are enough for the line routes because the properties
are about one request and its interference with another one; two slots so that
a request can leave a slot alone; one text in the run of all methods because
the differences that matter are corrected or not and manual or not (the run
`lines_shared` has two).  For the pool three workers compete for two
connections: it can be full with a request to spare, and a request that asks for
a second connection can be the one that exhausts it.  For `DbLine`, one
letter and the space cover equal, unequal and separating characters; `MaxEdits`
requests lead to a line and every property then ranges over every further edit,
so sequences of three requests are covered, which is what it takes to have
insertions at a token's begin, end and inside, deletions next to them, and
renumbered slices.  The lists in `ClientCuts` have a cut behind the line's box,
two in order, and three of which the second runs back behind the first, so that
insertions go half way backwards, too.  `Ids` are all ids such a line can have, `Lens` are -1 (up
to the next space), 0, and 2, which may lead over the line's end.  `MaxOcr`, `MaxText`, `MaxLine`, `MaxEdits` are
bounds of the model only.

For `Packages`, three pages split among two users do not divide evenly, and a
reading of them can be cut off before, between and behind the packages' shares;
three rows of `projects` are a book and the two packages of a split, or two
books (`MaxBook`); while a split is under way, the book, its pages and its
owner's account can go.  Two splits of one book take five rows, those of
`packages_overlap`; with two requests at a time this is too much to search, but a
split relies on nothing that another one writes.  Requests delete the page in the middle, the one with two
neighbours.  The two users are enough to have a book's owner and a package's
owner, an administrator and another one.  `MaxId`, `MaxBook`, `MaxPages`,
`Sizes`, `Deleted` and `Shares` are bounds of the model only.

For `PageView`, two requests at a time are what it takes for one to overtake
another, and three clicks open a page, correct a line and leave it before the
answer, or search in the concordance and leave the page; only one line of each
page is edited (`Corrected`), the other one of the first page shows whether texts
go astray.  With two tokens there is an older session and a newer
one.  For `Concordance`, 13 matches on pages of two are seven pages, so that
the layouts of the first pages, the middle and the end all occur, corrections
bring the list to six, and it has the case that is wrong; the two matches in
one line are those on the first page.  For `JobViews`, the lexicon extension
needs the profile, so that its job and the profiler's depend on each other; the
post-correction is in the model, and in the proofs, but not in `Shown`, being
of the lexicon extension's form.  One mishap is enough to have a crash at every
place or a step that fails.  `MaxTokens`, `MaxPending`, `MaxClicks`,
`MaxFailures`, `MaxEdits`, `MaxJobs`, `MaxMishaps`, `MaxLayouts` and
`Edited` are bounds of the model only.

**Deadlock** is checked in `lines` and `pool`.  It is off in `DbLine`, which
ends when `MaxEdits` is reached or the line is empty, in `Packages`, where
every account may have been deleted and nobody is left to act, and in the runs
of the front end, whose user may stop.

**Fairness.** `WF_vars(Step(w))` for every worker: the operating system
schedules every thread, and the database answers or fails.  Nothing is assumed
of the order in which spinning threads get the lock or waiting threads the
mutex: `LockReleased` and `MutexReleased` are about those who hold them.  That
every POST is served in the end does not hold and is not claimed: the spin lock
has no queue (`LineRoute.cpp:312`).  Requests arrive without fairness.

In the front end the user owes nobody a click.  Of `PageView` it is assumed that
requests are answered (the proxy times out), that the browser runs the
callbacks it has, and that images and animations end.  Of `JobViews` the same
for each operation and layout; that every interval ticks; that a task of a
service that runs gets on; and that a service that is down is restarted
(`docker-compose.yml`, `restart: always`).  Crashes and failures happen without
fairness.

**Mutants.** Every property of a passing run comes with a changed definition
(`...Untested`, `...Leaking`, `...Swapped`, named in comments as mutants) under
which it fails.  They are never used by the specifications.

### Findings

1. *A package's line has two locks* (`lines_shared`).  `line_lock_guard` uses
   the project id of the URL, the tables use the book id.  A manual correction
   of a line in a package can be overwritten by an automatic one of the same
   line in the book, although `doc.md` (1646) rules this out.
2. *DELETE of a line takes no lock* (`lines_deleted`).  A POST under way writes
   the characters of a deleted line back, without its row in `textlines`; no
   route finds them, the profiler does.
3. *Token ids are not unique* (`dbline_ids`).  A token correction renumbers its
   slice from its offset, insertions elsewhere keep the id they were given.
   Correcting the OCR `a` to ` a` gives the space the id 1 and the letter 0;
   correcting the letter gives it its offset 1, too.  The id 1 then leads to
   the space.  A correction of the whole line makes ids unique again
   (`LineCorrectionRenumbers`).
4. *Splitting twice* (`packages_overlap`).  `split` does not look for packages
   the book has already.  Two splits one after the other give each page to two
   packages, although `doc.md` (236) says that packages never overlap.
5. *Packages outlive their book* (`packages_orphans`).  DELETE of a book removes
   its own row only, although `doc.md` says that its packages are deleted as
   well (1126), or that it cannot be deleted before them (415).  What is left
   can neither be opened, deleted nor given back, since all of these join the
   package with its book.

## 4. The proofs

`LineCorrectionProofs`, for all sets of workers, projects, lines, slots, texts
and methods and any pool size:

* `TypeCorrect`, by induction over the actions.
* `LockCorrect`.  `LockInv` says what `ID_SET` is (the keys of the holders)
  and that a key has one holder.  It is not inductive alone: that a handler's
  place fits its request (`HandlerInv`: only POST is ever *locked*, *edited* or
  in *unwind*) is needed to know which steps take the key away.
* `CopiesCurrent`, `Implements`, `ManualCorrectionsSurvive`.  Under the
  assumption `OneKeyPerRow` (two keys of the same row are equal: no line is
  reached through two projects) the lock excludes all other writers but DELETE,
  so that a loaded copy is the stored line until it is written back, or the
  line has lost its row.  Then `Update` is a `Post` of the register, `Remove` a
  `Delete`, every other step a stutter; and a step that changes a manual
  correction is one of a request that may.  The run `lines_shared` shows that
  the assumption cannot be dropped.
* `AnswersHonest`, under the same assumption: what a request has been told is
  what became of its line.  It is part of the same inductive invariant as the
  currency of copies (`CopyInv`), since an answer "conflict" or "ok" is decided
  on the copy.
* `ConnectionsCorrect`: connections are held from *connected* to *closing*, and
  there are never more than the pool has.

`DbLineProofs`, for any alphabet, any bounds and any width of a character, all
invariants of the run `dbline`: `TypeCorrect`, `ReadsWhatWasWritten`,
`ResetBringsBackTheOcr`, `CutsKeepTheirOrder`, `AutomaticLeavesManual`,
`LineCorrectionMakesIdsUnique`, `RetryChangesNothing`, `ScriptsAreMinimal`.

* *How.* What a loop computes is shown with the set of the lists, or cells, of
  which it is true: one that holds the first and with each the next holds all
  (`NumberInduction`, `ListInduction`, `CellInduction`, from the well-foundedness
  of `<`).  `TableIs` and `BackIs` unfold table and scripts in this way;
  `Edit` is what corrections and resets have in common, a slice replaced between
  what is before and behind it (`CorrectedIs`, `ResetIs`).
* `ReadsWhatWasWritten`.  After the script of the cell `<<i, j>>` the slice has
  used up `i` of its cleared characters and reads the first `j` characters of
  the correction (`AtCell`), since each operation writes the character of its
  column, a `Nop` because it is taken only where both strings agree
  (`ChoiceIs`).  That the OCR result stays is `Sift`: what a
  measure of characters gives along a list does not change when only insertions
  come and go.
* `ResetBringsBackTheOcr` needs more than its property: `FromOcr` says that
  `given` is an OCR result that can be stored, with any cuts, and that the
  characters of the line with an OCR character have its characters *and cuts*
  in the same order (`FRAME`).  No edit changes
  this (`EditKeeps`), and a reset of the line leaves these characters only.
* `CutsKeepTheirOrder`, for any cuts a client may send.  `CutsOrdered` (if
  `given` has its cuts in order, so has the line) is inductive: a new OCR result
  is `given` itself; of an ordered one, clearing leaves a
  sublist, an insertion goes half way between neighbours, and the box of a slice
  lies between the cuts around it (`BoxOrdered`), also for an empty slice at
  the end of the line.
* `AutomaticLeavesManual`: a slice that is not refused has no manual character,
  before or after, and what is around it stays (`EditLeaves`).
* `LineCorrectionMakesIdsUnique`.  Clearing the whole line numbers it from 0,
  insertions count on from there (`IdsStay`), so ids are different, and the
  first character with the id of a token's first is that one (`DistinctFound`).
* `RetryChangesNothing`.  The second correction clears the line to what the
  first one has cleared it to, up to cuts and flags, aligns the same strings, and
  hence writes the same (`CorrectedAlike`).
* `ScriptsAreMinimal` is the correctness of the algorithm, for strings of any
  length.  Neighbouring entries of the table differ by one at most
  (`TableNear`).  A pairing of two strings costs at least what its last pair, or
  a last character without a partner, adds to one of shorter strings
  (`PairLast`, `PairSkip`), and each pairing of shorter ones can be extended
  (`PairAdd`); so each entry is the least cost (`TableCheapest`,
  `LevIsDistance`).  The backtracking takes a move to the first least
  neighbour.  That this is right where the characters agree and a neighbour ties
  with the diagonal is `MoveCost`, by `TableNear`; the script then costs what
  its cell has (`CostIsEntry`).

`ConnectionPoolProofs`, for any number of workers and connections:
`ConnectionsHeldOnce`, `RefusalsCorrect`, `TransactionsClosed`.  The inductive
invariant `PoolInv` adds to them what a handler holds at each place
(`HandlerInv`), that only the mutex's holder searches and that every element
behind its position was in use when the search began (`SearchInv`; nobody else
can take a connection meanwhile, releases only shrink the set), and that a
transaction belongs to a worker in `transaction` (`TransactionInv`).

`PageOrderProofs`, about pure operators, for any finite set of numbers, any list
and any number of packages.  `Ascending` is a `CHOOSE`, so that nothing is known
of it until an order exists: the place of a number is the number of those up to
it (`Rank`), ranks grow and are different (`RankGrows`), so they are all of
`1..n`, and their inverse is an order (`OrderExists`).  The pages dealt to the
first `i` packages grow with `i` and end with all (`DealtNext`, `DealtEnds`,
`DealtGrows`), hence `SharesDisjoint`, `SharesEven` (no two shares differ by
more than one page) and `SharesCover`, shuffled or not; `ChainLinks` says that a
list in order is linked to the neighbours on both sides.

`PackagesProofs`, for all users, requests, numbers of concurrent requests and
bounds: `TypeCorrect`, `PackagesGoHomeAlways`, `OnlyOwnerDeletesAlways`,
`NoPageSkippedEver`, `SplitsArePartitions`, `NothingIsLeftBehind`.

* What a handler does depends on what it or the gateway read some steps before.
  The argument is that all of it is stable: `Stable` says what no step changes
  (ids are not used again, a row keeps its origin, a book its owner), and
  `Local` what a request relies on at each place of its handler, in terms of
  these facts only.  `LocalIsStable` then shows that no step of another request
  can disturb it, so that each action has to be considered for its own request
  alone.  `Local` and `Tables` (the origin of a row is a book or gone, only
  books have pages) are the inductive invariant `IInv`.  That a book keeps its
  owner is itself a consequence of `Local`, since `takeBack` writes into the
  book's row.
* `PagesInv`: the links of every project are those of its pages in order
  (`GoodRow`), and what a split has read are pages in order, all that the book
  still has, or the first of them if the reading was cut off (`Loaded`; pages may
  be deleted before the packages are written, but are never added).  A deletion takes one page out of a chain and links its
  neighbours, a split makes chains of its shares by `ChainLinks`.  With
  `SharesDisjoint` and `SharesCover` a split is a partition of what it has read.
* `NothingIsLeftBehind`.  A deletion that has read its lists to the end knows
  at each of its statements what is left to give back (`GivesBack`): after the
  check, no package of a book of the account itself (`OwnedBefore`), after the
  reading of the packages, none that is not in its list (`StillToGive`).  Other
  requests may give the account more at any time, but what they give is in
  `gained` (`OwnedAlready`, `GivesBackIsStable`), so the claim holds for
  overlapping requests as well, and after any number of deletions that have
  failed.

`JobsProofs`, for any number of tasks, mishaps, edits, layouts and clicks and
any choice of views: `JobsTyped`, `OneJobAtATime`, `FlagsTellTheTruth`.  A step
of the tab starts a job or leaves the services alone, so that all is shown of
the steps of the book (`NextBookStep`).  `OneJobPerBook` is inductive together
with `TasksUp` (a task runs in a service that is up), which is needed where a
restart deletes rows: only a task that is gone can be the one of the row.  For
`FlagsTellFiles` each flag is followed to its reason: `Backed` (the data is
whole, is being written, or is spoiled) is kept by every step; a task at
*storing* is backed, one at *writing* is the only one unless the data is
spoiled, and one at *done* has set its flag, unless `stale`.

`PageViewProofs`, for any pages, lines and bounds: `TokensSound`,
`LiveTokenIsKept`, `TypeCorrect`, `TokensDrawnAtTheirLine`, `ShownWhenQuiet`.
A token is issued once; hence one that was refused, or deleted by a logout, is
not a session ever again.  It follows that a 401 that arrives for the token the
browser has by now is a 401 for a token that is dead, so that a live one is
forgotten at a logout, at the refusal of another token or of a login with a wrong
password, which carries none, and at a failed check of the login, and at nothing
else: the exceptions in `LiveTokenKept`.  `ViewInv` is the invariant for what is drawn: a request is for a
line its page has (`GoodRequest`), an answer is of the page and line that were
asked for (`GoodAnswer`), and each line of the document has tokens of its own
(`Document`).  The arrays of the models are less well behaved, they may hold
holes and lines of other pages; that none of these is drawn at a wrong place is
due to the anchors, which `DrawType` shows of the loop that draws.

`ShownWhenQuiet` follows the texts.  A text the browser holds of a line, in an
answer, in the array of the page or in its tokens, is `Current` if it is the
stored one or there is news of the line still to come: an answer behind it in
the queue that tells of the line (`Told`), or a request for the line that is
under way, will be sent by the callback of a corrected token, or has failed and
is about to be lost (`Due`).  Whatever the server does keeps this, since the
answer to a correction is news itself (`ReplyCurrent`).  An arrival takes one
answer out of the queue; as long as none overtakes an older one, a text that
counted on it is the array's, which the answer then sets (`ArriveCurrent`,
`ArrivePage`, `ArriveLine`).  In quiet no news is left, so the array is what is
stored.  What is drawn is tied to the array by `DrawnOf`: a line shows what the
array has, or the last of its animations will; this needs `"hasty"`, and that
nothing has been drawn yet while images load (`Drawn`).

`ConcordanceProofs`, for any matches, lines, texts and page sizes:
`ConcordanceTyped`, `OnlyMeantLinesCorrected`, `PagesAskedForExist`,
`ListIsCurrentWhenQuiet`.  `PagesAskedForExist` is about lists of any length, where the run has one of seven pages that
shrinks: `LaidOut` says that the items are those of one of the three layouts for the
active page.  Each layout is computed as a list (`FewItems`, `ManyItems`,
`MidItems`, `LastItems`), has the active page once (`OneActive`), and has pages
or the ends beside it, so that whatever is clicked asks for a page that exists
(`WantedExists`), for which the next layout is made (`ItemsLaidOut`).  The proof
needs both exceptions: six pages, and a list that is not of the length its
items were made for.

`ListIsCurrentWhenQuiet` follows the list from the click that makes it stale to
the search that makes it current again.  `AskedInv` says which requests can be
under way together.  As long as none of the four races has happened, `ListInv`
says: a click whose corrections are counted down has at least as many under way
as it still counts (`Counted`; a mark is never counted without a request, see
`SelectedAreSent`), so that its refresh is sure to come; a correction that the
server has not seen belongs to such a click (`Promised`), so that nothing is
corrected after the last refresh was read, and that one has the list as it is
(`LastIsCurrent`); and when no refresh is awaited or under way, the list is
current, or will be when the page arrives that was asked for last (`Settled`).
Here `LaidOut` is needed again: which page the list shows is known from the
active item alone, so it has to be the only one with its number.

The assumptions are those of the modules (`LineAssumption`, `CharAssumption`,
`BoundAssumption`,
`NoContentAssumption`, `PoolAssumption`, `PackagesAssumption`, `JobsAssumption`,
`JobViewsAssumption`, `SessionAssumption`, `PageViewAssumption`,
`ConcordanceAssumption`), which TLC evaluates, and
`OneKeyPerRow`, stated in the theorems that need it.

**Only model-checked:** the liveness properties (`LockReleased`,
`MutexReleased`, `BackdropLifts`, `LoadingEnds`), since the prover does not
reason about fairness.  All other properties of the passing runs are proved.

## 5. What is left out

* The join with `project_pages` in `DbLine::load` (a line of a page that is not
  in the package is not found) and 503 in `LineCorrection` (it is in
  `ConnectionPool`).
* Image files, confidences, JSON, logging.  The line's box does not change in
  `DbLine`; an image sent with an OCR result brings another one (`updateImage`),
  where its cuts lie with respect to it being left open by `Cuts`.
* In `Packages`: the directory of a book, its metadata, and whether a
  given user id belongs to an account (`split` and `assign` do not ask).
* In `PageView`: reloads of the tab and other tabs (another browser of the same
  account is `elsewhere`), the tables and options of the sidebar, the selection
  of words, suggestions; the list of projects and the other views with a backdrop
  or a check of the login of their own (`list_controller.js:20`,
  `show_controller.js:24`): the one sent by the header has the same callbacks.
  That other users correct the same book meanwhile is
  the subject of `LineCorrection`; here it would only make every page stale.
* In `Concordance`: the loading of images, the dialogs without corrections of
  the lexicon extension and of the protocol, searches for several words.
* In `Jobs`: the training, which sleeps; what is in profiles and protocols.  In
  `JobViews`: the fading out and loading again of a view is one step, and a
  view that is being loaded is not asked for a second time.
* `r.js` is a copy of a third-party build tool and no part of the program.
* Components with status `not_modelled` in `PROJECT.json`, each with its reason.

### Observations

Met while reading the code; those marked with a module are exceptions that the
module's properties name.

* *Page view.*  A 401 for a request of an older session ends the new one
  (`util.js:273`; `PageView`), and so does the 401 for a login with a wrong
  password.  Any error of the login's check, a timeout as well, makes the browser
  forget its token (`users.js:91`; `PageView`).  The backdrop stays after a
  `page:new` that fails (`page/show/show_controller.js:290`; `PageView`), and
  after a search in the concordance that fails (415-422, no `fail` at 580;
  `PageView`).  A corrected line goes to
  `lines[lineId-1]` (342): with gaps in the ids the array gets holes, and a line
  that is answered late is written into another page's array (`PageView`).  A
  second rendering while images load draws the lines twice (`PageView`).
  "Correct whole page" is triggered on the sidebar (317-334), where nobody
  listens: nothing happens.
* *Concordance.*  With six pages, "Next" on page 5 asks for the page "...", with
  a negative skip (`Concordance`).  After corrections the items below the list
  are those for the old number of pages (`Concordance`).  "Correct selected"
  sends the unmarked tokens of the same line as well; since only the marks are
  counted, the list is fetched before the last answer, and after a failure not
  at all (`Concordance`).
* *Job views.*  A second click on the start button leaks an interval, and its
  checks may load another view anew, since the element is found by the global
  class `.loading_background3` (`JobViews`).  When the row has gone ("empty")
  the tracking stops and "please wait" stays (`JobViews`).
  `start_le_profile_clicked` sends the POST of the profile and the PUT of the
  lexicon at once.
* *Services.*  An error of `rows.Next()` is taken for the end of the list: a
  split may leave the last pages of a book out (`split.go:147`; `Packages`), the
  deletion of an account packages or books without an owner
  (`pcwusers/routes.go:176`, 190-204; `Packages`).  A PUT of the lexicon that
  fails leaves a truncated file (`pcwpostcorrection/routes.go:146`; `Jobs`).  The start of the post-correction service deletes the rows of the
  profiler's running jobs, too (`pcwpostcorrection/main.go:50`; `Jobs`).  POST
  of a book writes back flags that may have changed since they were read
  (`BookRoute.cpp:246`; `Jobs`).  A book without a language gets the flag
  "profiled" and no file (`Jobs`).  The runner of the lexicon extension ignores
  the error of `eachLine` (`runners.go:42`).  The post-correction opens a
  transaction and writes past it, through the pool.  The loop that groups
  characters into lines never hands on the last line of a book
  (`aipoco.go:296`).  The job names the front end compares are not those of the
  services, so that the symbol of a job is not shown.
* *Routes.*  An update of the OCR result stores the cuts of the client as they
  are, out of order or outside of the line (`LineRoute.cpp:184`; `DbLine`); one
  with an empty text takes the line's last row in `contents`, after which no
  request can load it any more.  PUT of an OCR line overwrites the image before its transaction
  (`LineRoute.cpp:206`).  A token id that no character has leads to the end of
  the line, where the correction is appended (`DbStructs.cpp:283`).  DELETE of a
  book removes its directory before it commits (`BookRoute.cpp:268`).  Two
  downloads at a time change the working directory of the process
  (`Archiver.cpp:59`).

## 6. Plan

1. Post-correction in the instance of `jobs`, with the job rows of packages.
2. `LineGroups`: the loops that group rows of `contents` into lines (profiler,
   post-correction, pool), against a reference definition.
3. `Cache`, the order of pages at upload, the cuts of appended strings, the
   archiver's working directory.
4. Composition of `Session` with `Packages`: what was allowed when it was
   checked, and no longer is when it is served.
5. Partial correction (`find_corrected_token`), which the archiver's parsers
   use, on top of the lemmas about scripts.
