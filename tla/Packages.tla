------------------------------ MODULE Packages ------------------------------
(***************************************************************************)
(* Books, packages and their owners: the tables users, projects,           *)
(* project_pages and pages under the requests of src/services/pcwpkg,      *)
(* src/services/pcwusers (deletion), api/BookRoute.cpp (upload, deletion)  *)
(* and api/PageRoute.cpp (deletion), behind the gateway's check of the     *)
(* owner (src/services/pcwauth).                                           *)
(*                                                                         *)
(* The services are separate processes that share the tables and no lock.  *)
(* A request is a gateway check followed by the statements of one handler, *)
(* each of them, or each transaction, a step.                              *)
(***************************************************************************)
EXTENDS PageOrder

CONSTANTS
  User,     \* accounts that exist in the beginning
  Admin,    \* those with administrator rights
  Worker,   \* requests that can be served at the same time
  MaxId,    \* bound of the model: rows ever inserted into `projects'
  MaxBook,  \* bound of the model: the last of them that is a book's
  MaxPages, \* bound of the model: pages of a book
  Sizes,    \* the page counts of the books that are uploaded
  Deleted,  \* the pages that requests delete
  Shares,   \* the lists of users that books are split among
  Nobody    \* a missing query parameter `assignto'

ASSUME PackagesAssumption ==
  /\ Admin \subseteq User
  /\ Nobody \notin User
  /\ {MaxId, MaxBook, MaxPages} \subseteq Nat
  /\ MaxBook <= MaxId
  /\ Sizes \subseteq 1..MaxPages
  /\ Deleted \subseteq 1..MaxPages
  /\ Shares \subseteq Seq(User) \ {<<>>}

VARIABLES
  users,    \* the table users
  projects, \* the table projects, a function on the ids that exist
  rows,     \* project_pages: for each project its pages and their neighbours
  stored,   \* the pages of each book in the tables pages, textlines, contents
  lastId,   \* the auto_increment of projects
  req,      \* the request each worker serves
  pc,       \* the next statement of its handler
  found,    \* what its handler has read
  short,    \* history: the workers whose handler took a part of a list, or
            \*   nothing, for all there is
  gained    \* history: what the account a handler deletes has got since
            \*   the handler asked for its books

tables == <<users, projects, rows, stored, lastId>>
vars == <<tables, req, pc, found, short, gained>>

Id   == 1..MaxId
Page == 1..MaxPages

Row  == [origin : Id, owner : User]
Link == [prev : Page, next : Page]

NoRequest == [op |-> "none"]
Nothing   == <<>>

IsBook(p) == projects[p].origin = p
Exists(p) == p \in DOMAIN projects

\* The book of a package is still there.
HasBook(p) == Exists(projects[p].origin)

Requests ==
  UNION {[op : {"upload"}, user : User, size : Sizes],
         [op : {"split"}, user : User, id : Id, random : BOOLEAN, to : Shares],
         [op : {"assign"}, user : User, id : Id, to : User \cup {Nobody}],
         [op : {"takeback", "delete"}, user : User, id : Id],
         [op : {"deletePage"}, user : User, id : Id, page : Deleted],
         [op : {"deleteUser"}, user : User, uid : User]}

Init ==
  /\ users = User
  /\ projects = <<>>
  /\ rows = <<>>
  /\ stored = [b \in Id |-> {}]
  /\ lastId = 0
  /\ req = [w \in Worker |-> NoRequest]
  /\ pc = [w \in Worker |-> "idle"]
  /\ found = [w \in Worker |-> Nothing]
  /\ short = {}
  /\ gained = [w \in Worker |-> {}]

-----------------------------------------------------------------------------
(* How a request begins and ends. *)

\* The projects that become u's in this step.
Acquired(u) ==
  {p \in DOMAIN projects' :
     /\ projects'[p].owner = u
     /\ p \in DOMAIN projects => projects[p].owner # u}

\* Part of every step: the account's gains, while a handler deletes it.
Tracks ==
  gained' = [w \in Worker |->
               IF pc'[w] \in {"read packages", "reassign"}
                 THEN gained[w] \cup Acquired(req[w].uid)
                 ELSE {}]

Goto(w, place) == pc' = [pc EXCEPT ![w] = place]

\* The answer is sent.
Done(w) ==
  /\ Goto(w, "idle")
  /\ req' = [req EXCEPT ![w] = NoRequest]
  /\ found' = [found EXCEPT ![w] = Nothing]
  /\ short' = short \ {w}
  /\ Tracks

\* The handler goes on at the given place with the value it has read.
Reads(w, value, place) ==
  /\ found' = [found EXCEPT ![w] = value]
  /\ Goto(w, place)
  /\ UNCHANGED <<tables, req>>
  /\ Tracks

(* Rows.Next ends a list and returns false on an error of the connection   *)
(* as well, and the loops of the services do not ask Rows.Err: what has    *)
(* been read so far is then taken for all there is.                        *)
Takes(w, complete) == short' = IF complete THEN short ELSE short \cup {w}

(* What the gateway and the wrappers of the handlers let through: a        *)
(* project's owner, an account itself or an administrator; books are split *)
(* and taken back, packages assigned, and to others by administrators.     *)
Owner(r) == Exists(r.id) /\ projects[r.id].owner = r.user

\* Mutant: every project can be given away.
AllowedNotOnlyPackages(r) ==
  CASE r.op = "upload"     -> TRUE
    [] r.op = "deleteUser" -> r.user = r.uid \/ r.user \in Admin
    [] r.op = "assign"     -> Owner(r) /\ (r.to = Nobody \/ r.user \in Admin)
    [] r.op \in {"split", "takeback"} -> Owner(r) /\ IsBook(r.id)
    [] OTHER               -> Owner(r)

Allowed(r) ==
  CASE r.op = "upload"     -> TRUE
    [] r.op = "deleteUser" -> r.user = r.uid \/ r.user \in Admin
    [] r.op = "assign"     -> /\ Owner(r) /\ ~IsBook(r.id)
                              /\ r.to = Nobody \/ r.user \in Admin
    [] r.op \in {"split", "takeback"} -> Owner(r) /\ IsBook(r.id)
    [] OTHER               -> Owner(r)

\* The first statement of each handler.
Begin(r) ==
  CASE r.op = "upload"     -> "insert book"
    [] r.op = "split"      -> "load pages"
    [] r.op = "assign"     -> IF r.to = Nobody THEN "load owner" ELSE "assign"
    [] r.op = "takeback"   -> "take back"
    [] r.op = "delete"     -> "load package"
    [] r.op = "deletePage" -> "delete page"
    [] r.op = "deleteUser" -> "owns books"

Accept(w, r) ==
  /\ pc[w] = "idle"
  /\ r.user \in users
  /\ Allowed(r)
  /\ req' = [req EXCEPT ![w] = r]
  /\ Goto(w, Begin(r))
  /\ UNCHANGED <<tables, found, short>>
  /\ Tracks

(* A statement, or one of the services' own lookups, fails and the handler *)
(* sees it: the transaction is rolled back, what was committed before      *)
(* stays.                                                                  *)
Fail(w) ==
  /\ pc[w] # "idle"
  /\ UNCHANGED tables
  /\ Done(w)

-----------------------------------------------------------------------------
(* Changes of the tables. *)

\* A function extended by the values of g on the ids in new.
Extended(f, new, g(_)) ==
  [p \in DOMAIN f \cup new |-> IF p \in new THEN g(p) ELSE f[p]]

Without(f, p) == [q \in DOMAIN f \ {p} |-> f[q]]

\* update projects set owner = u where id = p
SetOwner(S, u) ==
  projects' = [p \in DOMAIN projects |->
                 IF p \in S THEN [projects[p] EXCEPT !.owner = u] ELSE projects[p]]

-----------------------------------------------------------------------------
(* Upload of a book: insert_book in one transaction. *)

InsertBook(w) ==
  LET r == req[w]
      b == lastId + 1
      pages == [i \in 1..r.size |-> i]
  IN  /\ pc[w] = "insert book"
      /\ b <= MaxBook
      /\ lastId' = b
      /\ projects' = Extended(projects, {b},
                       LAMBDA p : [origin |-> b, owner |-> r.user])
      /\ rows' = Extended(rows, {b}, LAMBDA p : Chain(pages))
      /\ stored' = [stored EXCEPT ![b] = 1..r.size]
      /\ UNCHANGED users
      /\ Done(w)

-----------------------------------------------------------------------------
(* Split. *)

(* loadProject: the pages in their order, or the first of them. *)
LoadPages(w) ==
  /\ pc[w] = "load pages"
  /\ LET b == req[w].id
         pages == IF Exists(b) THEN Ascending(DOMAIN rows[b]) ELSE <<>>
     IN  \E k \in 0..Len(pages) :
           /\ Reads(w, SubSeq(pages, 1, k), "insert packages")
           /\ Takes(w, k = Len(pages))

InsertPackages(w) ==
  LET r == req[w]
      n == Len(r.to)
      new == lastId + 1 .. lastId + n
  IN  /\ pc[w] = "insert packages"
      /\ lastId + n <= MaxId
      /\ lastId' = lastId + n
      /\ \E order \in IF r.random THEN Orders(PagesOf(found[w])) ELSE {found[w]} :
           LET share(p) == Share(order, n, p - lastId, r.random)
           IN  /\ projects' = Extended(projects, new,
                    LAMBDA p : [origin |-> r.id, owner |-> r.to[p - lastId]])
               /\ rows' = Extended(rows, new, LAMBDA p : Chain(share(p)))
      /\ UNCHANGED <<users, stored>>
      /\ Done(w)

-----------------------------------------------------------------------------
(* Assignment. *)

(* loadOriginalOwner joins the package with its book. *)
LoadOwner(w) ==
  /\ pc[w] = "load owner"
  /\ Exists(req[w].id) /\ HasBook(req[w].id)
  /\ Reads(w, <<projects[projects[req[w].id].origin].owner>>, "assign")
  /\ UNCHANGED short

Assign(w) ==
  LET r == req[w]
  IN  /\ pc[w] = "assign"
      /\ SetOwner({r.id}, IF r.to = Nobody THEN found[w][1] ELSE r.to)
      /\ UNCHANGED <<users, rows, stored, lastId>>
      /\ Done(w)

(* takeBack updates the book's own row too: its origin is itself. *)
TakeBack(w) ==
  LET r == req[w]
  IN  /\ pc[w] = "take back"
      /\ SetOwner({p \in DOMAIN projects : projects[p].origin = r.id}, r.user)
      /\ UNCHANGED <<users, rows, stored, lastId>>
      /\ Done(w)

-----------------------------------------------------------------------------
(* Deletion of books, packages and pages. *)

(* DbPackage::load joins a project with its book. *)
LoadPackage(w) ==
  LET p == req[w].id
  IN  /\ pc[w] = "load package"
      /\ Exists(p) /\ HasBook(p)
      /\ Reads(w, Nothing, "delete project")
      /\ UNCHANGED short

\* Mutant: the content of the package's book is deleted.
DeleteProjectByBook(w) ==
  LET p == req[w].id
  IN  /\ pc[w] = "delete project"
      /\ projects' = Without(projects, p)
      /\ rows' = Without(rows, p)
      /\ stored' = [stored EXCEPT ![IF Exists(p) THEN projects[p].origin ELSE p] = {}]
      /\ UNCHANGED <<users, lastId>>
      /\ Done(w)

\* Mutant: project_pages is forgotten.
DeleteProjectKeepsRows(w) ==
  LET p == req[w].id
  IN  /\ pc[w] = "delete project"
      /\ projects' = Without(projects, p)
      /\ stored' = [stored EXCEPT ![p] = {}]
      /\ UNCHANGED <<users, rows, lastId>>
      /\ Done(w)

(* delete_project: every table is cleared by the project's own id, which   *)
(* for a package is not that of a book.                                    *)
DeleteProject(w) ==
  LET p == req[w].id
  IN  /\ pc[w] = "delete project"
      /\ projects' = Without(projects, p)
      /\ rows' = Without(rows, p)
      /\ stored' = [stored EXCEPT ![p] = {}]
      /\ UNCHANGED <<users, lastId>>
      /\ Done(w)

(* delete_page: the neighbours are not linked with each other, and the     *)
(* packages with this page keep it.                                        *)
DeletePage(w) ==
  LET p == req[w].id
      g == req[w].page
  IN  /\ pc[w] = "delete page"
      /\ stored' = [stored EXCEPT ![p] = @ \ {g}]
      /\ rows' = IF Exists(p) THEN [rows EXCEPT ![p] = Without(@, g)] ELSE rows
      /\ UNCHANGED <<users, projects, lastId>>
      /\ Done(w)

-----------------------------------------------------------------------------
(* Deletion of an account.  The projects are read and written outside of   *)
(* the transaction that deletes the account.                               *)

(* ownsBooks is `no' when the account owns none, and when its row cannot   *)
(* be read; a `yes' ends the request, which is a Fail.                     *)
OwnsBooks(w) ==
  /\ pc[w] = "owns books"
  /\ Reads(w, Nothing, "read packages")
  /\ Takes(w, \A p \in DOMAIN projects : projects[p].owner = req[w].uid => ~IsBook(p))

(* The packages of the account with the owners of their books, or some of  *)
(* them.                                                                   *)
ReadPackages(w) ==
  LET u == req[w].uid
      own == {p \in DOMAIN projects :
                /\ projects[p].owner = u
                /\ HasBook(p)
                /\ projects[projects[p].origin].owner # u}
  IN  /\ pc[w] = "read packages"
      /\ \E some \in SUBSET own :
           /\ Reads(w, [p \in some |-> projects[projects[p].origin].owner], "reassign")
           /\ Takes(w, some = own)

\* Mutant: the first one is enough.
ReassignOne(w) ==
  /\ pc[w] = "reassign"
  /\ \E p \in DOMAIN found[w] :
       /\ SetOwner({p}, found[w][p])
       /\ found' = [found EXCEPT ![w] = <<>>]
  /\ UNCHANGED <<users, rows, stored, lastId, req, pc, short>>
  /\ Tracks

Reassign(w) ==
  /\ pc[w] = "reassign"
  /\ \E p \in DOMAIN found[w] :
       /\ SetOwner({p}, found[w][p])
       /\ found' = [found EXCEPT ![w] = Without(@, p)]
  /\ UNCHANGED <<users, rows, stored, lastId, req, pc, short>>
  /\ Tracks

DeleteUser(w) ==
  /\ pc[w] = "reassign"
  /\ found[w] = <<>>
  /\ users' = users \ {req[w].uid}
  /\ UNCHANGED <<projects, rows, stored, lastId>>
  /\ Done(w)

-----------------------------------------------------------------------------
Handler(w) ==
  \/ InsertBook(w)
  \/ LoadPages(w)
  \/ InsertPackages(w)
  \/ LoadOwner(w)
  \/ Assign(w)
  \/ TakeBack(w)
  \/ LoadPackage(w)
  \/ DeleteProject(w)
  \/ DeletePage(w)
  \/ OwnsBooks(w)
  \/ ReadPackages(w)
  \/ Reassign(w)
  \/ DeleteUser(w)

Next ==
  \E w \in Worker :
    \/ \E r \in Requests : Accept(w, r)
    \/ Handler(w)
    \/ Fail(w)

Spec == Init /\ [][Next]_vars

-----------------------------------------------------------------------------
(* Properties. *)

ProjectsOK ==
  /\ users \subseteq User
  /\ lastId \in 0..MaxId
  /\ DOMAIN projects \subseteq 1..lastId
  /\ projects \in [DOMAIN projects -> Row]
  /\ DOMAIN rows = DOMAIN projects
  /\ stored \in [Id -> SUBSET Page]

RequestsOK ==
  /\ req \in [Worker -> Requests \cup {NoRequest}]
  /\ \A w \in Worker : pc[w] = "idle" <=> req[w] = NoRequest
  /\ short \subseteq {w \in Worker : pc[w] # "idle"}
  /\ gained \in [Worker -> SUBSET Id]

LinksOK ==
  \A p \in DOMAIN rows :
    rows[p] \in [DOMAIN rows[p] -> Link] /\ DOMAIN rows[p] \subseteq Page

TypeOK == ProjectsOK /\ RequestsOK /\ LinksOK

(* The stored neighbours agree with the order of the pages, which the      *)
(* routes for the next pages use: a page's next page comes after it and    *)
(* skips none that is still there, and so for its previous page, through   *)
(* random splits, concurrent splits and deletions of pages.                *)
NoPageSkipped ==
  \A p \in DOMAIN rows : \A g, h \in DOMAIN rows[p] :
    g < h => /\ g < rows[p][g].next /\ rows[p][g].next <= h
             /\ g <= rows[p][h].prev /\ rows[p][h].prev < h

(* The packages that appear in one step, which one split made of book b. *)
NewPackages(b) ==
  {p \in DOMAIN projects' \ DOMAIN projects : projects'[p].origin = b /\ p # b}

\* The worker whose answer is sent.
Finishes(w) == pc[w] # "idle" /\ pc'[w] = "idle"

(* The packages of one split share no page, differ by at most one page in  *)
(* size, and together have every page the book still has, whatever happens *)
(* between the reading of the pages and the insertion.  A page is missing  *)
(* only when the reading of the pages was cut off unnoticed                *)
(* (split.go:147-154), and then it comes after all that are not.           *)
SplitIsPartition ==
  [][\A b \in Id :
       LET new == NewPackages(b)
           dealt == UNION {DOMAIN rows'[p] : p \in new}
       IN  new # {} =>
             /\ \A p, q \in new : p # q => DOMAIN rows'[p] \cap DOMAIN rows'[q] = {}
             /\ \A p, q \in new :
                  Cardinality(DOMAIN rows'[p]) <= Cardinality(DOMAIN rows'[q]) + 1
             /\ Exists(b) => \A g \in DOMAIN rows[b] \ dealt :
                  /\ \E w \in short : Finishes(w)
                  /\ \A h \in dealt : h < g
    ]_vars

\* An administrator's request to give p to u is served.
Assigned(p, u) ==
  \E w \in Worker :
    /\ req[w].op = "assign"
    /\ req[w].id = p /\ req[w].to = u
    /\ req[w].user \in Admin

GoHome ==
  \A p \in DOMAIN projects \cap DOMAIN projects' :
    projects'[p].owner # projects[p].owner =>
      /\ ~IsBook(p)
      /\ \/ ~HasBook(p)
         \/ projects'[p].owner = projects[projects[p].origin].owner
         \/ Assigned(p, projects'[p].owner)

OwnerDeletes ==
  \A b \in Id :
    ~(stored[b] \subseteq stored'[b]) =>
      \E w \in Worker :
        /\ req[w].op \in {"delete", "deletePage"} /\ req[w].id = b
        /\ Exists(b) => projects[b].owner = req[w].user

(* Whoever owned a package before, when it changes hands it goes to the    *)
(* owner of its book, unless an administrator assigns it or the book is    *)
(* gone; a book never changes hands.  The taking back of packages writes   *)
(* the caller into the book's own row, and assigning, taking back and      *)
(* account deletion write an owner they have read earlier.                 *)
PackagesGoHome == [][GoHome]_vars

(* Pages are deleted only for the owner of their book: no request for a    *)
(* package touches them (frontend/public_html/doc.md, line 412), and the   *)
(* gateway's check of the owner still holds when the rows are deleted.     *)
OnlyOwnerDeletes == [][OwnerDeletes]_vars

\* A worker's handler leaves nothing of u but what u got in between.
LeavesNothing(w, u) ==
  \A p \in DOMAIN projects :
    projects[p].owner = u => ~HasBook(p) \/ p \in gained[w]

(* A deleted account leaves no project behind whose book is there, but for *)
(* what it got after the check of its books (a package assigned, taken     *)
(* back or split to it, a book uploaded), whatever other requests do in    *)
(* the meantime and after deletions that failed half way: unless an error  *)
(* was taken for the end of a list or for `owns no books'                  *)
(* (handleDeleteUser, routes.go:176, 190-204).                             *)
DeletionLeavesNothing ==
  [][\A u \in users \ users' :
       \E w \in Worker :
         /\ Finishes(w) /\ req[w].uid = u
         /\ w \notin short => LeavesNothing(w, u)
    ]_vars

(* "Two packages with the same parent never contain overlapping pages"     *)
(* (frontend/public_html/doc.md, line 236).                                *)
PackagesDisjoint ==
  \A p, q \in DOMAIN projects :
    p # q /\ ~IsBook(p) /\ ~IsBook(q) /\ projects[p].origin = projects[q].origin
      => DOMAIN rows[p] \cap DOMAIN rows[q] = {}

(* "If a project is deleted, all associated packages are deleted as well"  *)
(* (frontend/public_html/doc.md, line 1126).                               *)
NoOrphanPackages == \A p \in DOMAIN projects : HasBook(p)

=============================================================================
