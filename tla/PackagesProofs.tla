--------------------------- MODULE PackagesProofs ---------------------------
(***************************************************************************)
(* Theorems about Packages, for all users, requests and bounds: packages   *)
(* go home, only the owner of a book deletes its pages, links skip none,   *)
(* a split is a partition, and a deleted account leaves nothing behind.    *)
(*                                                                         *)
(* The handlers act on what they, or the gateway, read some steps before.  *)
(* This is safe as far as it depends on facts that no step changes         *)
(* (Stable): ids are not used again, a row keeps its origin, a book keeps  *)
(* its owner.  Local says what each handler relies on, LocalIsStable that  *)
(* no step of another handler can change it.                               *)
(***************************************************************************)
EXTENDS Packages, PageOrderProofs

-----------------------------------------------------------------------------
(* The inductive invariant. *)

BookOwner(p) == projects[projects[p].origin].owner

(* The origin of a row is a book or gone; only books have pages. *)
Tables ==
  /\ ProjectsOK
  /\ \A p \in DOMAIN projects :
       /\ projects[p].origin <= lastId
       /\ HasBook(p) => IsBook(projects[p].origin)
  /\ \A b \in Id : (b > lastId \/ (Exists(b) /\ ~IsBook(b))) => stored[b] = {}

(* What a request relies on, at each place of its handler. *)
Uploads(w) == pc[w] = "insert book" => req[w].op = "upload"

Splits(w) ==
  pc[w] \in {"load pages", "insert packages"} =>
    /\ req[w].op = "split"
    /\ req[w].id <= lastId
    /\ Exists(req[w].id) => IsBook(req[w].id)

Assigns(w) ==
  pc[w] \in {"load owner", "assign"} =>
    /\ req[w].op = "assign"
    /\ req[w].id <= lastId
    /\ Exists(req[w].id) => ~IsBook(req[w].id)
    /\ req[w].to = Nobody \/ req[w].user \in Admin

AssignsHome(w) ==
  pc[w] = "assign" /\ req[w].to = Nobody =>
    /\ found[w][1] \in User
    /\ Exists(req[w].id) /\ HasBook(req[w].id) => found[w][1] = BookOwner(req[w].id)

TakesBack(w) ==
  pc[w] = "take back" =>
    /\ req[w].op = "takeback"
    /\ req[w].id <= lastId
    /\ Exists(req[w].id) =>
         IsBook(req[w].id) /\ projects[req[w].id].owner = req[w].user

Deletes(w) ==
  pc[w] \in {"load package", "delete project", "delete page"} =>
    /\ req[w].op = IF pc[w] = "delete page" THEN "deletePage" ELSE "delete"
    /\ req[w].id <= lastId
    /\ Exists(req[w].id) /\ IsBook(req[w].id) => projects[req[w].id].owner = req[w].user

DeletesUser(w) ==
  pc[w] \in {"owns books", "read packages", "reassign"} => req[w].op = "deleteUser"

Reassigns(w) ==
  pc[w] = "reassign" =>
    \A p \in DOMAIN found[w] :
      /\ found[w][p] \in User
      /\ p \in Id /\ p <= lastId
      /\ Exists(p) => ~IsBook(p)
      /\ Exists(p) /\ HasBook(p) => found[w][p] = BookOwner(p)

Local(w) ==
  /\ Uploads(w) /\ Splits(w)
  /\ Assigns(w) /\ AssignsHome(w) /\ TakesBack(w)
  /\ Deletes(w) /\ DeletesUser(w) /\ Reassigns(w)

Served ==
  /\ req \in [Worker -> Requests \cup {NoRequest}]
  /\ DOMAIN pc = Worker /\ DOMAIN found = Worker

IInv == Tables /\ Served /\ \A w \in Worker : Local(w)

(* What no step changes. *)
Stable ==
  /\ lastId' \in Nat /\ lastId <= lastId'
  /\ \A p \in DOMAIN projects' :
       p <= lastId =>
         /\ p \in DOMAIN projects
         /\ projects'[p].origin = projects[p].origin
         /\ IsBook(p) => projects'[p].owner = projects[p].owner

-----------------------------------------------------------------------------
(* The records of requests. *)

LEMMA RequestTypes ==
  ASSUME NEW r \in Requests \cup {NoRequest}
  PROVE  /\ r.op = "upload" => r.user \in User /\ r.size \in Sizes
         /\ r.op = "split" =>
              r.id \in Id /\ r.random \in BOOLEAN /\ r.to \in Seq(User) \ {<<>>}
         /\ r.op = "assign" => r.id \in Id /\ r.to \in User \cup {Nobody}
         /\ r.op \in {"takeback", "delete"} => r.user \in User /\ r.id \in Id
         /\ r.op = "deletePage" => r.user \in User /\ r.id \in Id /\ r.page \in Deleted
         /\ r.op = "deleteUser" => r.uid \in User
  BY PackagesAssumption DEF Requests, NoRequest

LEMMA IdArith == Id \subseteq Nat /\ 1..MaxPages = Page
  BY PackagesAssumption DEF Id, Page

LEMMA RowTypes ==
  ASSUME Tables
  PROVE  /\ MaxId \in Nat /\ lastId \in Nat /\ lastId <= MaxId
         /\ DOMAIN rows = DOMAIN projects
         /\ \A p \in DOMAIN projects :
              p \in Id /\ p <= lastId /\ projects[p].owner \in User /\ projects[p].origin \in Id
<1>1. MaxId \in Nat /\ lastId \in 0..MaxId
  BY PackagesAssumption DEF Tables, ProjectsOK
<1>2. \A p \in DOMAIN projects : p \in 1..lastId /\ projects[p] \in Row
  BY DEF Tables, ProjectsOK
<1>3. DOMAIN rows = DOMAIN projects
  BY DEF Tables, ProjectsOK
<1> QED BY <1>1, <1>2, <1>3 DEF Row, Id

-----------------------------------------------------------------------------
(* What the steps of other handlers leave of Local. *)

LEMMA LocalIsStable ==
  ASSUME Tables, Served, Stable, NEW w \in Worker, Local(w),
         pc'[w] = pc[w], req'[w] = req[w], found'[w] = found[w]
  PROVE  Local(w)'
<1> USE DEF Tables, ProjectsOK
<1>0. req[w] \in Requests \cup {NoRequest} /\ lastId \in Nat /\ Id \subseteq Nat
  BY IdArith, PackagesAssumption DEF Served
<1>1. ASSUME NEW p \in Id, p <= lastId, Exists(p)'
      PROVE  /\ Exists(p) /\ IsBook(p)' = IsBook(p)
             /\ IsBook(p) => projects'[p].owner = projects[p].owner
             /\ HasBook(p)' => HasBook(p) /\ BookOwner(p)' = BookOwner(p)
  <2>1. /\ Exists(p) /\ projects'[p].origin = projects[p].origin
        /\ IsBook(p) => projects'[p].owner = projects[p].owner
    BY <1>1 DEF Stable, Exists
  <2>2. projects[p].origin <= lastId /\ (HasBook(p) => IsBook(projects[p].origin))
    BY <2>1 DEF Exists
  <2>3. ASSUME HasBook(p)' PROVE HasBook(p) /\ BookOwner(p)' = BookOwner(p)
    BY <2>1, <2>2, <2>3 DEF Stable, HasBook, Exists, BookOwner, IsBook
  <2> QED BY <2>1, <2>3 DEF IsBook
<1>2. Uploads(w)'
  BY DEF Local, Uploads
<1>3. ASSUME NEW n \in Id, n <= lastId PROVE n <= lastId'
  BY <1>3, <1>0 DEF Stable
<1>r. /\ req[w].op \in {"split", "assign", "takeback", "delete", "deletePage"} => req[w].id \in Id
      /\ req'[w] = req[w]
  BY <1>0, RequestTypes
<1> USE DEF Exists, IsBook, HasBook, BookOwner
<1> HIDE DEF Tables, ProjectsOK
<1>4. Splits(w)'
  BY <1>0, <1>1, <1>3, <1>r DEF Local, Splits
<1>5. Assigns(w)'
  BY <1>0, <1>1, <1>3, <1>r DEF Local, Assigns
<1>10. AssignsHome(w)'
  <2> SUFFICES ASSUME pc[w] = "assign", req[w].to = Nobody, (Exists(req[w].id))', (HasBook(req[w].id))'
               PROVE  /\ found[w][1] \in User
                      /\ found[w][1] = BookOwner(req[w].id)'
    BY <1>r DEF Local, AssignsHome
  <2> QED BY <1>1, <1>r DEF Local, Assigns, AssignsHome
<1>6. TakesBack(w)'
  BY <1>0, <1>1, <1>3, <1>r DEF Local, TakesBack
<1>7. Deletes(w)'
  <2> SUFFICES ASSUME pc[w] \in {"load package", "delete project", "delete page"}
               PROVE  /\ req[w].op = IF pc[w] = "delete page" THEN "deletePage" ELSE "delete"
                      /\ req[w].id <= lastId'
                      /\ (Exists(req[w].id) /\ IsBook(req[w].id))' =>
                            projects'[req[w].id].owner = req[w].user
    BY <1>r DEF Deletes
  <2>1. /\ req[w].op = IF pc[w] = "delete page" THEN "deletePage" ELSE "delete"
        /\ req[w].id \in Id /\ req[w].id <= lastId
    BY <1>r DEF Local, Deletes
  <2> QED BY <2>1, <1>1, <1>3, <1>r DEF Local, Deletes
<1>8. DeletesUser(w)'
  BY DEF Local, DeletesUser
<1>9. Reassigns(w)'
  BY <1>0, <1>1, <1>3 DEF Local, Reassigns
<1> QED BY <1>2, <1>4, <1>5, <1>10, <1>6, <1>7, <1>8, <1>9 DEF Local

-----------------------------------------------------------------------------
(* The three ways in which the tables change. *)

LEMMA ChangeOwners ==
  ASSUME Tables, NEW S, NEW u, SetOwner(S, u),
         \A p \in S \cap DOMAIN projects : IsBook(p) => projects[p].owner = u,
         S \cap DOMAIN projects # {} => u \in User,
         UNCHANGED <<users, rows, stored, lastId>>
  PROVE  Tables' /\ Stable
<1> USE DEF Tables, ProjectsOK, SetOwner, Row, Exists, IsBook, HasBook
<1>1. /\ DOMAIN projects' = DOMAIN projects
      /\ \A p \in DOMAIN projects :
           /\ projects'[p].origin = projects[p].origin
           /\ projects'[p] \in Row
           /\ IsBook(p) => projects'[p].owner = projects[p].owner
  OBVIOUS
<1>2. ProjectsOK'
  <2>1. projects' \in [DOMAIN projects' -> Row]
    BY <1>1
  <2> QED BY <2>1, <1>1
<1>3. Stable
  BY <1>1, PackagesAssumption DEF Stable
<1> QED BY <1>1, <1>2, <1>3

LEMMA InsertRows ==
  ASSUME Tables, NEW new, NEW n \in Nat,
         lastId' = lastId + n, lastId' <= MaxId,
         new = lastId + 1 .. lastId + n,
         projects' \in [DOMAIN projects \cup new -> Row],
         \A p \in DOMAIN projects : projects'[p] = projects[p],
         \A p \in new :
           \/ projects'[p].origin = p
           \/ /\ projects'[p].origin <= lastId
              /\ stored'[p] = {}
              /\ Exists(projects'[p].origin) => IsBook(projects'[p].origin),
         DOMAIN rows' = DOMAIN rows \cup new,
         stored' \in [Id -> SUBSET Page],
         \A b \in Id : b \notin new => stored'[b] = stored[b],
         users' = users
  PROVE  Tables' /\ Stable
<1> USE DEF Tables, ProjectsOK, Row, Exists, IsBook, HasBook
<1>1. lastId \in Nat /\ lastId' \in Nat /\ lastId <= lastId' /\ Id \subseteq Nat
  BY PackagesAssumption, IdArith
<1>2. \A p \in DOMAIN projects : p \in Nat /\ p <= lastId /\ p \notin new
  BY <1>1
<1>3. Stable
  BY <1>1, <1>2 DEF Stable
<1>4. ProjectsOK'
  BY <1>1, <1>2, PackagesAssumption
<1>5. ASSUME NEW p \in DOMAIN projects'
      PROVE  /\ projects'[p].origin <= lastId'
             /\ projects'[p].origin \in DOMAIN projects' =>
                  projects'[projects'[p].origin].origin = projects'[p].origin
  <2>1. projects'[p].origin \in Nat /\ p \in Nat
    BY <1>1, <1>2
  <2>2. CASE p \in DOMAIN projects
    BY <2>1, <2>2, <1>1, <1>2
  <2>3. CASE p \in new
    BY <2>1, <2>3, <1>1, <1>2
  <2> QED BY <2>2, <2>3
<1>6. ASSUME NEW b \in Id, b > lastId' \/ (b \in DOMAIN projects' /\ projects'[b].origin # b)
      PROVE  stored'[b] = {}
  <2>1. CASE b \in new
    BY <2>1, <1>6, <1>1
  <2>2. CASE b \notin new
    <3>1. b > lastId \/ (Exists(b) /\ ~IsBook(b))
      BY <2>2, <1>6, <1>1
    <3> QED BY <3>1, <2>2
  <2> QED BY <2>1, <2>2
<1> QED BY <1>3, <1>4, <1>5, <1>6

LEMMA RemoveRow ==
  ASSUME Tables, NEW p \in Id,
         projects' = Without(projects, p), rows' = Without(rows, p),
         stored' = [stored EXCEPT ![p] = {}],
         UNCHANGED <<users, lastId>>
  PROVE  Tables' /\ Stable
<1> USE DEF Tables, ProjectsOK, Row, Exists, IsBook, HasBook, Without
<1>1. /\ DOMAIN projects' = DOMAIN projects \ {p}
      /\ \A q \in DOMAIN projects' : projects'[q] = projects[q]
  OBVIOUS
<1>2. Stable
  BY <1>1, PackagesAssumption DEF Stable
<1>3. ProjectsOK'
  BY <1>1
<1> QED BY <1>1, <1>2, <1>3

-----------------------------------------------------------------------------
(* The invariant is inductive. *)

\* The other requests, when request w ends or goes on.
LEMMA OthersStable ==
  ASSUME IInv, Stable, Tables', NEW w \in Worker,
         DOMAIN pc' = Worker, DOMAIN found' = Worker,
         req' \in [Worker -> Requests \cup {NoRequest}],
         \A v \in Worker \ {w} :
           pc'[v] = pc[v] /\ req'[v] = req[v] /\ found'[v] = found[v],
         Local(w)'
  PROVE  IInv'
<1>1. ASSUME NEW v \in Worker, v # w PROVE Local(v)'
  BY <1>1, LocalIsStable DEF IInv
<1> QED BY <1>1 DEF IInv, Served

LEMMA Ends ==
  ASSUME IInv, Stable, Tables', NEW w \in Worker, Done(w)
  PROVE  IInv'
<1> USE DEF Done, Goto, IInv, Served
<1>1. Local(w)'
  BY DEF Local, Uploads, Splits, Assigns, AssignsHome, TakesBack, Deletes,
         DeletesUser, Reassigns
<1>2. \A v \in Worker \ {w} :
        pc'[v] = pc[v] /\ req'[v] = req[v] /\ found'[v] = found[v]
  OBVIOUS
<1>3. req' \in [Worker -> Requests \cup {NoRequest}]
  OBVIOUS
<1> QED BY <1>1, <1>2, <1>3, OthersStable

LEMMA NothingChanges ==
  ASSUME Tables, UNCHANGED tables
  PROVE  Tables' /\ Stable
  BY PackagesAssumption
  DEF tables, Tables, Stable, ProjectsOK, Exists, IsBook, HasBook

LEMMA InitInv == Init => IInv
<1> SUFFICES ASSUME Init PROVE IInv
  OBVIOUS
<1>1. Tables
  BY PackagesAssumption
  DEF Init, Tables, ProjectsOK, Exists, IsBook, HasBook, Id
<1>2. Served
  BY DEF Init, Served
<1>3. \A w \in Worker : Local(w)
  BY DEF Init, Local, Uploads, Splits, Assigns, AssignsHome, TakesBack, Deletes,
         DeletesUser, Reassigns
<1> QED BY <1>1, <1>2, <1>3 DEF IInv

LEMMA AcceptStep ==
  ASSUME IInv, NEW w \in Worker, NEW r \in Requests, Accept(w, r)
  PROVE  IInv'
<1> USE DEF Accept, IInv
<1>1. Tables' /\ Stable
  BY NothingChanges
<1>2. r \in Requests \cup {NoRequest} /\ pc'[w] = Begin(r) /\ req'[w] = r
  BY DEF Goto, Served
<1>3. r.op \notin {"upload", "deleteUser"} =>
        /\ Owner(r) /\ r.id \in Id /\ r.id <= lastId
        /\ projects' = projects /\ lastId' = lastId
  BY PackagesAssumption DEF Requests, Allowed, Owner, Exists, Tables, ProjectsOK, tables
<1>4. r.op = "assign" => ~IsBook(r.id) /\ (r.to = Nobody \/ r.user \in Admin)
  BY DEF Allowed
<1>5. r.op \in {"split", "takeback"} => IsBook(r.id)
  BY DEF Allowed
<1>6. /\ r.op \in {"upload", "split", "assign", "takeback", "delete", "deletePage", "deleteUser"}
      /\ pc'[w] = "insert book" => r.op = "upload"
      /\ pc'[w] = "load pages" => r.op = "split"
      /\ pc'[w] \in {"load owner", "assign"} => r.op = "assign"
      /\ pc'[w] = "assign" => r.to # Nobody
      /\ pc'[w] = "take back" => r.op = "takeback"
      /\ pc'[w] = "load package" => r.op = "delete"
      /\ pc'[w] = "delete page" => r.op = "deletePage"
      /\ pc'[w] = "owns books" => r.op = "deleteUser"
      /\ pc'[w] \notin {"insert packages", "delete project", "read packages", "reassign"}
  <2>1. r.op \in {"upload", "split", "assign", "takeback", "delete", "deletePage", "deleteUser"}
    BY DEF Requests
  <2> QED BY <2>1, <1>2 DEF Begin
<1>8. Local(w)'
  <2> USE DEF Owner, Exists, IsBook
  <2>1. Uploads(w)' /\ DeletesUser(w)' /\ Reassigns(w)'
    BY <1>2, <1>6 DEF Uploads, DeletesUser, Reassigns
  <2>2. Splits(w)' /\ Assigns(w)' /\ TakesBack(w)'
    BY <1>2, <1>3, <1>4, <1>5, <1>6 DEF Splits, Assigns, TakesBack
  <2>3. AssignsHome(w)'
    BY <1>2, <1>6 DEF AssignsHome
  <2>4. Deletes(w)'
    BY <1>2, <1>3, <1>6 DEF Deletes
  <2> QED BY <2>1, <2>2, <2>3, <2>4 DEF Local
<1>7. /\ DOMAIN pc' = Worker /\ DOMAIN found' = Worker
      /\ req' \in [Worker -> Requests \cup {NoRequest}]
      /\ \A v \in Worker \ {w} :
           pc'[v] = pc[v] /\ req'[v] = req[v] /\ found'[v] = found[v]
  BY DEF Goto, Served
<1> QED BY <1>1, <1>7, <1>8, OthersStable


LEMMA GoesOn ==
  ASSUME IInv, NEW w \in Worker, NEW value, NEW place, Reads(w, value, place), Local(w)'
  PROVE  IInv'
<1> USE DEF Reads, Goto, IInv, Served
<1>1. Tables' /\ Stable
  BY NothingChanges
<1>2. /\ DOMAIN pc' = Worker /\ DOMAIN found' = Worker
      /\ req' \in [Worker -> Requests \cup {NoRequest}]
      /\ \A v \in Worker \ {w} :
           pc'[v] = pc[v] /\ req'[v] = req[v] /\ found'[v] = found[v]
  OBVIOUS
<1> QED BY <1>1, <1>2, OthersStable

\* What a handler does that reads.
LEMMA Reading ==
  ASSUME NEW w \in Worker,
         \/ LoadPages(w) \/ LoadOwner(w) \/ LoadPackage(w)
         \/ OwnsBooks(w) \/ ReadPackages(w)
  PROVE  /\ \E value, place : Reads(w, value, place) /\ place # "idle"
         /\ short' = short \/ short' = short \cup {w}
         /\ pc[w] # "idle"
\* It suffices to name the place.
<1>0. ASSUME NEW place, place # "idle", \E value : Reads(w, value, place)
      PROVE  \E value, to : Reads(w, value, to) /\ to # "idle"
  <2>1. PICK value : Reads(w, value, place)
    BY <1>0
  <2> WITNESS value, place
  <2> QED BY <1>0, <2>1
<1>1. CASE LoadPages(w)
  <2>1. pc[w] = "load pages" /\ \E value : Reads(w, value, "insert packages")
    BY <1>1 DEF LoadPages
  <2>2. \E yes : Takes(w, yes)
    BY <1>1 DEF LoadPages
  <2>3. short' = short \/ short' = short \cup {w}
    BY <2>2 DEF Takes
  <2>4. \E value, place : Reads(w, value, place) /\ place # "idle"
    <3>1. "insert packages" # "idle"
      OBVIOUS
    <3> QED BY <1>0, <2>1, <3>1
  <2> QED BY <2>1, <2>3, <2>4
<1>2. CASE LoadOwner(w)
  <2>1. pc[w] = "load owner" /\ short' = short /\ \E value : Reads(w, value, "assign")
    BY <1>2 DEF LoadOwner
  <2>2. \E value, place : Reads(w, value, place) /\ place # "idle"
    <3>1. "assign" # "idle"
      OBVIOUS
    <3> QED BY <1>0, <2>1, <3>1
  <2> QED BY <2>1, <2>2
<1>3. CASE LoadPackage(w)
  <2>1. pc[w] = "load package" /\ short' = short /\ \E value : Reads(w, value, "delete project")
    BY <1>3 DEF LoadPackage
  <2>2. \E value, place : Reads(w, value, place) /\ place # "idle"
    <3>1. "delete project" # "idle"
      OBVIOUS
    <3> QED BY <1>0, <2>1, <3>1
  <2> QED BY <2>1, <2>2
<1>4. CASE OwnsBooks(w)
  <2>1. pc[w] = "owns books" /\ \E value : Reads(w, value, "read packages")
    BY <1>4 DEF OwnsBooks
  <2>2. short' = short \/ short' = short \cup {w}
    BY <1>4 DEF OwnsBooks, Takes
  <2>3. \E value, place : Reads(w, value, place) /\ place # "idle"
    <3>1. "read packages" # "idle"
      OBVIOUS
    <3> QED BY <1>0, <2>1, <3>1
  <2> QED BY <2>1, <2>2, <2>3
<1>5. CASE ReadPackages(w)
  <2>1. pc[w] = "read packages" /\ \E value : Reads(w, value, "reassign")
    BY <1>5 DEF ReadPackages
  <2>2. short' = short \/ short' = short \cup {w}
    BY <1>5 DEF ReadPackages, Takes
  <2>3. \E value, place : Reads(w, value, place) /\ place # "idle"
    <3>1. "reassign" # "idle"
      OBVIOUS
    <3> QED BY <1>0, <2>1, <3>1
  <2> QED BY <2>1, <2>2, <2>3
<1> QED BY <1>1, <1>2, <1>3, <1>4, <1>5

LEMMA ReadingStep ==
  ASSUME IInv, NEW w \in Worker,
         \/ LoadPages(w) \/ LoadOwner(w) \/ LoadPackage(w)
         \/ OwnsBooks(w) \/ ReadPackages(w)
  PROVE  IInv'
<1> USE DEF Reads, Goto, Local, Uploads, Splits, Assigns, AssignsHome, TakesBack, Deletes,
            DeletesUser, Reassigns
<1>1. Local(w) /\ w \in DOMAIN pc /\ w \in DOMAIN found /\ Tables
  BY DEF IInv, Served
<1> HIDE DEF IInv
<1>2. CASE LoadPages(w)
  <2>1. Local(w)'
    BY <1>1, <1>2 DEF LoadPages, tables, Exists, IsBook
  <2>2. \E value, place : Reads(w, value, place)
    BY <1>2, Reading
  <2> QED BY <2>1, <2>2, GoesOn
<1>3. CASE LoadOwner(w)
  <2>1. projects[projects[req[w].id].origin].owner \in User
    BY <1>1, <1>3 DEF LoadOwner, HasBook, Exists, Tables, ProjectsOK, Row
  <2>2. Local(w)'
    BY <1>1, <1>3, <2>1 DEF LoadOwner, tables, Exists, IsBook, HasBook, BookOwner
  <2> QED BY <2>2, <1>3, GoesOn DEF LoadOwner
<1>4. CASE LoadPackage(w)
  <2>1. Local(w)'
    BY <1>1, <1>4 DEF LoadPackage, tables, Exists, IsBook
  <2> QED BY <2>1, <1>4, GoesOn DEF LoadPackage
<1>5. CASE OwnsBooks(w)
  <2>1. Local(w)'
    BY <1>1, <1>5 DEF OwnsBooks
  <2> QED BY <2>1, <1>5, GoesOn DEF OwnsBooks
<1>6. CASE ReadPackages(w)
  <2>1. \A p \in DOMAIN projects : p \in Id /\ p <= lastId /\ projects[p].owner \in User
    BY <1>1, RowTypes
  <2>2. pc'[w] = "reassign" /\ pc[w] = "read packages" /\ req' = req /\ projects' = projects
        /\ lastId' = lastId
    BY <1>1, <1>6 DEF ReadPackages, tables
  <2>3. \A p \in DOMAIN found'[w] :
          /\ p \in DOMAIN projects /\ HasBook(p) /\ ~IsBook(p)
          /\ found'[w][p] = BookOwner(p)
    <3>1. PICK some :
            /\ \A p \in some :
                 /\ p \in DOMAIN projects /\ HasBook(p)
                 /\ projects[p].owner = req[w].uid /\ BookOwner(p) # req[w].uid
            /\ found' = [found EXCEPT ![w] = [p \in some |-> BookOwner(p)]]
      BY <1>6 DEF ReadPackages, BookOwner
    <3>2. found'[w] = [p \in some |-> BookOwner(p)]
      BY <1>1, <3>1
    <3>3. \A p \in some : ~IsBook(p)
      BY <3>1 DEF IsBook, BookOwner
    <3> QED BY <3>1, <3>2, <3>3
  <2>4. Reassigns(w)'
    BY <2>1, <2>2, <2>3 DEF Exists, HasBook, IsBook, BookOwner
  <2>5. Local(w)'
    BY <2>2, <2>4, <1>1
  <2> QED BY <2>5, <1>6, GoesOn DEF ReadPackages
<1> QED BY <1>2, <1>3, <1>4, <1>5, <1>6

LEMMA InsertBookStep ==
  ASSUME IInv, NEW w \in Worker, InsertBook(w)
  PROVE  Tables' /\ Stable
<1> DEFINE b == lastId + 1
<1>1. Tables /\ lastId \in Nat /\ req[w].op = "upload"
  <2>1. pc[w] = "insert book"
    BY DEF InsertBook
  <2> QED BY <2>1, RowTypes DEF IInv, Local, Uploads
<1>2. req[w].user \in User /\ req[w].size \in Sizes
  BY <1>1, RequestTypes DEF IInv, Served
<1>3. b \in Id /\ b \notin DOMAIN projects /\ lastId' = b /\ b <= MaxId /\ DOMAIN rows = DOMAIN projects
  <2>1. lastId' = b /\ b <= MaxBook
    BY DEF InsertBook
  <2>2. MaxBook \in Nat /\ MaxBook <= MaxId
    BY PackagesAssumption
  <2> QED BY <2>1, <2>2, <1>1, RowTypes DEF Id
<1>4. projects' = [p \in DOMAIN projects \cup {b} |->
                     IF p \in {b} THEN [origin |-> b, owner |-> req[w].user] ELSE projects[p]]
  BY DEF InsertBook, Extended
<1>5. projects' \in [DOMAIN projects \cup {b} -> Row]
  BY <1>1, <1>2, <1>3, <1>4 DEF Row, Tables, ProjectsOK
<1>6. DOMAIN rows' = DOMAIN rows \cup {b}
  BY DEF InsertBook, Extended
<1>7. 1..req[w].size \subseteq Page
  <2>1. req[w].size \in 1..MaxPages /\ MaxPages \in Nat
    BY <1>2, PackagesAssumption
  <2> QED BY <2>1 DEF Page
<1>8. stored' \in [Id -> SUBSET Page] /\ \A c \in Id : c # b => stored'[c] = stored[c]
  BY <1>1, <1>7 DEF InsertBook, Tables, ProjectsOK
<1>9. {b} = lastId + 1 .. lastId + 1
  BY <1>1
<1>10. users' = users /\ lastId' <= MaxId /\ lastId' = lastId + 1
  BY <1>3 DEF InsertBook
<1>11. \A p \in DOMAIN projects : projects'[p] = projects[p]
  BY <1>3, <1>4
<1>12. \A p \in {b} : projects'[p].origin = p
  BY <1>4
<1> HIDE DEF b
<1> QED BY <1>1, <1>5, <1>6, <1>8, <1>9, <1>10, <1>11, <1>12, InsertRows

LEMMA InsertPackagesStep ==
  ASSUME IInv, NEW w \in Worker, InsertPackages(w)
  PROVE  Tables' /\ Stable
<1> DEFINE n == Len(req[w].to)
           new == lastId + 1 .. lastId + n
<1>1. /\ Tables /\ lastId \in Nat /\ req[w].op = "split" /\ req[w].id <= lastId
      /\ Exists(req[w].id) => IsBook(req[w].id)
  <2>1. pc[w] = "insert packages"
    BY DEF InsertPackages
  <2> QED BY <2>1, RowTypes DEF IInv, Local, Splits
<1>2. req[w].id \in Id /\ req[w].to \in Seq(User)
  BY <1>1, RequestTypes DEF IInv, Served
<1>3. n \in Nat /\ lastId' = lastId + n /\ lastId' <= MaxId /\ users' = users /\ stored' = stored
  <2>1. lastId' = lastId + n /\ lastId' <= MaxId /\ users' = users /\ stored' = stored
    BY DEF InsertPackages
  <2>2. n \in Nat
    BY <1>2
  <2> QED BY <2>1, <2>2
<1>4. projects' = [p \in DOMAIN projects \cup new |->
                     IF p \in new THEN [origin |-> req[w].id, owner |-> req[w].to[p - lastId]]
                                  ELSE projects[p]]
  BY DEF InsertPackages, Extended
<1>5. DOMAIN rows' = DOMAIN rows \cup new
  BY DEF InsertPackages, Extended
<1>6. \A p \in new : p \in Nat /\ p > lastId /\ p \in Id /\ req[w].to[p - lastId] \in User
  <2> SUFFICES ASSUME NEW p \in new
               PROVE  p \in Nat /\ p > lastId /\ p \in Id /\ req[w].to[p - lastId] \in User
    OBVIOUS
  <2>1. p \in Int /\ p >= lastId + 1 /\ p <= lastId + n
    BY <1>1, <1>3
  <2>2. p - lastId \in 1..n
    BY <2>1, <1>1, <1>3
  <2>3. p \in Id
    BY <2>1, <1>1, <1>3, PackagesAssumption DEF Id
  <2> QED BY <2>1, <2>2, <2>3, <1>1, <1>2
<1>7. projects' \in [DOMAIN projects \cup new -> Row]
  <2>1. \A p \in DOMAIN projects : projects[p] \in Row
    BY <1>1 DEF Tables, ProjectsOK
  <2>2. \A p \in new : [origin |-> req[w].id, owner |-> req[w].to[p - lastId]] \in Row
    BY <1>2, <1>6 DEF Row
  <2> HIDE DEF new
  <2> QED BY <1>4, <2>1, <2>2
<1>8. \A p \in DOMAIN projects : p \notin new /\ projects'[p] = projects[p]
  <2>1. \A p \in DOMAIN projects : p <= lastId /\ p \in Nat
    BY <1>1 DEF Tables, ProjectsOK
  <2> HIDE DEF new
  <2> QED BY <2>1, <1>1, <1>4, <1>6
<1>9. \A p \in new :
        /\ projects'[p].origin = req[w].id
        /\ stored'[p] = {}
  BY <1>1, <1>3, <1>4, <1>6 DEF Tables
<1>10. stored' \in [Id -> SUBSET Page]
  BY <1>1, <1>3 DEF Tables, ProjectsOK
<1>11. new = lastId + 1 .. lastId + n
  OBVIOUS
<1> HIDE DEF new, n
<1> QED BY <1>1, <1>3, <1>5, <1>7, <1>8, <1>9, <1>10, <1>11, InsertRows


-----------------------------------------------------------------------------
(* The steps that write the owner of a row. *)

LEMMA AssignStep ==
  ASSUME IInv, NEW w \in Worker, Assign(w)
  PROVE  Tables' /\ Stable /\ GoHome
<1> DEFINE p == req[w].id
           u == IF req[w].to = Nobody THEN found[w][1] ELSE req[w].to
<1>1. /\ Tables /\ Assigns(w) /\ AssignsHome(w) /\ pc[w] = "assign" /\ SetOwner({p}, u)
      /\ UNCHANGED <<users, rows, stored, lastId>>
  BY DEF IInv, Local, Assign
<1>2. req[w].op = "assign" /\ (Exists(p) => ~IsBook(p))
  BY <1>1 DEF Assigns
<1>3. req[w].to \in User \cup {Nobody}
  BY <1>2, RequestTypes DEF IInv, Served
<1>4. u \in User
  BY <1>1, <1>3 DEF AssignsHome
<1>5. /\ DOMAIN projects' = DOMAIN projects
      /\ \A q \in DOMAIN projects : q # p => projects'[q] = projects[q]
      /\ Exists(p) => projects'[p].owner = u
  BY <1>1, RowTypes DEF SetOwner, Exists, Tables, ProjectsOK, Row
<1>6. Exists(p) =>
        \/ ~HasBook(p)
        \/ u = projects[projects[p].origin].owner
        \/ Assigned(p, u)
  <2>1. CASE req[w].to = Nobody
    BY <2>1, <1>1 DEF AssignsHome, BookOwner
  <2>2. CASE req[w].to # Nobody
    BY <2>2, <1>1, <1>2 DEF Assigns, Assigned
  <2> QED BY <2>1, <2>2
<1>7. GoHome
  <2> HIDE DEF p, u
  <2> QED BY <1>2, <1>5, <1>6 DEF GoHome, Exists
<1>8. \A q \in {p} \cap DOMAIN projects : IsBook(q) => projects[q].owner = u
  BY <1>2 DEF Exists
<1> HIDE DEF p, u
<1> QED BY <1>1, <1>4, <1>7, <1>8, ChangeOwners

LEMMA TakeBackStep ==
  ASSUME IInv, NEW w \in Worker, TakeBack(w)
  PROVE  Tables' /\ Stable /\ GoHome
<1> DEFINE b == req[w].id
           u == req[w].user
           S == {p \in DOMAIN projects : projects[p].origin = b}
<1>1. /\ Tables /\ TakesBack(w) /\ pc[w] = "take back" /\ SetOwner(S, u)
      /\ UNCHANGED <<users, rows, stored, lastId>>
  BY DEF IInv, Local, TakeBack
<1>2. req[w].op = "takeback" /\ (Exists(b) => IsBook(b) /\ projects[b].owner = u)
  BY <1>1 DEF TakesBack
<1>3. u \in User
  BY <1>2, RequestTypes DEF IInv, Served
<1>4. /\ DOMAIN projects' = DOMAIN projects
      /\ \A p \in DOMAIN projects : p \notin S => projects'[p] = projects[p]
      /\ \A p \in S : projects'[p].owner = u
  BY <1>1, RowTypes DEF SetOwner, Tables, ProjectsOK, Row
<1>5. \A p \in S : IsBook(p) => projects[p].owner = u
  BY <1>2 DEF IsBook, Exists
<1>6. \A p \in S : HasBook(p) => projects[projects[p].origin].owner = u
  BY <1>2 DEF HasBook
<1>7. GoHome
  <2> HIDE DEF S, u
  <2> QED BY <1>4, <1>5, <1>6 DEF GoHome
<1>8. S \cap DOMAIN projects = S
  OBVIOUS
<1> HIDE DEF S, u
<1> QED BY <1>1, <1>3, <1>5, <1>7, <1>8, ChangeOwners

LEMMA ReassignStep ==
  ASSUME IInv, NEW w \in Worker, Reassign(w)
  PROVE  IInv' /\ Stable /\ GoHome
<1>1. PICK p \in DOMAIN found[w] :
        /\ SetOwner({p}, found[w][p])
        /\ found' = [found EXCEPT ![w] = Without(@, p)]
  BY DEF Reassign
<1>2. /\ Tables /\ Reassigns(w) /\ Local(w) /\ pc[w] = "reassign"
      /\ UNCHANGED <<users, rows, stored, lastId, req, pc>>
  BY DEF IInv, Local, Reassign
<1>3. /\ found[w][p] \in User
      /\ Exists(p) => ~IsBook(p)
      /\ Exists(p) /\ HasBook(p) => found[w][p] = BookOwner(p)
  BY <1>2 DEF Reassigns
<1>4. /\ DOMAIN projects' = DOMAIN projects
      /\ \A q \in DOMAIN projects : q # p => projects'[q] = projects[q]
      /\ Exists(p) => projects'[p].owner = found[w][p]
  BY <1>1, <1>2, RowTypes DEF SetOwner, Exists, Tables, ProjectsOK, Row
<1>5. GoHome
  BY <1>3, <1>4 DEF GoHome, Exists, BookOwner
<1>6. \A q \in {p} \cap DOMAIN projects : IsBook(q) => projects[q].owner = found[w][p]
  BY <1>3 DEF Exists
<1>7. Tables' /\ Stable
  BY <1>1, <1>2, <1>3, <1>6, ChangeOwners
<1>8. Local(w)'
  <2>1. \A q \in DOMAIN found'[w] : q \in DOMAIN found[w] /\ found'[w][q] = found[w][q]
    BY <1>1 DEF Without, IInv, Served
  <2>2. \A q \in DOMAIN found[w] :
          /\ found[w][q] \in User /\ q \in Id /\ q <= lastId
          /\ Exists(q) => ~IsBook(q)
          /\ Exists(q) /\ HasBook(q) => found[w][q] = BookOwner(q)
    BY <1>2 DEF Reassigns
  <2>3. \A q \in DOMAIN projects :
          /\ projects'[q].origin = projects[q].origin
          /\ IsBook(q) => projects'[q].owner = projects[q].owner
    BY <1>2, <1>4, <1>7, RowTypes DEF Stable
  <2>4. \A q \in DOMAIN projects : HasBook(q) => IsBook(projects[q].origin)
    BY <1>2 DEF Tables
  <2>5. Reassigns(w)'
    BY <1>2, <1>4, <2>1, <2>2, <2>3, <2>4
    DEF Reassigns, Exists, IsBook, HasBook, BookOwner
  <2>6. DeletesUser(w)'
    BY <1>2 DEF Local, DeletesUser
  <2> QED
    BY <1>2, <2>5, <2>6 DEF Local, Uploads, Splits, Assigns, AssignsHome, TakesBack, Deletes
<1>9. /\ DOMAIN pc' = Worker /\ DOMAIN found' = Worker
      /\ req' \in [Worker -> Requests \cup {NoRequest}]
      /\ \A v \in Worker \ {w} :
           pc'[v] = pc[v] /\ req'[v] = req[v] /\ found'[v] = found[v]
  BY <1>1, <1>2 DEF IInv, Served
<1> QED BY <1>5, <1>7, <1>8, <1>9, OthersStable

-----------------------------------------------------------------------------
(* The steps that delete. *)

LEMMA DeleteProjectStep ==
  ASSUME IInv, NEW w \in Worker, DeleteProject(w)
  PROVE  Tables' /\ Stable /\ GoHome /\ OwnerDeletes
<1> DEFINE p == req[w].id
<1>1. /\ Tables /\ Deletes(w) /\ pc[w] = "delete project"
      /\ projects' = Without(projects, p) /\ rows' = Without(rows, p)
      /\ stored' = [stored EXCEPT ![p] = {}]
      /\ UNCHANGED <<users, lastId>>
  BY DEF IInv, Local, DeleteProject
<1>2. /\ req[w].op = "delete"
      /\ Exists(p) /\ IsBook(p) => projects[p].owner = req[w].user
  BY <1>1 DEF Deletes
<1>3. p \in Id
  BY <1>2, RequestTypes DEF IInv, Served
<1>4. Tables' /\ Stable
  BY <1>1, <1>3, RemoveRow
<1>5. GoHome
  BY <1>1 DEF GoHome, Without
<1>6. OwnerDeletes
  <2> SUFFICES ASSUME NEW b \in Id, ~(stored[b] \subseteq stored'[b])
               PROVE  \E v \in Worker :
                        /\ req[v].op \in {"delete", "deletePage"} /\ req[v].id = b
                        /\ Exists(b) => projects[b].owner = req[v].user
    BY DEF OwnerDeletes
  <2>1. b = p /\ stored[b] # {}
    BY <1>1 DEF Tables, ProjectsOK
  <2>2. Exists(b) => IsBook(b)
    BY <1>1, <2>1 DEF Tables
  <2> QED BY <2>1, <2>2, <1>2
<1> QED BY <1>4, <1>5, <1>6

LEMMA DeletePageStep ==
  ASSUME IInv, NEW w \in Worker, DeletePage(w)
  PROVE  Tables' /\ Stable /\ GoHome /\ OwnerDeletes
<1> DEFINE p == req[w].id
           g == req[w].page
<1>1. /\ Tables /\ Deletes(w) /\ pc[w] = "delete page"
      /\ stored' = [stored EXCEPT ![p] = @ \ {g}]
      /\ rows' = IF Exists(p) THEN [rows EXCEPT ![p] = Without(@, g)] ELSE rows
      /\ UNCHANGED <<users, projects, lastId>>
  BY DEF IInv, Local, DeletePage
<1>2. /\ req[w].op = "deletePage"
      /\ Exists(p) /\ IsBook(p) => projects[p].owner = req[w].user
  BY <1>1 DEF Deletes
<1>3. p \in Id
  BY <1>2, RequestTypes DEF IInv, Served
<1>4. /\ DOMAIN rows' = DOMAIN rows
      /\ stored' \in [Id -> SUBSET Page]
      /\ \A b \in Id : stored'[b] \subseteq stored[b] /\ (b # p => stored'[b] = stored[b])
  BY <1>1, <1>3 DEF Tables, ProjectsOK
<1>5. Tables'
  BY <1>1, <1>4 DEF Tables, ProjectsOK, Exists, IsBook, HasBook
<1>6. Stable
  <2>1. lastId \in Nat /\ lastId' = lastId /\ projects' = projects
    BY <1>1, RowTypes
  <2> QED BY <2>1 DEF Stable
<1>7. GoHome
  BY <1>1 DEF GoHome
<1>8. OwnerDeletes
  <2> SUFFICES ASSUME NEW b \in Id, ~(stored[b] \subseteq stored'[b])
               PROVE  \E v \in Worker :
                        /\ req[v].op \in {"delete", "deletePage"} /\ req[v].id = b
                        /\ Exists(b) => projects[b].owner = req[v].user
    BY DEF OwnerDeletes
  <2>1. b = p /\ stored[b] # {}
    BY <1>4
  <2>2. Exists(b) => IsBook(b)
    BY <1>1, <2>1 DEF Tables
  <2> QED BY <2>1, <2>2, <1>2
<1> QED BY <1>5, <1>6, <1>7, <1>8


-----------------------------------------------------------------------------
(* Every step. *)

LEMMA OtherStep ==
  ASSUME \A p \in DOMAIN projects \cap DOMAIN projects' : projects'[p] = projects[p],
         \A b \in Id : stored[b] \subseteq stored'[b]
  PROVE  GoHome /\ OwnerDeletes
  BY DEF GoHome, OwnerDeletes

LEMMA SameTables ==
  ASSUME projects' = projects, stored' = stored
  PROVE  GoHome /\ OwnerDeletes
  BY DEF GoHome, OwnerDeletes

\* Only DeleteProject and DeletePage, treated above, take pages away.
LEMMA SameStored ==
  ASSUME stored' = stored
  PROVE  OwnerDeletes
  BY DEF OwnerDeletes

LEMMA HandlerStep ==
  ASSUME IInv, NEW w \in Worker, Handler(w)
  PROVE  IInv' /\ GoHome /\ OwnerDeletes
<1>1. CASE InsertBook(w)
  <2>1. IInv'
    BY <1>1, InsertBookStep, Ends DEF InsertBook
  <2>2. Tables /\ lastId + 1 \notin DOMAIN projects /\ lastId \in Nat
    BY RowTypes DEF IInv, Tables, ProjectsOK
  <2>3. projects' = [p \in DOMAIN projects \cup {lastId + 1} |->
                       IF p \in {lastId + 1}
                         THEN [origin |-> lastId + 1, owner |-> req[w].user]
                         ELSE projects[p]]
    BY <1>1 DEF InsertBook, Extended
  <2>4. stored' = [stored EXCEPT ![lastId + 1] = 1..req[w].size]
    BY <1>1 DEF InsertBook
  <2>5. stored \in [Id -> SUBSET Page] /\ \A b \in Id : b > lastId => stored[b] = {}
    BY <2>2 DEF Tables, ProjectsOK
  <2>6. \A b \in Id : stored[b] \subseteq stored'[b]
    BY <2>2, <2>4, <2>5 DEF Id
  <2>7. \A p \in DOMAIN projects : projects'[p] = projects[p]
    BY <2>2, <2>3
  <2> QED BY <2>1, <2>6, <2>7, OtherStep
<1>2. CASE InsertPackages(w)
  <2>1. IInv'
    BY <1>2, InsertPackagesStep, Ends DEF InsertPackages
  <2>2. lastId \in Nat /\ \A p \in DOMAIN projects : p \in Nat /\ p <= lastId
    BY RowTypes, IdArith DEF IInv
  <2>3. \A p \in DOMAIN projects : projects'[p] = projects[p]
    <3>1. projects' = [p \in DOMAIN projects \cup (lastId + 1 .. lastId + Len(req[w].to)) |->
                         IF p \in lastId + 1 .. lastId + Len(req[w].to)
                           THEN [origin |-> req[w].id, owner |-> req[w].to[p - lastId]]
                           ELSE projects[p]]
      BY <1>2 DEF InsertPackages, Extended
    <3> QED BY <3>1, <2>2
  <2>4. stored' = stored
    BY <1>2 DEF InsertPackages
  <2> QED BY <2>1, <2>3, <2>4, OtherStep
<1>3. CASE LoadPages(w) \/ LoadOwner(w) \/ LoadPackage(w) \/ OwnsBooks(w) \/ ReadPackages(w)
  <2>1. projects' = projects /\ stored' = stored
    BY <1>3 DEF LoadPages, LoadOwner, LoadPackage, OwnsBooks, ReadPackages, Reads, tables
  <2> QED BY <1>3, <2>1, ReadingStep, SameTables
<1>4. CASE Assign(w)
  <2>1. stored' = stored /\ Done(w)
    BY <1>4 DEF Assign
  <2> QED BY <1>4, <2>1, AssignStep, Ends, SameStored
<1>5. CASE TakeBack(w)
  <2>1. stored' = stored /\ Done(w)
    BY <1>5 DEF TakeBack
  <2> QED BY <1>5, <2>1, TakeBackStep, Ends, SameStored
<1>6. CASE Reassign(w)
  <2>1. stored' = stored
    BY <1>6 DEF Reassign
  <2> QED BY <1>6, <2>1, ReassignStep, SameStored
<1>7. CASE DeleteProject(w)
  BY <1>7, DeleteProjectStep, Ends DEF DeleteProject
<1>8. CASE DeletePage(w)
  BY <1>8, DeletePageStep, Ends DEF DeletePage
<1>9. CASE DeleteUser(w)
  <2>1. Done(w) /\ UNCHANGED <<projects, rows, stored, lastId>> /\ users' \subseteq users
    BY <1>9 DEF DeleteUser
  <2>2. Tables' /\ Stable
    BY <2>1, RowTypes
    DEF IInv, Tables, ProjectsOK, Stable, Exists, IsBook, HasBook
  <2> QED BY <2>1, <2>2, Ends, SameTables
<1> QED
  BY <1>1, <1>2, <1>3, <1>4, <1>5, <1>6, <1>7, <1>8, <1>9 DEF Handler

(* A handler changes its own state only. *)
LEMMA OthersWait ==
  ASSUME NEW w \in Worker, Handler(w)
  PROVE  \A v \in Worker \ {w} :
           /\ pc'[v] = pc[v] /\ req'[v] = req[v] /\ found'[v] = found[v]
           /\ v \in short => v \in short'
<1>1. CASE LoadPages(w) \/ LoadOwner(w) \/ LoadPackage(w) \/ OwnsBooks(w) \/ ReadPackages(w)
  <2>1. \E value, place : Reads(w, value, place)
    BY <1>1, Reading
  <2>2. short \subseteq short'
    BY <1>1, Reading
  <2> QED BY <2>1, <2>2 DEF Reads, Goto
<1>2. CASE Reassign(w)
  BY <1>2 DEF Reassign
<1>3. CASE Done(w)
  BY <1>3 DEF Done, Goto
<1>4. \/ LoadPages(w) \/ LoadOwner(w) \/ LoadPackage(w) \/ OwnsBooks(w) \/ ReadPackages(w)
      \/ Reassign(w) \/ Done(w)
  BY DEF Handler, InsertBook, InsertPackages, Assign, TakeBack, DeleteProject, DeletePage,
         DeleteUser
<1> QED BY <1>1, <1>2, <1>3, <1>4

LEMMA NextStep == IInv /\ [Next]_vars => IInv' /\ GoHome /\ OwnerDeletes
<1> SUFFICES ASSUME IInv, [Next]_vars PROVE IInv' /\ GoHome /\ OwnerDeletes
  OBVIOUS
<1>1. ASSUME NEW w \in Worker, NEW r \in Requests, Accept(w, r)
      PROVE  IInv' /\ GoHome /\ OwnerDeletes
  <2>1. projects' = projects /\ stored' = stored
    BY <1>1 DEF Accept, tables
  <2> QED BY <1>1, <2>1, AcceptStep, SameTables
<1>2. ASSUME NEW w \in Worker, Handler(w) PROVE IInv' /\ GoHome /\ OwnerDeletes
  BY <1>2, HandlerStep
<1>3. ASSUME NEW w \in Worker, Fail(w) PROVE IInv' /\ GoHome /\ OwnerDeletes
  <2>1. Done(w) /\ UNCHANGED tables
    BY <1>3 DEF Fail
  <2>2. Tables' /\ Stable
    BY <2>1, NothingChanges DEF IInv
  <2>3. projects' = projects /\ stored' = stored
    BY <2>1 DEF tables
  <2> QED BY <2>1, <2>2, <2>3, Ends, SameTables
<1>4. CASE UNCHANGED vars
  <2>1. UNCHANGED <<projects, stored>>
    BY <1>4 DEF vars, tables
  <2>2. IInv'
    BY <1>4
    DEF vars, tables, IInv, Tables, ProjectsOK, Served, Local, Uploads, Splits, Assigns,
        AssignsHome, TakesBack, Deletes, DeletesUser, Reassigns, Exists, IsBook, HasBook,
        BookOwner
  <2> QED BY <2>1, <2>2, SameTables
<1> QED BY <1>1, <1>2, <1>3, <1>4 DEF Next

-----------------------------------------------------------------------------
(* The pages of books and packages.                                        *)

(* The links of one project: its pages, each with its neighbours. *)
GoodRow(row) ==
  /\ row \in [DOMAIN row -> Link] /\ DOMAIN row \subseteq Page
  /\ \A g, h \in DOMAIN row :
       g < h => /\ g < row[g].next /\ row[g].next <= h
                /\ g <= row[h].prev /\ row[h].prev < h

GoodRows == \A p \in DOMAIN rows : GoodRow(rows[p])

(* What a split has read: pages in order, all that the book still has, or  *)
(* the first of them when the reading was cut off.  (Pages are deleted     *)
(* meanwhile, but never added.)                                            *)
Loaded(w) ==
  pc[w] = "insert packages" =>
    /\ found[w] \in Seq(Page) /\ Increasing(found[w])
    /\ Exists(req[w].id) =>
         \A g \in DOMAIN rows[req[w].id] \ PagesOf(found[w]) :
           w \in short /\ \A h \in PagesOf(found[w]) : h < g

PagesInv == GoodRows /\ \A w \in Worker : Loaded(w)

\* No project gets pages it did not have when it was made.
RowsShrink ==
  \A p \in DOMAIN rows' :
    p <= lastId => p \in DOMAIN rows /\ DOMAIN rows'[p] \subseteq DOMAIN rows[p]

LEMMA GoodChain ==
  ASSUME NEW s \in Seq(Page), Increasing(s)
  PROVE  GoodRow(Chain(s)) /\ DOMAIN Chain(s) = PagesOf(s)
<1>1. Page \in SUBSET Int
  BY PackagesAssumption DEF Page
<1>2. /\ DOMAIN Chain(s) = PagesOf(s) /\ PagesOf(s) \subseteq Page
      /\ Chain(s) \in [PagesOf(s) -> [prev : Page, next : Page]]
      /\ \A g, h \in PagesOf(s) :
           g < h => /\ g < Chain(s)[g].next /\ Chain(s)[g].next <= h
                    /\ g <= Chain(s)[h].prev /\ Chain(s)[h].prev < h
  BY <1>1, ChainLinks
<1> QED BY <1>2 DEF GoodRow, Link

LEMMA GoodWithout ==
  ASSUME NEW row, GoodRow(row), NEW g
  PROVE  GoodRow(Without(row, g)) /\ DOMAIN Without(row, g) \subseteq DOMAIN row
BY DEF GoodRow, Without

LEMMA SameRows == GoodRows /\ rows' = rows => GoodRows' /\ RowsShrink
BY DEF GoodRows, GoodRow, RowsShrink

LEMMA PagesFinite ==
  Page \in SUBSET Nat /\ \A S \in SUBSET Page : IsFiniteSet(S) /\ S \in SUBSET Int
<1>1. Page = 1..MaxPages /\ MaxPages \in Nat
  BY PackagesAssumption DEF Page
<1>2. IsFiniteSet(Page)
  BY <1>1, FS_Interval
<1>3. Page \subseteq Nat /\ Nat \subseteq Int
  BY <1>1
<1>4. ASSUME NEW S \in SUBSET Page PROVE IsFiniteSet(S)
  BY <1>2, <1>4, FS_Subset
<1> QED BY <1>3, <1>4

(* The order in which the pages of a split are dealt: those it has read,   *)
(* shuffled (rand.Shuffle) or as they are.                                 *)
Dealing(w, order) ==
  /\ order \in Seq(Page) /\ Distinct(order)
  /\ PagesOf(order) = PagesOf(found[w])
  /\ req[w].random \/ Increasing(order)

LEMMA DealingIs ==
  ASSUME NEW w \in Worker, found[w] \in Seq(Page), Increasing(found[w]),
         NEW order \in IF req[w].random THEN Orders(PagesOf(found[w])) ELSE {found[w]}
  PROVE  Dealing(w, order)
<1>1. PICK S : S = PagesOf(found[w])
  OBVIOUS
<1>2. DOMAIN found[w] = 1..Len(found[w]) /\ Len(found[w]) \in Nat
  BY LenProperties
<1>3. S \subseteq Page
  <2>1. \A i \in DOMAIN found[w] : found[w][i] \in Page
    BY <1>2, ElementOfSeq
  <2> QED BY <1>1, <2>1 DEF PagesOf
<1>4. CASE req[w].random
  <2>1. order \in Orders(S) /\ IsFiniteSet(S)
    BY <1>1, <1>3, <1>4, PagesFinite
  <2>2. order \in Seq(S) /\ PagesOf(order) = S /\ Distinct(order)
    BY <2>1, OrdersCover DEF Distinct
  <2>3. order \in Seq(Page)
    BY <1>3, <2>2, SeqMonotonic
  <2> QED BY <1>1, <1>4, <2>2, <2>3 DEF Dealing
<1>5. CASE ~req[w].random
  <2>1. order = found[w]
    BY <1>5
  <2>2. Distinct(found[w])
    <3>2. Page \subseteq Int
      BY PagesFinite
    <3>1. \A i \in DOMAIN found[w] : i \in Int /\ found[w][i] \in Int
      <4>1. found[w] \in [1..Len(found[w]) -> Page]
        BY LenProperties
      <4>2. \A i \in DOMAIN found[w] : found[w][i] \in Page
        BY <4>1
      <4>3. \A i \in 1..Len(found[w]) : i \in Int
        BY <1>2
      <4> QED BY <1>2, <3>2, <4>2, <4>3
    <3> QED BY <3>1 DEF Distinct, Increasing
  <2> QED BY <2>1, <2>2 DEF Dealing
<1> QED BY <1>4, <1>5

(* What a split inserts: as many packages as it names users, each with its *)
(* share of the pages.                                                     *)
Inserts(w, order, n) ==
  /\ n = Len(req[w].to) /\ n \in Nat \ {0}
  /\ Dealing(w, order)
  /\ req[w].random \in BOOLEAN
  /\ lastId \in Nat
  /\ DOMAIN projects' = DOMAIN projects \cup (lastId + 1 .. lastId + n)
  /\ DOMAIN rows' = DOMAIN rows \cup (lastId + 1 .. lastId + n)
  /\ \A p \in DOMAIN rows : p \in Nat /\ p <= lastId /\ rows'[p] = rows[p]
  /\ \A i \in 1..n :
       /\ projects'[lastId + i].origin = req[w].id
       /\ rows'[lastId + i] = Chain(Share(order, n, i, req[w].random))

LEMMA InsertsIs ==
  ASSUME IInv, NEW w \in Worker, Loaded(w), InsertPackages(w)
  PROVE  \E order, n : Inserts(w, order, n)
<1> DEFINE n == Len(req[w].to)
           new == lastId + 1 .. lastId + n
<1>1. /\ pc[w] = "insert packages" /\ Splits(w) /\ Tables
      /\ req[w] \in Requests \cup {NoRequest}
  BY DEF InsertPackages, IInv, Local, Served
<1>2. req[w].op = "split" /\ req[w].random \in BOOLEAN /\ req[w].to \in Seq(User) \ {<<>>}
  BY <1>1, RequestTypes DEF Splits
<1>3. n \in Nat \ {0}
  BY <1>2
<1>4. lastId \in Nat /\ DOMAIN rows = DOMAIN projects /\ \A p \in DOMAIN rows : p \in Nat /\ p <= lastId
  BY <1>1, RowTypes, IdArith
<1>5. PICK order \in IF req[w].random THEN Orders(PagesOf(found[w])) ELSE {found[w]} :
        /\ projects' = [p \in DOMAIN projects \cup new |->
             IF p \in new THEN [origin |-> req[w].id, owner |-> req[w].to[p - lastId]]
                          ELSE projects[p]]
        /\ rows' = [p \in DOMAIN rows \cup new |->
             IF p \in new THEN Chain(Share(order, n, p - lastId, req[w].random)) ELSE rows[p]]
  BY DEF InsertPackages, Extended
<1>6. Dealing(w, order)
  BY <1>1, <1>5, DealingIs DEF Loaded
<1>7. ASSUME NEW i \in 1..n
      PROVE  /\ projects'[lastId + i].origin = req[w].id
             /\ rows'[lastId + i] = Chain(Share(order, n, i, req[w].random))
  <2>1. lastId + i \in new /\ (lastId + i) - lastId = i
    BY <1>3, <1>4
  <2> HIDE DEF new, n
  <2> QED BY <1>5, <2>1
<1>8. \A p \in DOMAIN rows : p \notin new
  BY <1>3, <1>4
<1>9. \A p \in DOMAIN rows : p \in Nat /\ p <= lastId /\ rows'[p] = rows[p]
  BY <1>4, <1>5, <1>8
<1>10. DOMAIN projects' = DOMAIN projects \cup new /\ DOMAIN rows' = DOMAIN rows \cup new
  BY <1>5
<1> HIDE DEF n
<1>11. Inserts(w, order, n)
  BY <1>2, <1>3, <1>4, <1>6, <1>7, <1>9, <1>10 DEF Inserts, n
<1> QED BY <1>11

(* The rows of the new packages. *)
LEMMA InsertedRows ==
  ASSUME NEW w \in Worker, NEW order, NEW n, Inserts(w, order, n), NEW i \in 1..n
  PROVE  /\ GoodRow(rows'[lastId + i])
         /\ DOMAIN rows'[lastId + i] = PagesOf(Share(order, n, i, req[w].random))
<1>1. PICK random : random = req[w].random
  OBVIOUS
<1>2. PICK share : share = Share(order, n, i, random)
  OBVIOUS
<1>3. /\ n \in Nat \ {0} /\ order \in Seq(Page) /\ random \in BOOLEAN
      /\ random \/ Increasing(order)
      /\ rows'[lastId + i] = Chain(share)
  BY <1>1, <1>2 DEF Inserts, Dealing
<1>4. share \in Seq(Page) /\ Increasing(share)
  BY <1>2, <1>3, ShareIs, PagesFinite
<1> QED BY <1>1, <1>2, <1>3, <1>4, GoodChain

LEMMA RowsStep ==
  ASSUME IInv, NEW w \in Worker, GoodRows, Loaded(w), Handler(w)
  PROVE  GoodRows' /\ RowsShrink
<1>1. CASE InsertBook(w)
  <2> DEFINE b == lastId + 1
             pages == [i \in 1..req[w].size |-> i]
  <2>1. /\ Tables /\ lastId \in Nat /\ DOMAIN rows = DOMAIN projects
        /\ \A p \in DOMAIN rows : p \in Nat /\ p <= lastId
    BY RowTypes, IdArith DEF IInv
  <2>2. req[w].size \in 1..MaxPages /\ MaxPages \in Nat
    <3>1. req[w].op = "upload" /\ req[w] \in Requests \cup {NoRequest}
      BY <1>1 DEF InsertBook, IInv, Local, Uploads, Served
    <3> QED BY <3>1, RequestTypes, PackagesAssumption
  <2>3. rows' = [p \in DOMAIN rows \cup {b} |-> IF p \in {b} THEN Chain(pages) ELSE rows[p]]
    BY <1>1 DEF InsertBook, Extended
  <2>4. pages \in Seq(Page) /\ Increasing(pages)
    <3>1. pages \in [1..req[w].size -> Page]
      BY <2>2 DEF Page
    <3>2. pages \in Seq(Page)
      BY <2>2, <3>1, SeqDef
    <3> QED BY <3>2 DEF Increasing
  <2>5. GoodRow(Chain(pages))
    BY <2>4, GoodChain
  <2>6. \A p \in DOMAIN rows : p # b
    BY <2>1
  <2>7. ~(b <= lastId)
    BY <2>1
  <2> HIDE DEF b, pages
  <2>8. \A p \in DOMAIN rows' : rows'[p] = IF p = b THEN Chain(pages) ELSE rows[p]
    BY <2>3
  <2>9. GoodRows'
    BY <2>3, <2>5, <2>8 DEF GoodRows, GoodRow
  <2>10. RowsShrink
    BY <2>3, <2>7, <2>8 DEF RowsShrink
  <2> QED BY <2>9, <2>10
<1>2. CASE InsertPackages(w)
  <2>1. PICK order, n : Inserts(w, order, n)
    BY <1>2, InsertsIs
  <2>2. /\ n \in Nat /\ lastId \in Nat
        /\ DOMAIN rows' = DOMAIN rows \cup (lastId + 1 .. lastId + n)
        /\ \A p \in DOMAIN rows : rows'[p] = rows[p]
    BY <2>1 DEF Inserts
  <2>3. ASSUME NEW p \in DOMAIN rows', p \notin DOMAIN rows PROVE p > lastId /\ GoodRow(rows'[p])
    <3>1. p \in lastId + 1 .. lastId + n
      BY <2>2, <2>3
    <3>2. PICK i \in 1..n : p = lastId + i
      <4>1. p - lastId \in 1..n /\ p = lastId + (p - lastId)
        BY <2>2, <3>1
      <4> QED BY <4>1
    <3> QED BY <2>1, <2>2, <3>2, InsertedRows
  <2>4. \A p \in DOMAIN rows' : GoodRow(rows'[p])
    BY <2>2, <2>3 DEF GoodRows
  <2>5. RowsShrink
    <3> SUFFICES ASSUME NEW p \in DOMAIN rows', p <= lastId
                 PROVE  p \in DOMAIN rows /\ DOMAIN rows'[p] \subseteq DOMAIN rows[p]
      BY DEF RowsShrink
    <3>1. p \in DOMAIN rows
      <4>1. CASE p \notin DOMAIN rows
        <5>1. p \in lastId + 1 .. lastId + n
          BY <2>2, <4>1
        <5> QED BY <2>2, <5>1
      <4> QED BY <4>1
    <3> QED BY <2>2, <3>1
  <2> QED BY <2>4, <2>5 DEF GoodRows, GoodRow
<1>3. CASE DeleteProject(w)
  <2>1. DOMAIN rows' = DOMAIN rows \ {req[w].id} /\ \A p \in DOMAIN rows' : rows'[p] = rows[p]
    BY <1>3 DEF DeleteProject, Without
  <2> QED BY <2>1 DEF GoodRows, GoodRow, RowsShrink
<1>4. CASE DeletePage(w)
  <2>1. CASE Exists(req[w].id)
    <3>1. /\ DOMAIN rows' = DOMAIN rows
          /\ \A p \in DOMAIN rows : \/ rows'[p] = rows[p]
                                    \/ rows'[p] = Without(rows[p], req[w].page)
      BY <1>4, <2>1 DEF DeletePage
    <3>2. \A p \in DOMAIN rows : GoodRow(rows'[p]) /\ DOMAIN rows'[p] \subseteq DOMAIN rows[p]
      BY <3>1, GoodWithout DEF GoodRows
    <3> QED BY <3>1, <3>2 DEF GoodRows, GoodRow, RowsShrink
  <2>2. CASE ~Exists(req[w].id)
    BY <1>4, <2>2, SameRows DEF DeletePage
  <2> QED BY <2>1, <2>2
<1>5. CASE ~(InsertBook(w) \/ InsertPackages(w) \/ DeleteProject(w) \/ DeletePage(w))
  <2>1. rows' = rows
    BY <1>5
    DEF Handler, LoadPages, LoadOwner, Assign, TakeBack, LoadPackage, OwnsBooks,
        ReadPackages, Reassign, DeleteUser, Reads, tables
  <2> QED BY <2>1, SameRows
<1> QED BY <1>1, <1>2, <1>3, <1>4, <1>5

LEMMA LoadedIsStable ==
  ASSUME IInv, IInv', RowsShrink, NEW w \in Worker, Loaded(w),
         pc'[w] = pc[w], req'[w] = req[w], found'[w] = found[w],
         w \in short => w \in short'
  PROVE  Loaded(w)'
<1> SUFFICES ASSUME pc[w] = "insert packages", Exists(req[w].id)',
                    NEW g \in DOMAIN rows'[req[w].id], g \notin PagesOf(found[w])
             PROVE  w \in short' /\ \A h \in PagesOf(found[w]) : h < g
  BY DEF Loaded, Exists
<1>1. req[w].id <= lastId /\ req[w].id \in DOMAIN rows'
  BY DEF IInv, Local, Splits, Tables, ProjectsOK, Exists
<1>2. req[w].id \in DOMAIN rows /\ DOMAIN rows = DOMAIN projects
  BY <1>1 DEF RowsShrink, IInv, Tables, ProjectsOK
<1> QED BY <1>1, <1>2 DEF RowsShrink, Loaded, Exists

(* A request that goes to another place than that, or ends. *)
LEMMA NotLoaded ==
  ASSUME NEW w \in Worker, pc'[w] # "insert packages"
  PROVE  Loaded(w)'
BY DEF Loaded

LEMMA LoadPagesStep ==
  ASSUME IInv, NEW w \in Worker, GoodRows, LoadPages(w)
  PROVE  Loaded(w)'
<1>1. PICK pages, k :
        /\ \E len : len = Len(pages) /\ k \in 0..len
        /\ pages = IF Exists(req[w].id) THEN Ascending(DOMAIN rows[req[w].id]) ELSE <<>>
        /\ Reads(w, SubSeq(pages, 1, k), "insert packages")
        /\ Takes(w, k = Len(pages))
  BY DEF LoadPages
<1>2. /\ found'[w] = SubSeq(pages, 1, k) /\ pc'[w] = "insert packages"
      /\ UNCHANGED <<rows, projects, req>>
      /\ k # Len(pages) => w \in short'
  BY <1>1 DEF Reads, Goto, Takes, IInv, Served, tables
<1>3. /\ pages \in Seq(Page) /\ Increasing(pages)
      /\ Exists(req[w].id) => DOMAIN rows[req[w].id] = PagesOf(pages)
  <2>1. CASE Exists(req[w].id)
    <3>1. PICK S : S = DOMAIN rows[req[w].id]
      OBVIOUS
    <3>2. S \in SUBSET Page
      BY <2>1, <3>1 DEF GoodRows, GoodRow, Exists, IInv, Tables, ProjectsOK
    <3>3. /\ Ascending(S) \in Seq(S) /\ PagesOf(Ascending(S)) = S
          /\ Increasing(Ascending(S))
      BY <3>2, PagesFinite, AscendingIs
    <3>4. Ascending(S) \in Seq(Page)
      BY <3>2, <3>3, SeqMonotonic
    <3> QED BY <1>1, <2>1, <3>1, <3>3, <3>4
  <2>2. CASE ~Exists(req[w].id)
    <3>1. <<>> \in Seq(Page) /\ Increasing(<<>>)
      BY EmptySeq DEF Increasing
    <3> QED BY <1>1, <2>2, <3>1
  <2> QED BY <2>1, <2>2
\* What is missing comes after the first k pages.
<1>4. PICK s : s = SubSeq(pages, 1, k)
  OBVIOUS
<1>5. k \in Nat /\ k <= Len(pages) /\ Len(pages) \in Nat /\ DOMAIN pages = 1..Len(pages)
  <2>1. Len(pages) \in Nat /\ DOMAIN pages = 1..Len(pages)
    BY <1>3, LenProperties
  <2>2. PICK len : len = Len(pages) /\ k \in 0..len
    BY <1>1
  <2>3. len \in Nat
    BY <2>1, <2>2
  <2>4. k \in Nat /\ k <= len
    BY <2>2, <2>3
  <2> QED BY <2>1, <2>2, <2>4
<1>6. s \in Seq(Page) /\ DOMAIN s = 1..k /\ \A i \in 1..k : s[i] = pages[i]
  BY <1>3, <1>4, <1>5
<1>7. Increasing(s)
  BY <1>3, <1>5, <1>6 DEF Increasing
<1>8. ASSUME NEW g \in PagesOf(pages), g \notin PagesOf(s)
      PROVE  k # Len(pages) /\ \A h \in PagesOf(s) : h < g
  <2>1. PICK j \in 1..Len(pages) : g = pages[j]
    BY <1>5, <1>8 DEF PagesOf
  <2>2. ~(j <= k)
    BY <1>5, <1>6, <1>8, <2>1 DEF PagesOf
  <2>3. ASSUME NEW h \in PagesOf(s) PROVE h < g
    <3>1. PICK i \in 1..k : h = pages[i]
      BY <1>6, <2>3 DEF PagesOf
    <3> QED BY <1>3, <1>5, <2>1, <2>2, <3>1 DEF Increasing
  <2>4. k # Len(pages)
    <3>1. PICK len : len = Len(pages)
      OBVIOUS
    <3>2. len \in Nat /\ j \in 1..len /\ k \in Nat
      BY <1>5, <3>1
    <3>3. k # len
      BY <2>2, <3>2
    <3> QED BY <3>1, <3>3
  <2> QED BY <2>3, <2>4
<1> QED BY <1>2, <1>3, <1>4, <1>6, <1>7, <1>8 DEF Loaded, Exists

LEMMA InitPages == Init => PagesInv
BY DEF Init, PagesInv, GoodRows, Loaded

LEMMA StepPages ==
  ASSUME IInv, PagesInv, [Next]_vars
  PROVE  PagesInv'
<1> USE DEF PagesInv
<1>0. IInv' /\ DOMAIN pc = Worker
  BY NextStep DEF IInv, Served
\* Every step of a worker leaves what the others do.
<1>1. ASSUME NEW w \in Worker, GoodRows', RowsShrink, Loaded(w)',
             \A v \in Worker \ {w} :
               /\ pc'[v] = pc[v] /\ req'[v] = req[v] /\ found'[v] = found[v]
               /\ v \in short => v \in short'
      PROVE  PagesInv'
  BY <1>0, <1>1, LoadedIsStable
<1>2. ASSUME NEW w \in Worker, NEW r \in Requests, Accept(w, r) PROVE PagesInv'
  <2>1. GoodRows' /\ RowsShrink
    BY <1>2, SameRows DEF Accept, tables
  <2>2. pc'[w] # "insert packages"
    <3>1. r.op \in {"upload", "split", "assign", "takeback", "delete", "deletePage", "deleteUser"}
      BY DEF Requests
    <3> QED BY <1>0, <1>2, <3>1 DEF Accept, Goto, Begin
  <2>3. \A v \in Worker \ {w} :
          /\ pc'[v] = pc[v] /\ req'[v] = req[v] /\ found'[v] = found[v]
          /\ v \in short => v \in short'
    BY <1>2 DEF Accept, Goto
  <2> QED BY <1>1, <2>1, <2>2, <2>3, NotLoaded
<1>3. ASSUME NEW w \in Worker, Fail(w) PROVE PagesInv'
  <2>1. GoodRows' /\ RowsShrink
    BY <1>3, SameRows DEF Fail, tables
  <2>2. /\ pc'[w] # "insert packages"
        /\ \A v \in Worker \ {w} :
             /\ pc'[v] = pc[v] /\ req'[v] = req[v] /\ found'[v] = found[v]
             /\ v \in short => v \in short'
    BY <1>0, <1>3 DEF Fail, Done, Goto
  <2> QED BY <1>1, <2>1, <2>2, NotLoaded
<1>4. ASSUME NEW w \in Worker, Handler(w) PROVE PagesInv'
  <2>1. GoodRows' /\ RowsShrink
    BY <1>4, RowsStep
  <2>2. \A v \in Worker \ {w} :
          /\ pc'[v] = pc[v] /\ req'[v] = req[v] /\ found'[v] = found[v]
          /\ v \in short => v \in short'
    BY <1>4, OthersWait
  <2>3. ~LoadPages(w) => pc'[w] # "insert packages"
    BY <1>0, <1>4
    DEF Handler, InsertBook, InsertPackages, LoadOwner, Assign, TakeBack, LoadPackage,
        DeleteProject, DeletePage, OwnsBooks, ReadPackages, Reassign, DeleteUser,
        Reads, Done, Goto
  <2> QED BY <1>1, <2>1, <2>2, <2>3, NotLoaded, LoadPagesStep
<1>5. CASE UNCHANGED vars
  <2>1. UNCHANGED <<rows, projects, pc, req, found, short>>
    BY <1>5 DEF vars, tables
  <2> QED BY <2>1 DEF GoodRows, GoodRow, Loaded, Exists
<1> QED BY <1>2, <1>3, <1>4, <1>5 DEF Next

LEMMA PagesAlways == Spec => [](IInv /\ PagesInv)
<1>1. IInv /\ [Next]_vars => IInv'
  BY NextStep
<1>2. IInv /\ PagesInv /\ [Next]_vars => PagesInv'
  BY StepPages
<1> QED BY <1>1, <1>2, InitInv, InitPages, PTL DEF Spec

(* A page's next page comes after it and skips none that the project still *)
(* has, and so for its previous one: through random splits, concurrent     *)
(* splits, and deletions of pages (insertPageIDs, delete_page).            *)
THEOREM NoPageSkippedEver == Spec => []NoPageSkipped
<1>1. PagesInv => NoPageSkipped
  BY DEF PagesInv, GoodRows, GoodRow, NoPageSkipped
<1> QED BY <1>1, PagesAlways, PTL

-----------------------------------------------------------------------------
(* The types of requests.                                                  *)

LEMMA RequestStarts ==
  ASSUME NEW r \in Requests
  PROVE  r # NoRequest /\ Begin(r) # "idle"
<1>1. r.op \in {"upload", "split", "assign", "takeback", "delete", "deletePage", "deleteUser"}
  BY DEF Requests
<1> QED BY <1>1 DEF NoRequest, Begin

LEMMA InitRequests == Init => RequestsOK
BY DEF Init, RequestsOK

LEMMA TracksType ==
  ASSUME Tables', gained \in [Worker -> SUBSET Id], Tracks
  PROVE  gained' \in [Worker -> SUBSET Id]
<1>1. \A u : Acquired(u) \subseteq Id
  BY PackagesAssumption DEF Acquired, Tables, ProjectsOK, Id
<1> QED BY <1>1 DEF Tracks

LEMMA StepRequests ==
  ASSUME IInv, RequestsOK, [Next]_vars
  PROVE  RequestsOK'
<1> USE DEF RequestsOK
<1>1. DOMAIN pc = Worker /\ Tables'
  BY NextStep DEF IInv, Served
<1>2. ASSUME NEW w \in Worker, NEW r \in Requests, Accept(w, r) PROVE RequestsOK'
  <2>1. /\ req' = [req EXCEPT ![w] = r] /\ pc' = [pc EXCEPT ![w] = Begin(r)]
        /\ short' = short /\ Tracks
    BY <1>2 DEF Accept, Goto
  <2>2. gained' \in [Worker -> SUBSET Id]
    BY <1>1, <2>1, TracksType
  <2> QED BY <1>1, <2>1, <2>2, RequestStarts
<1>3. ASSUME NEW w \in Worker, Done(w) PROVE RequestsOK'
  <2>1. gained' \in [Worker -> SUBSET Id]
    BY <1>1, <1>3, TracksType DEF Done
  <2> QED BY <1>1, <1>3, <2>1 DEF Done, Goto
<1>4. ASSUME NEW w \in Worker, pc[w] # "idle", NEW place, place # "idle",
             pc' = [pc EXCEPT ![w] = place], req' = req, Tracks,
             short' = short \/ short' = short \cup {w}
      PROVE  RequestsOK'
  <2>1. gained' \in [Worker -> SUBSET Id]
    BY <1>1, <1>4, TracksType
  <2> QED BY <1>1, <1>4, <2>1
<1>5. ASSUME NEW w \in Worker, Handler(w) \/ Fail(w) PROVE RequestsOK'
  <2>1. CASE Done(w)
    BY <1>3, <2>1
  <2>2. CASE Reassign(w)
    <3>1. pc[w] # "idle" /\ pc' = pc /\ req' = req /\ short' = short /\ Tracks
      BY <2>2 DEF Reassign
    <3>2. gained' \in [Worker -> SUBSET Id]
      BY <1>1, <3>1, TracksType
    <3> QED BY <3>1, <3>2
  <2>3. CASE LoadPages(w) \/ LoadOwner(w) \/ LoadPackage(w) \/ OwnsBooks(w) \/ ReadPackages(w)
    <3>1. PICK value, place : Reads(w, value, place) /\ place # "idle"
      BY <2>3, Reading
    <3>2. pc[w] # "idle" /\ (short' = short \/ short' = short \cup {w})
      BY <2>3, Reading
    <3> QED BY <1>4, <3>1, <3>2 DEF Reads, Goto
  <2> QED
    BY <1>5, <2>1, <2>2, <2>3
    DEF Handler, Fail, InsertBook, InsertPackages, Assign, TakeBack, DeleteProject,
        DeletePage, DeleteUser
<1>6. CASE UNCHANGED vars
  BY <1>6 DEF vars
<1> QED BY <1>2, <1>5, <1>6 DEF Next

(* The types of the tables, the requests and the links, for every bound.   *)
THEOREM TypeCorrect == Spec => []TypeOK
<1>1. IInv /\ RequestsOK /\ [Next]_vars => RequestsOK'
  BY StepRequests
<1>2. IInv /\ PagesInv /\ RequestsOK => TypeOK
  BY DEF IInv, Tables, PagesInv, GoodRows, GoodRow, LinksOK, TypeOK
<1> QED BY <1>1, <1>2, InitRequests, PagesAlways, PTL DEF Spec

-----------------------------------------------------------------------------
(* What one split makes of its book.                                       *)

\* What SplitIsPartition says of the packages of b that a step inserts.
Partition(b) ==
  LET new == NewPackages(b)
      dealt == UNION {DOMAIN rows'[p] : p \in new}
  IN  new # {} =>
        /\ \A p, q \in new : p # q => DOMAIN rows'[p] \cap DOMAIN rows'[q] = {}
        /\ \A p, q \in new :
             Cardinality(DOMAIN rows'[p]) <= Cardinality(DOMAIN rows'[q]) + 1
        /\ Exists(b) => \A g \in DOMAIN rows[b] \ dealt :
             /\ \E w \in short : Finishes(w)
             /\ \A h \in dealt : h < g

LEMMA SplitStep ==
  ASSUME IInv, NEW w \in Worker, Loaded(w), InsertPackages(w), NEW b \in Id
  PROVE  Partition(b)
<1>1. PICK order, n : Inserts(w, order, n)
  BY InsertsIs
<1>2. PICK random : random = req[w].random
  OBVIOUS
<1>3. /\ n \in Nat \ {0} /\ lastId \in Nat /\ random \in BOOLEAN
      /\ order \in Seq(Page) /\ Distinct(order) /\ PagesOf(order) = PagesOf(found[w])
      /\ DOMAIN projects' = DOMAIN projects \cup (lastId + 1 .. lastId + n)
  BY <1>1, <1>2 DEF Inserts, Dealing
<1>4. \A i \in 1..n : DOMAIN rows'[lastId + i] = PagesOf(Share(order, n, i, random))
  BY <1>1, <1>2, InsertedRows
\* Every new package is one of the n, and of the book of the split.
<1>5. ASSUME NEW p \in NewPackages(b) PROVE b = req[w].id /\ \E i \in 1..n : p = lastId + i
  <2>1. p \in lastId + 1 .. lastId + n /\ projects'[p].origin = b
    BY <1>3 DEF NewPackages
  <2>2. p - lastId \in 1..n /\ p = lastId + (p - lastId)
    BY <1>3, <2>1
  <2>3. PICK i \in 1..n : p = lastId + i
    BY <2>2
  <2> QED BY <1>1, <2>1, <2>3 DEF Inserts
\* And conversely: their ids are new.
<1>6. ASSUME b = req[w].id, NEW i \in 1..n PROVE lastId + i \in NewPackages(b)
  <2>1. /\ pc[w] = "insert packages" /\ req[w].id \in Nat /\ req[w].id <= lastId
        /\ \A p \in DOMAIN projects : p \in Nat /\ p <= lastId
    <3>1. pc[w] = "insert packages" /\ req[w].id <= lastId
      BY DEF InsertPackages, IInv, Local, Splits
    <3>2. req[w].id \in Nat
      BY <1>6, IdArith
    <3> QED BY <3>1, <3>2, RowTypes, IdArith DEF IInv
  <2>2. PICK p : p = lastId + i
    OBVIOUS
  <2>3. p \in lastId + 1 .. lastId + n /\ p # b /\ p \notin DOMAIN projects
    <3>1. i \in Nat /\ 1 <= i /\ i <= n /\ p = lastId + i /\ lastId \in Nat /\ n \in Nat
      BY <1>3, <2>2
    <3>2. p > lastId /\ p \in Nat /\ p \in lastId + 1 .. lastId + n
      BY <3>1
    <3>3. ~(p <= lastId)
      BY <3>1
    <3>4. p # b /\ p \notin DOMAIN projects
      BY <1>6, <2>1, <3>3, Zenon
    <3> QED BY <3>2, <3>4
  <2>4. projects'[p].origin = b
    BY <1>1, <1>6, <2>2 DEF Inserts
  <2> QED BY <1>3, <2>2, <2>3, <2>4 DEF NewPackages
<1>7. ASSUME NEW p \in NewPackages(b), NEW q \in NewPackages(b)
      PROVE  /\ p # q => DOMAIN rows'[p] \cap DOMAIN rows'[q] = {}
             /\ Cardinality(DOMAIN rows'[p]) <= Cardinality(DOMAIN rows'[q]) + 1
  <2>1. PICK i \in 1..n, j \in 1..n : p = lastId + i /\ q = lastId + j
    BY <1>5
  <2>2. /\ DOMAIN rows'[p] = PagesOf(Share(order, n, i, random))
        /\ DOMAIN rows'[q] = PagesOf(Share(order, n, j, random))
    BY <1>4, <2>1
  <2>3. i # j => PagesOf(Share(order, n, i, random)) \cap PagesOf(Share(order, n, j, random)) = {}
    BY <1>3, PagesFinite, SharesDisjoint
  <2>4. Cardinality(PagesOf(Share(order, n, i, random)))
          <= Cardinality(PagesOf(Share(order, n, j, random))) + 1
    BY <1>3, PagesFinite, SharesEven
  <2> QED BY <2>1, <2>2, <2>3, <2>4
\* The pages that are dealt are those that were read.
<1>8. ASSUME NewPackages(b) # {}, NEW g
      PROVE  (\E p \in NewPackages(b) : g \in DOMAIN rows'[p]) <=> g \in PagesOf(found[w])
  <2>1. b = req[w].id
    BY <1>5, <1>8
  <2>2. ASSUME g \in PagesOf(order) PROVE \E p \in NewPackages(b) : g \in DOMAIN rows'[p]
    <3>1. PICK i \in 1..n : g \in PagesOf(Share(order, n, i, random))
      BY <1>3, <2>2, PagesFinite, SharesCover
    <3> QED BY <1>4, <1>6, <2>1, <3>1
  <2>3. ASSUME NEW p \in NewPackages(b), g \in DOMAIN rows'[p] PROVE g \in PagesOf(order)
    <3>1. PICK i \in 1..n : p = lastId + i
      BY <1>5
    <3>2. g \in PagesOf(Share(order, n, i, random))
      BY <1>4, <2>3, <3>1
    <3>3. /\ PagesOf(Share(order, n, i, random)) = PagesAt(order, Places(order, n, i))
          /\ Places(order, n, i) \subseteq DOMAIN order
      BY <1>3, PagesFinite, ShareIs
    <3> QED BY <3>2, <3>3 DEF PagesAt, PagesOf
  <2> QED BY <1>3, <2>2, <2>3
<1>9. ASSUME NewPackages(b) # {}, Exists(b), NEW g \in DOMAIN rows[b], g \notin PagesOf(found[w])
      PROVE  /\ \E v \in short : Finishes(v)
             /\ \A h \in PagesOf(found[w]) : h < g
  <2>1. b = req[w].id /\ pc[w] = "insert packages"
    BY <1>5, <1>9 DEF InsertPackages
  <2>2. w \in short /\ \A h \in PagesOf(found[w]) : h < g
    BY <1>9, <2>1 DEF Loaded
  <2>3. Finishes(w)
    BY <2>1 DEF Finishes, InsertPackages, Done, Goto, IInv, Served
  <2> QED BY <2>2, <2>3
<1>10. NewPackages(b) # {} =>
         UNION {DOMAIN rows'[p] : p \in NewPackages(b)} = PagesOf(found[w])
  BY <1>8
<1> QED BY <1>7, <1>9, <1>10 DEF Partition

(* No other step inserts packages. *)
LEMMA NoSplit ==
  ASSUME IInv, [Next]_vars, ~(\E w \in Worker : InsertPackages(w)), NEW b \in Id
  PROVE  NewPackages(b) = {}
<1>1. ASSUME NEW w \in Worker, InsertBook(w) PROVE NewPackages(b) = {}
  <2>1. projects' = [p \in DOMAIN projects \cup {lastId + 1} |->
                       IF p \in {lastId + 1} THEN [origin |-> lastId + 1, owner |-> req[w].user]
                                             ELSE projects[p]]
    BY <1>1 DEF InsertBook, Extended
  <2>2. PICK k : k = lastId + 1
    OBVIOUS
  <2> QED BY <2>1, <2>2 DEF NewPackages
<1>2. ASSUME DOMAIN projects' \subseteq DOMAIN projects PROVE NewPackages(b) = {}
  BY <1>2 DEF NewPackages
<1>3. ASSUME NEW w \in Worker, Handler(w), ~InsertBook(w), ~InsertPackages(w)
      PROVE  DOMAIN projects' \subseteq DOMAIN projects
  <2>1. CASE Assign(w) \/ TakeBack(w) \/ Reassign(w)
    BY <2>1 DEF Assign, TakeBack, Reassign, SetOwner
  <2>2. CASE DeleteProject(w)
    BY <2>2 DEF DeleteProject, Without
  <2>3. CASE \/ LoadPages(w) \/ LoadOwner(w) \/ LoadPackage(w) \/ OwnsBooks(w)
             \/ ReadPackages(w) \/ DeletePage(w) \/ DeleteUser(w)
    BY <2>3
    DEF LoadPages, LoadOwner, LoadPackage, OwnsBooks, ReadPackages, DeletePage, DeleteUser,
        Reads, tables
  <2> QED BY <1>3, <2>1, <2>2, <2>3 DEF Handler
<1>4. ASSUME NEW w \in Worker, Fail(w) \/ \E r \in Requests : Accept(w, r)
      PROVE  DOMAIN projects' \subseteq DOMAIN projects
  BY <1>4 DEF Fail, Accept, tables
<1>5. CASE UNCHANGED vars
  BY <1>2, <1>5 DEF vars, tables
<1> QED BY <1>1, <1>2, <1>3, <1>4, <1>5 DEF Next

(* The packages of one split share no page, differ by at most one page in  *)
(* size, and together have every page the book still has, or when the      *)
(* reading of the pages was cut off all that come before some page: for    *)
(* every number of users and pages, sorted or shuffled, and whatever is    *)
(* deleted between the reading and the insertion (split, distribute).      *)
THEOREM SplitsArePartitions == Spec => SplitIsPartition
<1>1. IInv /\ PagesInv /\ [Next]_vars => \A b \in Id : Partition(b)
  <2> SUFFICES ASSUME IInv, PagesInv, [Next]_vars, NEW b \in Id PROVE Partition(b)
    OBVIOUS
  <2>1. CASE \E w \in Worker : InsertPackages(w)
    BY <2>1, SplitStep DEF PagesInv
  <2>2. CASE ~(\E w \in Worker : InsertPackages(w))
    BY <2>2, NoSplit DEF Partition
  <2> QED BY <2>1, <2>2
<1>2. IInv /\ PagesInv /\ [Next]_vars => [\A b \in Id : Partition(b)]_vars
  BY <1>1
<1> QED BY <1>2, PagesAlways, PTL DEF Spec, SplitIsPartition, Partition

-----------------------------------------------------------------------------
(* The deletion of accounts, whatever other requests do meanwhile.         *)

(* What the deletion of an account still has to give back, if it has read  *)
(* everything: all the packages of the account whose books are there and   *)
(* are not its own, but for what it has got since; and none to itself.     *)
OwnedBefore(w) ==
  \A p \in DOMAIN projects :
    projects[p].owner = req[w].uid /\ HasBook(p) /\ BookOwner(p) = req[w].uid
      => p \in gained[w]

StillToGive(w) ==
  /\ \A p \in DOMAIN projects :
       projects[p].owner = req[w].uid /\ HasBook(p)
         => p \in DOMAIN found[w] \/ p \in gained[w]
  /\ \A p \in DOMAIN found[w] : found[w][p] # req[w].uid

GivesBack(w) ==
  w \notin short =>
    /\ pc[w] = "read packages" => OwnedBefore(w)
    /\ pc[w] = "reassign" => StillToGive(w)

LEMMA InitGives == Init => \A w \in Worker : GivesBack(w)
BY DEF Init, GivesBack

LEMMA GivesNothing ==
  ASSUME NEW w \in Worker, pc'[w] \notin {"read packages", "reassign"}
  PROVE  GivesBack(w)'
BY DEF GivesBack

LEMMA GainedIs ==
  ASSUME NEW w \in Worker, Tracks, pc'[w] \in {"read packages", "reassign"}
  PROVE  \A p : p \in gained[w] \/ p \in Acquired(req[w].uid) => p \in gained'[w]
BY DEF Tracks

(* A project that has not become the account's in a step was so before,    *)
(* with the same book and owner of the book.                               *)
LEMMA OwnedAlready ==
  ASSUME Tables, Tables', Stable, NEW u, NEW p \in DOMAIN projects',
         projects'[p].owner = u, p \notin Acquired(u)
  PROVE  /\ p \in DOMAIN projects /\ projects[p].owner = u
         /\ HasBook(p)' => HasBook(p) /\ BookOwner(p)' = BookOwner(p)
<1>1. p \in DOMAIN projects /\ projects[p].owner = u
  BY DEF Acquired
<1>2. p \in Nat /\ p <= lastId
  BY <1>1, RowTypes, IdArith
<1>3. projects'[p].origin = projects[p].origin
  BY <1>1, <1>2 DEF Stable
<1>4. projects[p].origin <= lastId /\ (HasBook(p) => IsBook(projects[p].origin))
  BY <1>1 DEF Tables
<1>5. ASSUME HasBook(p)' PROVE HasBook(p) /\ BookOwner(p)' = BookOwner(p)
  BY <1>3, <1>4, <1>5 DEF Stable, HasBook, Exists, BookOwner, IsBook
<1> QED BY <1>1, <1>5

LEMMA GivesBackIsStable ==
  ASSUME IInv, IInv', Stable, Tracks, NEW w \in Worker, GivesBack(w),
         pc'[w] = pc[w], req'[w] = req[w], found'[w] = found[w],
         w \in short => w \in short'
  PROVE  GivesBack(w)'
<1>1. Tables /\ Tables'
  BY DEF IInv
<1>2. CASE pc[w] \notin {"read packages", "reassign"}
  BY <1>2, GivesNothing
<1>3. ASSUME pc[w] \in {"read packages", "reassign"}, w \notin short' PROVE GivesBack(w)'
  <2>1. \A p : p \in gained[w] \/ p \in Acquired(req[w].uid) => p \in gained'[w]
    BY <1>3, GainedIs
  <2>2. ASSUME pc[w] = "read packages" PROVE OwnedBefore(w)'
    <3>1. OwnedBefore(w)
      BY <1>3, <2>2 DEF GivesBack
    <3> SUFFICES ASSUME NEW p \in DOMAIN projects', projects'[p].owner = req[w].uid,
                        HasBook(p)', BookOwner(p)' = req[w].uid,
                        p \notin Acquired(req[w].uid)
                 PROVE  p \in gained'[w]
      BY <2>1 DEF OwnedBefore
    <3>2. /\ p \in DOMAIN projects /\ projects[p].owner = req[w].uid
          /\ HasBook(p) /\ BookOwner(p) = req[w].uid
      BY <1>1, OwnedAlready
    <3> QED BY <2>1, <3>1, <3>2 DEF OwnedBefore
  <2>3. ASSUME pc[w] = "reassign" PROVE StillToGive(w)'
    <3>1. StillToGive(w)
      BY <1>3, <2>3 DEF GivesBack
    <3> SUFFICES ASSUME NEW p \in DOMAIN projects', projects'[p].owner = req[w].uid,
                        HasBook(p)', p \notin Acquired(req[w].uid)
                 PROVE  p \in DOMAIN found[w] \/ p \in gained'[w]
      BY <2>1, <3>1 DEF StillToGive
    <3>2. p \in DOMAIN projects /\ projects[p].owner = req[w].uid /\ HasBook(p)
      BY <1>1, OwnedAlready
    <3> QED BY <2>1, <3>1, <3>2 DEF StillToGive
  <2> QED BY <2>2, <2>3 DEF GivesBack
<1> QED BY <1>2, <1>3 DEF GivesBack

\* No step changes what is stable.
LEMMA StepStable ==
  ASSUME IInv, [Next]_vars
  PROVE  Stable
<1>1. ASSUME UNCHANGED tables PROVE Stable
  BY <1>1, NothingChanges DEF IInv
<1>2. ASSUME NEW w \in Worker, NEW r \in Requests, Accept(w, r) PROVE Stable
  BY <1>1, <1>2 DEF Accept
<1>3. ASSUME NEW w \in Worker, Fail(w) PROVE Stable
  BY <1>1, <1>3 DEF Fail
<1>4. ASSUME NEW w \in Worker, Handler(w) PROVE Stable
  <2>1. CASE LoadPages(w) \/ LoadOwner(w) \/ LoadPackage(w) \/ OwnsBooks(w) \/ ReadPackages(w)
    <3>1. UNCHANGED tables
      BY <2>1, Reading DEF Reads
    <3> QED BY <1>1, <3>1
  <2>2. CASE InsertBook(w)
    BY <2>2, InsertBookStep
  <2>3. CASE InsertPackages(w)
    BY <2>3, InsertPackagesStep
  <2>4. CASE Assign(w) \/ TakeBack(w)
    BY <2>4, AssignStep, TakeBackStep
  <2>5. CASE Reassign(w)
    BY <2>5, ReassignStep
  <2>6. CASE DeleteProject(w) \/ DeletePage(w)
    BY <2>6, DeleteProjectStep, DeletePageStep
  <2>7. CASE DeleteUser(w)
    <3>1. UNCHANGED <<projects, rows, stored, lastId>>
      BY <2>7 DEF DeleteUser
    <3> QED BY <3>1, RowTypes DEF IInv, Stable, IsBook
  <2> QED BY <1>4, <2>1, <2>2, <2>3, <2>4, <2>5, <2>6, <2>7 DEF Handler
<1>5. CASE UNCHANGED vars
  BY <1>1, <1>5 DEF vars
<1> QED BY <1>2, <1>3, <1>4, <1>5 DEF Next

LEMMA ReadPackagesGivesBack ==
  ASSUME IInv, NEW w \in Worker, GivesBack(w), ReadPackages(w)
  PROVE  GivesBack(w)'
<1> DEFINE u == req[w].uid
           own == {p \in DOMAIN projects :
                     /\ projects[p].owner = u
                     /\ HasBook(p)
                     /\ projects[projects[p].origin].owner # u}
<1>1. PICK some \in SUBSET own :
        /\ Reads(w, [p \in some |-> projects[projects[p].origin].owner], "reassign")
        /\ Takes(w, some = own)
  BY DEF ReadPackages
<1>2. /\ found'[w] = [p \in some |-> projects[projects[p].origin].owner]
      /\ projects' = projects /\ req' = req /\ pc'[w] = "reassign" /\ Tracks
      /\ pc[w] = "read packages"
      /\ w \notin short' => w \notin short /\ some = own
  BY <1>1 DEF ReadPackages, Reads, Goto, Takes, tables, IInv, Served
<1>3. ASSUME w \notin short' PROVE StillToGive(w)'
  <2>1. some = own /\ OwnedBefore(w)
    BY <1>2, <1>3 DEF GivesBack
  <2>2. DOMAIN found'[w] = own
    BY <1>2, <2>1
  <2>3. ASSUME NEW p \in DOMAIN projects, projects[p].owner = u, HasBook(p), p \notin own
        PROVE  p \in gained'[w]
    <3>1. BookOwner(p) = u
      BY <2>3 DEF BookOwner
    <3>2. p \in gained[w]
      BY <2>1, <2>3, <3>1 DEF OwnedBefore
    <3> QED BY <1>2, <3>2, GainedIs
  <2>4. \A p \in DOMAIN found'[w] : found'[w][p] # u
    BY <1>2
  <2> QED BY <1>2, <2>2, <2>3, <2>4 DEF StillToGive, HasBook, Exists
<1> QED BY <1>2, <1>3 DEF GivesBack

LEMMA OwnsBooksGivesBack ==
  ASSUME IInv, NEW w \in Worker, OwnsBooks(w)
  PROVE  GivesBack(w)'
<1>1. /\ projects' = projects /\ req' = req /\ pc'[w] = "read packages"
      /\ w \notin short' =>
           \A p \in DOMAIN projects : projects[p].owner = req[w].uid => ~IsBook(p)
  BY DEF OwnsBooks, Reads, Goto, Takes, tables, IInv, Served
<1>2. ASSUME w \notin short', NEW p \in DOMAIN projects, HasBook(p) PROVE BookOwner(p) # req[w].uid
  <2>1. projects[p].origin \in DOMAIN projects /\ IsBook(projects[p].origin)
    BY <1>2 DEF HasBook, Exists, IInv, Tables
  <2> QED BY <1>1, <1>2, <2>1 DEF BookOwner
<1>3. w \notin short' => OwnedBefore(w)'
  BY <1>1, <1>2 DEF OwnedBefore, HasBook, Exists, BookOwner
<1> QED BY <1>1, <1>3 DEF GivesBack

LEMMA ReassignGivesBack ==
  ASSUME IInv, NEW w \in Worker, GivesBack(w), Reassign(w)
  PROVE  GivesBack(w)'
<1>1. PICK q \in DOMAIN found[w] :
        /\ SetOwner({q}, found[w][q])
        /\ found' = [found EXCEPT ![w] = Without(@, q)]
  BY DEF Reassign
<1>2. /\ pc' = pc /\ req' = req /\ pc[w] = "reassign" /\ short' = short /\ Tracks
      /\ DOMAIN found'[w] = DOMAIN found[w] \ {q}
      /\ \A p \in DOMAIN found'[w] : found'[w][p] = found[w][p]
  BY <1>1 DEF Reassign, Without, IInv, Served
<1>3. /\ DOMAIN projects' = DOMAIN projects
      /\ \A p \in DOMAIN projects :
           /\ projects'[p].origin = projects[p].origin
           /\ p # q => projects'[p].owner = projects[p].owner
           /\ p = q => projects'[p].owner = found[w][q]
  BY <1>1 DEF SetOwner, IInv, Tables, ProjectsOK, Row
<1>4. ASSUME w \notin short PROVE StillToGive(w)'
  <2>1. StillToGive(w)
    BY <1>2, <1>4 DEF GivesBack
  <2>2. \A p : p \in gained[w] => p \in gained'[w]
    BY <1>2, GainedIs
  <2>3. ASSUME NEW p \in DOMAIN projects', projects'[p].owner = req[w].uid, HasBook(p)'
        PROVE  p \in DOMAIN found'[w] \/ p \in gained'[w]
    BY <1>2, <1>3, <2>1, <2>2, <2>3 DEF StillToGive, HasBook, Exists
  <2> QED BY <1>2, <2>1, <2>3 DEF StillToGive
<1> QED BY <1>2, <1>4 DEF GivesBack

LEMMA StepGives ==
  ASSUME IInv, \A w \in Worker : GivesBack(w), [Next]_vars
  PROVE  \A w \in Worker : GivesBack(w)'
<1>1. IInv' /\ Stable /\ DOMAIN pc = Worker
  BY NextStep, StepStable DEF IInv, Served
\* Every step of a worker leaves what the others do.
<1>2. ASSUME NEW w \in Worker, Tracks, GivesBack(w)',
             \A v \in Worker \ {w} :
               /\ pc'[v] = pc[v] /\ req'[v] = req[v] /\ found'[v] = found[v]
               /\ v \in short => v \in short'
      PROVE  \A v \in Worker : GivesBack(v)'
  BY <1>1, <1>2, GivesBackIsStable
<1>3. ASSUME NEW w \in Worker, NEW r \in Requests, Accept(w, r)
      PROVE  \A v \in Worker : GivesBack(v)'
  <2>1. pc'[w] \notin {"read packages", "reassign"}
    <3>1. r.op \in {"upload", "split", "assign", "takeback", "delete", "deletePage", "deleteUser"}
      BY DEF Requests
    <3> QED BY <1>1, <1>3, <3>1 DEF Accept, Goto, Begin
  <2>2. /\ Tracks
        /\ \A v \in Worker \ {w} :
             /\ pc'[v] = pc[v] /\ req'[v] = req[v] /\ found'[v] = found[v]
             /\ v \in short => v \in short'
    BY <1>3 DEF Accept, Goto
  <2> QED BY <1>2, <2>1, <2>2, GivesNothing
<1>4. ASSUME NEW w \in Worker, Done(w) PROVE Tracks /\ GivesBack(w)'
  <2>1. Tracks /\ pc'[w] = "idle"
    BY <1>1, <1>4 DEF Done, Goto
  <2> QED BY <2>1, GivesNothing
<1>5. ASSUME NEW w \in Worker, Fail(w) PROVE \A v \in Worker : GivesBack(v)'
  <2>1. \A v \in Worker \ {w} :
          /\ pc'[v] = pc[v] /\ req'[v] = req[v] /\ found'[v] = found[v]
          /\ v \in short => v \in short'
    BY <1>5 DEF Fail, Done, Goto
  <2> QED BY <1>2, <1>4, <1>5, <2>1 DEF Fail
<1>6. ASSUME NEW w \in Worker, Handler(w) PROVE \A v \in Worker : GivesBack(v)'
  <2>1. \A v \in Worker \ {w} :
          /\ pc'[v] = pc[v] /\ req'[v] = req[v] /\ found'[v] = found[v]
          /\ v \in short => v \in short'
    BY <1>6, OthersWait
  <2>2. CASE Done(w)
    BY <1>2, <1>4, <2>1, <2>2
  <2>3. CASE LoadPages(w) \/ LoadOwner(w) \/ LoadPackage(w) \/ OwnsBooks(w) \/ ReadPackages(w)
    <3>1. Tracks
      BY <2>3, Reading DEF Reads
    <3>2. CASE ReadPackages(w)
      BY <1>2, <2>1, <3>1, <3>2, ReadPackagesGivesBack
    <3>3. CASE OwnsBooks(w)
      BY <1>2, <2>1, <3>1, <3>3, OwnsBooksGivesBack
    <3>4. CASE LoadPages(w) \/ LoadOwner(w) \/ LoadPackage(w)
      <4>1. pc'[w] \notin {"read packages", "reassign"}
        BY <1>1, <3>4 DEF LoadPages, LoadOwner, LoadPackage, Reads, Goto
      <4> QED BY <1>2, <2>1, <3>1, <4>1, GivesNothing
    <3> QED BY <2>3, <3>2, <3>3, <3>4
  <2>4. CASE Reassign(w)
    <3>1. Tracks
      BY <2>4 DEF Reassign
    <3> QED BY <1>2, <2>1, <2>4, <3>1, ReassignGivesBack
  <2> QED
    BY <1>6, <2>2, <2>3, <2>4
    DEF Handler, InsertBook, InsertPackages, Assign, TakeBack, DeleteProject, DeletePage,
        DeleteUser
<1>7. CASE UNCHANGED vars
  BY <1>7
  DEF vars, tables, GivesBack, OwnedBefore, StillToGive, HasBook, Exists, BookOwner
<1> QED BY <1>3, <1>5, <1>6, <1>7 DEF Next

\* What DeletionLeavesNothing says of the accounts a step deletes.
NothingLeft ==
  \A u \in users \ users' :
    \E w \in Worker :
      /\ Finishes(w) /\ req[w].uid = u
      /\ w \notin short => LeavesNothing(w, u)

LEMMA DeletionStep ==
  ASSUME IInv, \A w \in Worker : GivesBack(w), [Next]_vars
  PROVE  NothingLeft
<1>1. ASSUME NEW w \in Worker, DeleteUser(w) PROVE NothingLeft
  <2>1. pc[w] = "reassign" /\ found[w] = <<>> /\ users' = users \ {req[w].uid} /\ Done(w)
    BY <1>1 DEF DeleteUser
  <2>2. Finishes(w)
    BY <2>1 DEF Finishes, Done, Goto, IInv, Served
  <2>3. ASSUME w \notin short PROVE LeavesNothing(w, req[w].uid)
    <3>1. StillToGive(w)
      BY <2>1, <2>3 DEF GivesBack
    <3>2. DOMAIN found[w] = {}
      BY <2>1
    <3> QED BY <3>1, <3>2 DEF StillToGive, LeavesNothing
  <2> QED BY <2>1, <2>2, <2>3 DEF NothingLeft
<1>2. ASSUME users' = users PROVE NothingLeft
  BY <1>2 DEF NothingLeft
<1>3. ASSUME NEW w \in Worker, Handler(w), ~DeleteUser(w) PROVE users' = users
  <2>1. CASE LoadPages(w) \/ LoadOwner(w) \/ LoadPackage(w) \/ OwnsBooks(w) \/ ReadPackages(w)
    BY <2>1, Reading DEF Reads, tables
  <2> QED
    BY <1>3, <2>1
    DEF Handler, InsertBook, InsertPackages, Assign, TakeBack, DeleteProject, DeletePage,
        Reassign
<1>4. ASSUME NEW w \in Worker, Fail(w) \/ \E r \in Requests : Accept(w, r)
      PROVE  users' = users
  BY <1>4 DEF Fail, Accept, tables
<1>5. CASE UNCHANGED vars
  BY <1>2, <1>5 DEF vars, tables
<1> QED BY <1>1, <1>2, <1>3, <1>4, <1>5 DEF Next

(* The deletion of an account whose handler has read everything leaves no  *)
(* package of an existing book behind but what the account got after the   *)
(* check of its books: whatever other requests do meanwhile, and after     *)
(* deletions that failed half way (handleDeleteUser).                      *)
THEOREM NothingIsLeftBehind == Spec => DeletionLeavesNothing
<1>1. IInv /\ (\A w \in Worker : GivesBack(w)) /\ [Next]_vars
        => (\A w \in Worker : GivesBack(w))'
  BY StepGives
<1>2. IInv /\ (\A w \in Worker : GivesBack(w)) /\ [Next]_vars => [NothingLeft]_vars
  BY DeletionStep
<1> QED
  BY <1>1, <1>2, InitGives, PagesAlways, PTL DEF Spec, DeletionLeavesNothing, NothingLeft

-----------------------------------------------------------------------------
(* A package that changes hands goes to the owner of its book, unless an   *)
(* administrator assigns it or the book is gone; books never change hands  *)
(* (assignToOriginalOwner, takeBack, reassignPackagesToOwner).             *)
THEOREM PackagesGoHomeAlways == Spec => PackagesGoHome
<1>1. IInv /\ [Next]_vars => [GoHome]_vars
  BY NextStep
<1> QED BY <1>1, InitInv, NextStep, PTL DEF Spec, PackagesGoHome

(* Pages are deleted only on behalf of the owner of their book, who was    *)
(* checked by the gateway several steps before (delete_project,            *)
(* delete_page).                                                           *)
THEOREM OnlyOwnerDeletesAlways == Spec => OnlyOwnerDeletes
<1>1. IInv /\ [Next]_vars => [OwnerDeletes]_vars
  BY NextStep
<1> QED BY <1>1, InitInv, NextStep, PTL DEF Spec, OnlyOwnerDeletes

=============================================================================
