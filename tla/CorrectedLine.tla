---------------------------- MODULE CorrectedLine ----------------------------
(***************************************************************************)
(* What the line routes store and what one request does to it.             *)
(*                                                                         *)
(* A line is kept in the table `contents`, one row per character.  Here a  *)
(* line is a set of slots: the slices clients address (a token, a run of   *)
(* characters, the whole line).  A slot has a correction or none, and the  *)
(* flag `manually` of its characters.  The characters themselves are the   *)
(* business of module DbLine.                                              *)
(***************************************************************************)
EXTENDS FiniteSets

CONSTANTS
  Project,   \* ids in a request's URL: a book's own id and those of its packages
  Book,      \* ids the lines are stored under
  Line,      \* page and line ids
  Slot,      \* the slices of a line
  Text,      \* OCR results and corrections
  NoText,    \* an uncorrected slot; an empty OCR result
  NoContent, \* a line without a row in `contents`
  BookOf,    \* the column projects.origin
  Method     \* the HTTP methods clients use

ASSUME LineAssumption ==
  /\ BookOf \in [Project -> Book]
  /\ Method \subseteq {"GET", "POST", "DELETE"}
  /\ NoText \notin Text

Content == [ocr: Text, cor: [Slot -> Text \cup {NoText}], manually: [Slot -> BOOLEAN]]

(* NoContent is not the content of any line. *)
ASSUME NoContentAssumption == NoContent \notin Content

\* Lines are stored by book, but locked by the project id of the URL.
Row == Book \X Line
Key == Project \X Line

-----------------------------------------------------------------------------
(* Requests.  PUT is POST, and an omitted parameter t means "automatic".   *)

Correction == [method: {"POST"}, project: Project, line: Line,
               type: {"manual", "automatic"}, slots: SUBSET Slot \ {{}}, text: Text]

Reset      == [method: {"POST"}, project: Project, line: Line,
               type: {"reset"}, slots: SUBSET Slot \ {{}}, text: {NoText}]

OcrUpdate  == [method: {"POST"}, project: Project, line: Line,
               type: {"ocr"}, slots: {Slot}, text: Text \cup {NoText}]

Plain      == [method: {"GET", "DELETE"}, project: Project, line: Line,
               type: {"none"}, slots: {Slot}, text: {NoText}]

Request == {q \in Correction \cup Reset \cup OcrUpdate \cup Plain : q.method \in Method}

RowOf(q) == <<BookOf[q.project], q.line>>
KeyOf(q) == <<q.project, q.line>>

-----------------------------------------------------------------------------
\* Mutant: refuses only what is manually corrected throughout.
ConflictingAll(q, c) == q.type = "automatic" /\ \A s \in q.slots : c.manually[s]

(* DbSlice::contains_manual_corrections and the refusal built on it.       *)
Conflicting(q, c) == q.type = "automatic" /\ \E s \in q.slots : c.manually[s]

(* The slots of q get the text and the flag, the others stay. *)
Set(q, c, text, manual) ==
  [c EXCEPT !.cor      = [s \in Slot |-> IF s \in q.slots THEN text ELSE c.cor[s]],
            !.manually = [s \in Slot |-> IF s \in q.slots THEN manual ELSE c.manually[s]]]

\* Mutant: an empty OCR result is kept as a line.
FreshEmpty(text) ==
  [ocr |-> text, cor |-> [s \in Slot |-> NoText], manually |-> [s \in Slot |-> FALSE]]

(* An OCR update forgets every correction.  With an empty OCR result it    *)
(* leaves no character, hence no row, behind.                              *)
Fresh(text) ==
  IF text = NoText
  THEN NoContent
  ELSE [ocr |-> text, cor |-> [s \in Slot |-> NoText], manually |-> [s \in Slot |-> FALSE]]

(* The line a POST writes, given the line it has loaded. *)
Edit(q, c) ==
  CASE q.type = "ocr"   -> Fresh(q.text)
    [] q.type = "reset" -> Set(q, c, NoText, FALSE)
    [] OTHER            -> Set(q, c, q.text, q.type = "manual")

=============================================================================
