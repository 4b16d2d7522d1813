------------------------------- MODULE DbLine -------------------------------
(***************************************************************************)
(* The characters of one line under corrections, resets and OCR updates:   *)
(* DbChar, DbSlice and DbLine (database/DbStructs), and the way LineRoute  *)
(* uses them.  A request loads the line in the order of `seq`, edits the   *)
(* list of characters and stores it in its new order; module               *)
(* LineCorrection shows that requests for a line do this one at a time, so *)
(* here each of them is one step.                                          *)
(***************************************************************************)
EXTENDS WagnerFischer, SequencesExt

CONSTANTS
  Char,    \* code points that are no white space
  Space,   \* the code point for which iswspace holds
  MaxOcr,  \* bound: length of an OCR result
  MaxText, \* bound: length of a correction
  MaxLine, \* bound: characters of a line, the inserted and deleted ones included
  MaxEdits,\* bound: requests that store a line
  Width,   \* the width in pixels of the characters of the imported OCR result
  Cuts     \* the lists of cuts a client sends with a new OCR result

ASSUME CharAssumption == Char \subseteq Nat \ {0} /\ Space \in Nat \ {0}

ASSUME BoundAssumption ==
  /\ {MaxOcr, MaxText, MaxLine, MaxEdits, Width} \subseteq Nat
  /\ MaxOcr <= MaxLine
  /\ Cuts \subseteq Seq(Int)

VARIABLES
  line,  \* the list DbLine::line
  given, \* history: the line as its last OCR result was stored, for the properties
  edits  \* requests so far, for MaxEdits

vars == <<line, given, edits>>

NoChar == 0   \* as ocr: the character is an insertion; as cor: not corrected
DEL    == -1  \* as cor: the character is deleted

Letter == Char \cup {Space}
Ocr    == SeqOf(Letter, MaxOcr)
Text   == SeqOf(Letter, MaxText)
Mode   == {"manual", "automatic"}

(* The line's box.  An image sent with a new OCR result brings another     *)
(* one; then all cuts are new as well, and where the box lies with respect *)
(* to them is left open by Cuts.                                           *)
Left   == 0
Right  == Width * MaxOcr

-----------------------------------------------------------------------------
(* Characters. *)

(* An insertion has no character of the OCR, but it always has a           *)
(* correction.                                                             *)
DbChar == {c \in [ocr: Letter \cup {NoChar}, cor: Letter \cup {NoChar, DEL},
                  cut: Int, id: Nat, manually: BOOLEAN] :
             c.ocr = NoChar => c.cor \in Letter}

IsIns(c)  == c.ocr = NoChar /\ c.cor # DEL
IsCor(c)  == c.cor # NoChar
OcrChar   == {c \in DbChar : ~IsIns(c)}
GetCor(c) == CASE c.cor = DEL -> NoChar
               [] c.cor # DEL /\ IsCor(c) -> c.cor
               [] OTHER -> c.ocr

(* The members of s that are in C, in their order.  (SelectSeq as a        *)
(* recursive function, which can be reasoned about.)                       *)
Those(s, C) ==
  LET f[i \in 0..Len(s)] ==
        CASE i = 0                 -> <<>>
          [] i > 0 /\ s[i] \in C   -> Append(f[i-1], s[i])
          [] OTHER                 -> f[i-1]
  IN  f[Len(s)]

\* The strings a list of characters stands for: wcor() and wocr().
Wcor(l) == Those([i \in DOMAIN l |-> GetCor(l[i])], Nat \ {0})
Wocr(l) == Those([i \in DOMAIN l |-> l[i].ocr], Nat \ {0})

IsBoundary(c) == GetCor(c) = Space

-----------------------------------------------------------------------------
(* Slices: [from, to) between two iterators; Len(l) + 1 is end().          *)

Find(l, id) ==
  IF \E i \in DOMAIN l : l[i].id = id
  THEN Min({i \in DOMAIN l : l[i].id = id})
  ELSE Len(l) + 1

(* DbLine::next: len list elements, or, if len is negative, up to the next *)
(* white space.                                                            *)
NextPos(l, b, len) ==
  Min({Len(l) + 1} \cup
      {i \in b..Len(l) : IF len < 0 THEN IsBoundary(l[i]) ELSE i = b + len})

Whole(l) == [from |-> 1, to |-> Len(l) + 1]
Slice(l, tid, len) == LET b == Find(l, tid) IN [from |-> b, to |-> NextPos(l, b, len)]

Prefix(l, s) == SubSeq(l, 1, s.from - 1)
Part(l, s)   == SubSeq(l, s.from, s.to - 1)
Suffix(l, s) == SubSeq(l, s.to, Len(l))

(* The horizontal box of the slice, computed by its constructor. *)
BoxLeft(l, s)  == IF s.from = 1 THEN Left ELSE l[s.from - 1].cut
BoxRight(l, s) == CASE s.from < s.to                    -> l[s.to - 1].cut
                    [] s.from = s.to /\ s.to <= Len(l)  -> l[s.to].cut
                    [] OTHER                            -> Right

(* DbLine::each_token: the maximal runs of characters that are no boundary. *)
Tokens(l) ==
  {s \in [from : DOMAIN l, to : 2..Len(l) + 1] :
     /\ s.from < s.to
     /\ \A i \in s.from..s.to - 1 : ~IsBoundary(l[i])
     /\ s.from = 1 \/ IsBoundary(l[s.from - 1])
     /\ s.to = Len(l) + 1 \/ IsBoundary(l[s.to])}

-----------------------------------------------------------------------------
(* Edits. *)

\* The flag of the slice's characters, set_correction_type.
SetType(part, manual) == [i \in DOMAIN part |-> [part[i] EXCEPT !.manually = manual]]

\* Mutant: the insertions stay.
ClearedKeeping(l, s) ==
  [i \in DOMAIN Part(l, s) |-> [Part(l, s)[i] EXCEPT !.cor = NoChar, !.id = s.from - 2 + i]]

\* Mutant: the insertions that go are counted.
ClearedCounting(l, s) ==
  LET part == [i \in DOMAIN Part(l, s) |->
                 [Part(l, s)[i] EXCEPT !.id = s.from - 2 + i]]
      kept == Those(part, OcrChar)
  IN  [i \in DOMAIN kept |-> [kept[i] EXCEPT !.cor = NoChar]]

(* DbSlice::reset: insertions go, the other characters are renumbered from *)
(* the slice's offset and lose their correction.                           *)
Cleared(l, s) ==
  LET kept == Those(Part(l, s), OcrChar)
  IN  [i \in DOMAIN kept |-> [kept[i] EXCEPT !.cor = NoChar, !.id = s.from - 2 + i]]

\* Half of d, as C++ divides: towards zero.
Half(d) == IF d >= 0 THEN d \div 2 ELSE -((-d) \div 2)

\* Mutants: only the right edge is halved; the id is the offset in the slice.
InsertedFar(st, part, c, left, right) ==
  LET lcut == IF st.done = <<>> THEN left ELSE Last(st.done).cut
      rcut == IF st.at > Len(part) THEN right ELSE part[st.at].cut
  IN  [ocr |-> NoChar, cor |-> c, id |-> st.size, manually |-> FALSE,
       cut |-> lcut + Half(rcut)]

InsertedAtOffset(st, part, c, left, right) ==
  LET lcut == IF st.done = <<>> THEN left ELSE Last(st.done).cut
      rcut == IF st.at > Len(part) THEN right ELSE part[st.at].cut
  IN  [ocr |-> NoChar, cor |-> c, id |-> Len(st.done), manually |-> FALSE,
       cut |-> lcut + Half(rcut - lcut)]

(* insert: the new character is cut half way between its neighbours, or    *)
(* the slice's box; its id is the length of the line so far.               *)
Inserted(st, part, c, left, right) ==
  LET lcut == IF st.done = <<>> THEN left ELSE Last(st.done).cut
      rcut == IF st.at > Len(part) THEN right ELSE part[st.at].cut
  IN  [ocr |-> NoChar, cor |-> c, id |-> st.size, manually |-> FALSE,
       cut |-> lcut + Half(rcut - lcut)]

\* noop, set and erase: the character at i_ gets a correction, and i_ moves.
Written(st, part, cor) ==
  [st EXCEPT !.done = Append(@, [part[st.at] EXCEPT !.cor = cor]), !.at = @ + 1]

(* correct_at: one operation of the script.  `done` is the slice before    *)
(* i_, `at` is i_ as an index of the cleared slice, `size` is the length   *)
(* of the line.                                                            *)
CorrectedAt(st, e, part, left, right) ==
  CASE e.op = "Nop" -> Written(st, part, part[st.at].ocr)
    [] e.op = "Sub" -> Written(st, part, e.c)
    [] e.op = "Ins" -> Written(st, part, DEL)
    [] OTHER        -> [st EXCEPT !.done = Append(@, Inserted(st, part, e.c, left, right)),
                                  !.size = @ + 1]

(* WagnerFischer::correct_impl: the script applied to the cleared slice.   *)
Run(part, script, size, left, right) ==
  LET st[k \in 0..Len(script)] ==
        IF k = 0 THEN [done |-> <<>>, at |-> 1, size |-> size]
        ELSE CorrectedAt(st[k-1], script[k], part, left, right)
  IN  st[Len(script)]

Applied(part, script, size, left, right) == Run(part, script, size, left, right).done

(* LineRoute::correct of the slice s by gt. *)
Corrected(l, s, gt, mode) ==
  LET part == Cleared(l, s)
      size == Len(l) - (s.to - s.from) + Len(part)
      new  == Applied(part, Script(Wocr(Part(l, s)), gt), size, BoxLeft(l, s), BoxRight(l, s))
  IN  Prefix(l, s) \o SetType(new, mode = "manual") \o Suffix(l, s)

(* LineRoute::reset. *)
Reset(l, s) == Prefix(l, s) \o SetType(Cleared(l, s), FALSE) \o Suffix(l, s)

\* Mutant: only a slice that is manual throughout is protected.
ConflictAll(l, s, mode) ==
  mode = "automatic" /\ \A i \in s.from..s.to - 1 : l[i].manually

(* contains_manual_corrections, and the refusal with 409. *)
Conflict(l, s, mode) ==
  mode = "automatic" /\ \E i \in s.from..s.to - 1 : l[i].manually

(* DbLine::updateOCR: a character and a cut each. *)
OcrLine(ocr, cuts) ==
  [i \in DOMAIN ocr |-> [ocr |-> ocr[i], cor |-> NoChar, cut |-> cuts[i],
                         id |-> i - 1, manually |-> FALSE]]

\* The cuts of an OCR result as the import finds them, character after character.
Evenly(ocr) == [i \in DOMAIN ocr |-> Width * i]

-----------------------------------------------------------------------------
Ids  == 0..MaxLine - 1 \* token ids in requests
Lens == {-1, 0, 2}       \* the parameter `len`; -1 when it is omitted

Init ==
  /\ line \in {OcrLine(o, Evenly(o)) : o \in Ocr \ {<<>>}}
  /\ given = line
  /\ edits = 0

(* A request that edits and stores the line.  A line without characters    *)
(* has no row in `contents` any more: it cannot be loaded.                 *)
Store(l) ==
  /\ line # <<>>
  /\ edits < MaxEdits
  /\ Len(l) <= MaxLine
  /\ line' = l
  /\ edits' = edits + 1

CorrectLine(gt, mode) ==
  /\ ~Conflict(line, Whole(line), mode)
  /\ Store(Corrected(line, Whole(line), gt, mode))
  /\ UNCHANGED given

CorrectToken(tid, len, gt, mode) ==
  /\ ~Conflict(line, Slice(line, tid, len), mode)
  /\ Store(Corrected(line, Slice(line, tid, len), gt, mode))
  /\ UNCHANGED given

ResetLine == Store(Reset(line, Whole(line))) /\ UNCHANGED given

ResetToken(tid, len) == Store(Reset(line, Slice(line, tid, len))) /\ UNCHANGED given

(* LineRoute::updateOCR: there must be as many cuts as characters; where   *)
(* they are is up to the client.                                           *)
UpdateOCR(ocr, cuts) ==
  /\ Len(ocr) = Len(cuts)
  /\ Store(OcrLine(ocr, cuts))
  /\ given' = OcrLine(ocr, cuts)

Next ==
  \/ \E gt \in Text, mode \in Mode : CorrectLine(gt, mode)
  \/ \E tid \in Ids, len \in Lens, gt \in Text, mode \in Mode : CorrectToken(tid, len, gt, mode)
  \/ ResetLine
  \/ \E tid \in Ids, len \in Lens : ResetToken(tid, len)
  \/ \E ocr \in Ocr, cuts \in Cuts : UpdateOCR(ocr, cuts)

Spec == Init /\ [][Next]_vars

-----------------------------------------------------------------------------
(* Properties.  What an edit does is stated of every edit of the line in a *)
(* state, so that it is checked in all lines the edits before it lead to.  *)

\* The slices a request can address.
Slices(l) == {Whole(l)} \cup {Slice(l, tid, len) : tid \in Ids, len \in Lens}

(* The line is a list of characters (DbChar), within its bounds, and so is *)
(* what it was made of.                                                    *)
TypeOK ==
  /\ edits \in 0..MaxEdits
  /\ Len(line) <= MaxLine
  /\ {line, given} \subseteq Seq(DbChar)

(* What a POST was given is what the slice reads afterwards, however often *)
(* and in whatever pieces the line was corrected before; the rest of the   *)
(* line and the OCR result are as before (TestDbLineCorrectFuzzy).         *)
CorrectionReadsBack ==
  LET ocr == Wocr(line) IN
  \A s \in Slices(line), gt \in Text :
    LET new == Corrected(line, s, gt, "manual")
        tail == Len(new) - (Len(line) - s.to)
    IN  /\ Wcor(SubSeq(new, s.from, tail - 1)) = gt
        /\ Prefix(new, s) = Prefix(line, s)
        /\ SubSeq(new, tail, Len(new)) = Suffix(line, s)
        /\ Wocr(new) = ocr

(* Resetting a line undoes everything that was done to it since its last   *)
(* OCR result, imported or sent by a client: no character, no cut and no   *)
(* id of it is lost, and nothing is left of the corrections.               *)
ResetUndoes == Reset(line, Whole(line)) = given

\* Boxes of the characters, one after the other, that lie in the line's box.
Orderly(l) ==
  /\ \A i, j \in DOMAIN l : i < j => l[i].cut <= l[j].cut
  /\ \A i \in DOMAIN l : l[i].cut \in Left..Right

(* If the cuts of the last OCR result are in order, the cuts of the line   *)
(* stay in order, so that the boxes of tokens do not overlap, for any      *)
(* sequence of insertions between and behind other insertions.  The server *)
(* stores the cuts a client sends with a new OCR result as they are, so    *)
(* nothing more can be said: out of order, they are kept out of order.     *)
CutsInOrder == Orderly(given) => Orderly(line)

(* An automatic correction that is not refused leaves the manually         *)
(* corrected characters of the line, those it inserted included.           *)
AutomaticKeepsManual ==
  LET Manual(l) == Those(l, {c \in DbChar : c.manually})
      before    == Manual(line)
  IN  \A s \in {t \in Slices(line) : ~Conflict(line, t, "automatic")}, gt \in Text :
        Manual(Corrected(line, s, gt, "automatic")) = before

\* The ids the server reports for tokens lead back to them.
TokensFound(l) == \A t \in Tokens(l) : Slice(l, l[t.from].id, -1) = t

(* Whatever token corrections have done to the ids, a correction of the    *)
(* whole line makes them unique again (DbSlice::reset renumbers from 0,    *)
(* DbSlice::insert counts on from there).                                  *)
LineCorrectionRenumbers ==
  \A gt \in Text : TokensFound(Corrected(line, Whole(line), gt, "manual"))

(* A client that repeats the correction of a line because it has missed    *)
(* the answer does not change a character, an id or a flag again.  (It may *)
(* move the cut of an insertion at the line's end: the box that cut is     *)
(* half of ends at the old insertion.)                                     *)
RetryIsHarmless ==
  LET Uncut(l) == [i \in DOMAIN l |-> [l[i] EXCEPT !.cut = 0]] IN
  \A gt \in Text, mode \in Mode :
    LET new == Corrected(line, Whole(line), gt, mode)
    IN  Uncut(Corrected(new, Whole(new), gt, mode)) = Uncut(new)

\* Computed once.
Distances == [ocr \in Ocr |-> [gt \in Text |-> EditDistance(ocr, gt)]]

(* Backtracking finds a script of minimal cost, and operator() returns     *)
(* this cost.                                                              *)
ScriptIsMinimal ==
  LET ocr == Wocr(line) IN
  \A gt \in Text :
    ScriptCost(Script(ocr, gt)) = Distances[ocr][gt] /\ Lev(ocr, gt) = Distances[ocr][gt]

(* GET and POST of the token id the server has reported for a token are    *)
(* about this token: "a specific slice of the line starting at position    *)
(* `tid`" (doc.md).                                                        *)
TokenIdsFindTokens == TokensFound(line)

=============================================================================
