--------------------------- MODULE EditorDocument ---------------------------
(***************************************************************************)
(* The document of lattice-editor-core (crates/lattice-editor-core/src/    *)
(* lib.rs): a rope of UTF-8 text, its revision, selection, cached content  *)
(* hash and the undo and redo histories.  This module holds no state: each *)
(* method of Document is an operator from a document to a result           *)
(* [doc, ok], with ok = FALSE for an Err and doc what the call leaves      *)
(* behind either way.                                                      *)
(*                                                                         *)
(* A text is a sequence of bytes.  Offsets are byte offsets, as in the     *)
(* code; a character is one ASCII byte, or a lead byte followed by a       *)
(* continuation byte, so that an offset can fall inside a character.  A    *)
(* content hash is modelled by the text it was computed from.              *)
(***************************************************************************)
EXTENDS Naturals, Sequences, SequencesExt

CONSTANTS
    NoHash,      \* cached_content_hash = None
    MaxUsize     \* the largest byte offset, usize::MAX

Lead == "L"      \* the first byte of a two-byte character
Cont == "C"      \* its continuation byte
LF   == "n"
CR   == "r"
Byte == {"a", "b", Lead, Cont, LF, CR}

Selection == [anchor: Nat, head: Nat]
Caret(b)  == [anchor |-> b, head |-> b]
SelStart(sel) == IF sel.anchor < sel.head THEN sel.anchor ELSE sel.head
SelEnd(sel)   == IF sel.anchor > sel.head THEN sel.anchor ELSE sel.head
IsCaret(sel)  == sel.anchor = sel.head

Edit  == [start: Nat, deleted: Seq(Byte), inserted: Seq(Byte)]
Entry == [edits: Seq(Edit), before: Selection, after: Selection]

Document == [text: Seq(Byte), revision: Nat, clean: Nat, readOnly: BOOLEAN,
             selection: Selection, hash: Seq(Byte) \union {NoHash},
             undo: Seq(Entry), redo: Seq(Entry)]

(***************************************************************************)
(* The rope.                                                               *)
(***************************************************************************)
IsBoundary(t, b) == /\ b <= Len(t)
                    /\ b < Len(t) => t[b + 1] # Cont

\* try_char_to_byte(try_byte_to_char(b)): the start of the character that
\* holds byte b, the end of the text when b is the end.
CharStart(t, b) == CHOOSE s \in 0..b :
                      /\ IsBoundary(t, s)
                      /\ \A o \in s + 1..b : ~IsBoundary(t, o)

PreviousByte(t, b) == b - 1
PreviousChar(t, b) == LET s == CharStart(t, b)
                      IN  IF s = 0 THEN 0 ELSE CharStart(t, s - 1)

NextChar(t, b) == CHOOSE e \in b + 1..Len(t) :
                      /\ IsBoundary(t, e)
                      /\ \A o \in b + 1..e - 1 : ~IsBoundary(t, o)

\* A line ends after LF, after CR LF, and after a CR on its own.
EndsLine(t, b) == \/ t[b] = LF
                  \/ t[b] = CR /\ (b < Len(t) => t[b + 1] # LF)

LineStart(t, b) == CHOOSE s \in 0..b :
                      /\ s = 0 \/ EndsLine(t, s)
                      /\ \A o \in s + 1..b : ~EndsLine(t, o)

\* The end of the line that starts at s, without the LF or CR LF that
\* terminates it.  A lone CR is not trimmed.
LineEnd(t, s) ==
    LET e == CHOOSE o \in s..Len(t) :
                /\ o = Len(t) \/ (o > s /\ EndsLine(t, o))
                /\ \A p \in s + 1..o - 1 : ~EndsLine(t, p)
    IN  CASE e > s /\ t[e] = LF /\ e - 1 > s /\ t[e - 1] = CR -> e - 2
          [] e > s /\ t[e] = LF /\ ~(e - 1 > s /\ t[e - 1] = CR) -> e - 1
          [] OTHER -> e

Cut(t, s, e) == SubSeq(t, s + 1, e)

Splice(t, s, e, ins) == SubSeq(t, 1, s) \o ins \o SubSeq(t, e + 1, Len(t))

(***************************************************************************)
(* Documents.                                                              *)
(***************************************************************************)
NewDocument(source, readOnly) ==
    [text      |-> source,   revision  |-> 0,  clean |-> 0,
     readOnly  |-> readOnly, selection |-> Caret(0), hash |-> source,
     undo      |-> <<>>,     redo      |-> <<>>]

Ok(d)   == [doc |-> d, ok |-> TRUE]
Fail(d) == [doc |-> d, ok |-> FALSE]

Modified(d) == d.revision # d.clean

SetSelection(d, sel) ==
    IF IsBoundary(d.text, sel.anchor) /\ IsBoundary(d.text, sel.head)
    THEN Ok([d EXCEPT !.selection = sel])
    ELSE Fail(d)

MarkCleanUnchecked(d, revision) == Ok([d EXCEPT !.clean = d.revision])
MarkClean(d, revision) ==
    IF revision = d.revision THEN Ok([d EXCEPT !.clean = revision]) ELSE Fail(d)

\* sort_by_key(Reverse(start)): a stable sort by descending start.
Descending(ops) ==
    LET before(i, j) == \/ ops[i].start > ops[j].start
                        \/ ops[i].start = ops[j].start /\ i < j
        order == SortSeq([i \in DOMAIN ops |-> i], before)
    IN  [i \in DOMAIN ops |-> ops[order[i]]]

Accepts(st, op) == /\ op.start <= op.end
                   /\ op.end <= st.bound
                   /\ IsBoundary(st.text, op.start)
                   /\ IsBoundary(st.text, op.end)

\* One iteration of the loop of apply_transaction; a refused operation
\* ends the loop and keeps what the earlier ones did to the rope.
EditStep(st, op) ==
    IF ~st.ok \/ ~Accepts(st, op) THEN [st EXCEPT !.ok = FALSE]
    ELSE [text    |-> Splice(st.text, op.start, op.end, op.inserted),
          applied |-> Append(st.applied,
                             [start    |-> op.start,
                              deleted  |-> Cut(st.text, op.start, op.end),
                              inserted |-> op.inserted]),
          bound   |-> op.start,
          ok      |-> TRUE]

EditStart(d) == [text |-> d.text, applied |-> <<>>, bound |-> Len(d.text), ok |-> TRUE]

\* The loop; a transaction of the ABI has one operation.
EditAll(d, ops) == FoldLeft(EditStep, EditStart(d), Descending(ops))
EditRope(d, ops) == IF Len(ops) = 1 THEN EditStep(EditStart(d), ops[1]) ELSE EditAll(d, ops)

ApplyClearingRedoFirst(d, base, ops, before, after) ==
    LET done == EditRope(d, ops)
    IN  IF d.readOnly \/ base # d.revision THEN Fail(d)
        ELSE IF ~done.ok THEN Fail([d EXCEPT !.text = done.text, !.redo = <<>>])
        ELSE Ok([d EXCEPT !.text = done.text, !.hash = NoHash, !.revision = @ + 1,
                !.undo = Append(@, [edits |-> done.applied, before |-> before, after |-> after]),
                !.redo = <<>>, !.selection = after])

ApplyTransaction(d, base, ops, before, after) ==
    LET done == EditRope(d, ops)
    IN  CASE d.readOnly \/ base # d.revision -> Fail(d)
          [] ~d.readOnly /\ base = d.revision /\ ~done.ok
                -> Fail([d EXCEPT !.text = done.text])
          [] ~d.readOnly /\ base = d.revision /\ done.ok /\ ops = <<>> -> Ok(d)
          [] OTHER -> Ok([d EXCEPT
                !.text = done.text,
                !.hash = NoHash,
                !.revision = @ + 1,
                !.undo = Append(@, [edits |-> done.applied, before |-> before, after |-> after]),
                !.redo = <<>>,
                !.selection = after])

Replace(d, start, end, text, caret) ==
    ApplyTransaction(d, d.revision, <<[start |-> start, end |-> end, inserted |-> text]>>,
                     d.selection, Caret(caret))

\* start + inserted_length does not fit a usize: the build decides between
\* a panic and a wrapped caret.
InsertOverflows(d, text) == SelStart(d.selection) + Len(text) > MaxUsize

InsertText(d, text) ==
    LET start == SelStart(d.selection)
    IN  Replace(d, start, SelEnd(d.selection), text, (start + Len(text)) % (MaxUsize + 1))

DeleteBackward(d) ==
    LET sel == d.selection
    IN  CASE ~IsCaret(sel) -> Replace(d, SelStart(sel), SelEnd(sel), <<>>, SelStart(sel))
          [] IsCaret(sel) /\ sel.head = 0 -> Ok(d)
          [] IsCaret(sel) /\ sel.head > Len(d.text) -> Fail(d)
          [] OTHER -> LET s == PreviousChar(d.text, sel.head)
                      IN  Replace(d, s, sel.head, <<>>, s)

DeleteForward(d) ==
    LET sel == d.selection
    IN  CASE ~IsCaret(sel) -> Replace(d, SelStart(sel), SelEnd(sel), <<>>, SelStart(sel))
          [] IsCaret(sel) /\ sel.head >= Len(d.text) -> Ok(d)
          [] OTHER -> Replace(d, sel.head, NextChar(d.text, sel.head), <<>>, sel.head)

CaretMovement == {"Left", "Right", "Home", "End"}

MoveCaret(d, direction) ==
    LET sel    == d.selection
        inside == sel.head <= Len(d.text)
        to(b)  == Ok([d EXCEPT !.selection = Caret(b)])
        line   == LineStart(d.text, CharStart(d.text, sel.head))
    IN  CASE direction = "Left" /\ ~IsCaret(sel)  -> to(SelStart(sel))
          [] direction = "Right" /\ ~IsCaret(sel) -> to(SelEnd(sel))
          [] direction = "Right" /\ IsCaret(sel) /\ sel.head >= Len(d.text) -> to(Len(d.text))
          [] direction # "Right" /\ (direction = "Left" => IsCaret(sel)) /\ ~inside -> Fail(d)
          [] direction = "Left" /\ IsCaret(sel) /\ inside -> to(PreviousChar(d.text, sel.head))
          [] direction = "Right" /\ IsCaret(sel) /\ sel.head < Len(d.text)
                -> to(NextChar(d.text, sel.head))
          [] direction = "Home" /\ inside -> to(line)
          [] direction = "End" /\ inside  -> to(LineEnd(d.text, line))

(***************************************************************************)
(* History: an entry is popped before its edits are replayed.              *)
(***************************************************************************)
ReplaceBytes(st, start, end, replacement) ==
    IF st.ok /\ IsBoundary(st.text, start) /\ IsBoundary(st.text, end)
    THEN [text |-> Splice(st.text, start, end, replacement), ok |-> TRUE]
    ELSE [text |-> st.text, ok |-> FALSE]

RevertStep(st, edit) ==
    ReplaceBytes(st, edit.start, edit.start + Len(edit.inserted), edit.deleted)
ReplayStep(st, edit) ==
    ReplaceBytes(st, edit.start, edit.start + Len(edit.deleted), edit.inserted)

RevertAll(text, edits) == FoldLeft(RevertStep, [text |-> text, ok |-> TRUE], edits)
ReplayAll(text, edits) == FoldLeft(ReplayStep, [text |-> text, ok |-> TRUE], edits)

RevertedForward(text, edits) == RevertAll(text, edits)
Reverted(text, edits) == IF Len(edits) = 1 THEN RevertStep([text |-> text, ok |-> TRUE], edits[1])
                         ELSE RevertAll(text, Reverse(edits))
Replayed(text, edits) == IF Len(edits) = 1 THEN ReplayStep([text |-> text, ok |-> TRUE], edits[1])
                         ELSE ReplayAll(text, edits)

Top(seq) == seq[Len(seq)]
Pop(seq) == SubSeq(seq, 1, Len(seq) - 1)

UndoToOldRevision(d) ==
    IF d.readOnly \/ d.undo = <<>> THEN Fail(d)
    ELSE LET entry == Top(d.undo)
             done  == Reverted(d.text, entry.edits)
         IN  IF ~done.ok THEN Fail([d EXCEPT !.undo = Pop(@), !.text = done.text])
             ELSE Ok([d EXCEPT !.undo = Pop(@), !.text = done.text, !.revision = @ - 1,
                               !.hash = NoHash, !.selection = entry.before,
                               !.redo = Append(@, entry)])

Undo(d) ==
    IF d.readOnly \/ d.undo = <<>> THEN Fail(d)
    ELSE LET entry  == Top(d.undo)
             done   == Reverted(d.text, entry.edits)
             popped == [d EXCEPT !.undo = Pop(@), !.text = done.text]
         IN  IF ~done.ok THEN Fail(popped)
             ELSE Ok([popped EXCEPT !.revision = @ + 1, !.hash = NoHash,
                                    !.selection = entry.before,
                                    !.redo = Append(@, entry)])

Redo(d) ==
    IF d.readOnly \/ d.redo = <<>> THEN Fail(d)
    ELSE LET entry  == Top(d.redo)
             done   == Replayed(d.text, entry.edits)
             popped == [d EXCEPT !.redo = Pop(@), !.text = done.text]
         IN  IF ~done.ok THEN Fail(popped)
             ELSE Ok([popped EXCEPT !.revision = @ + 1, !.hash = NoHash,
                                    !.selection = entry.after,
                                    !.undo = Append(@, entry)])

\* The part of a viewport snapshot that identifies the content; the line
\* window is layout.
Viewport(d) == [revision |-> d.revision, text |-> d.text, hash |-> d.hash,
                selection |-> d.selection, modified |-> Modified(d)]
=============================================================================
