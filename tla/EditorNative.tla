---------------------------- MODULE EditorNative ----------------------------
(***************************************************************************)
(* The C ABI over the editor core (crates/lattice-editor-native/src/       *)
(* lib.rs) and the document table behind it (Editor in lattice-editor-     *)
(* core).  Every exported function is an action: it takes the editor lock, *)
(* runs one operation of EditorDocument on one document and leaves the     *)
(* error text of a failed call in last_error.  LibraryTransaction is the   *)
(* core's own entry point, which takes several edits at once; the ABI      *)
(* sends one.                                                              *)
(*                                                                         *)
(* trail, views, saved, opened and torn are history variables: they record *)
(* what the caller has seen and saved and never influence a step.          *)
(***************************************************************************)
EXTENDS EditorDocument

CONSTANTS
    Ids,             \* document ids
    Closed,          \* an id that is not in the table
    Sources,         \* texts a document is opened with
    Inserts,         \* texts a call inserts
    Edits,           \* the [start, end, inserted] a call may send
    Transactions,    \* the sequences of edits the library entry point may get
    Selections,      \* selections a call may send
    OverflowChecks,  \* the build panics on integer overflow
    MaxRevision,     \* bound on a document's revision
    MaxOpens,        \* bound on how often an id is opened
    MaxBytes         \* bound on a document's length

\* The texts of a Rust &str: none begins inside a character.
Utf8 == {t \in Seq(Byte) : Len(t) > 0 => t[1] # Cont}

ASSUME EditorAssumption ==
    /\ Sources \subseteq Utf8 /\ Inserts \subseteq Utf8
    /\ \A edit \in Edits : edit.start \in Nat /\ edit.end \in Nat /\ edit.inserted \in Utf8
    /\ Selections \subseteq Selection
    /\ MaxUsize \in Nat /\ Closed \notin Document

VARIABLES
    docs,        \* Editor.documents
    poisoned,    \* a panic left the editor mutex poisoned
    lastError,   \* EditorHandle.last_error is set
    trail,       \* the texts before each undo entry and after each redo entry
    views,       \* the caller's latest viewport snapshot of each document
    saved,       \* what the clean revision stands for: the text the caller saved, the
                 \* opening it saw that text in, and the text that was marked clean
    opened,      \* how often the id was opened
    torn         \* a failed call changed the text

state   == <<docs, poisoned, lastError>>
history == <<trail, views, saved, opened, torn>>
vars    == <<state, history>>

NoView == [opened |-> 0, revision |-> 0, text |-> <<>>, hash |-> NoHash]

Init == /\ docs = [id \in Ids |-> Closed]
        /\ poisoned = FALSE
        /\ lastError = FALSE
        /\ trail = [id \in Ids |-> [past |-> <<>>, future |-> <<>>]]
        /\ views = [id \in Ids |-> NoView]
        /\ saved = [id \in Ids |-> [opened |-> 0, text |-> <<>>, marked |-> <<>>]]
        /\ opened = [id \in Ids |-> 0]
        /\ torn = [id \in Ids |-> FALSE]

\* document_mut and document: the lock is not poisoned, the id is open.
Usable(id) == ~poisoned /\ docs[id] # Closed

Refuse == /\ lastError' = TRUE
          /\ UNCHANGED <<docs, poisoned, history>>

\* A call that ran: its document and its error.
Return(id, result) == /\ docs' = [docs EXCEPT ![id] = result.doc]
                      /\ lastError' = ~result.ok
                      /\ UNCHANGED poisoned

\* A call that does not edit the text.
Touch(id, result) == Return(id, result) /\ UNCHANGED history

\* A call that may edit the text: the trail follows the undo stack.
Edited(id, result) ==
    /\ Return(id, result)
    /\ trail' = IF result.doc.revision = docs[id].revision THEN trail
                ELSE [trail EXCEPT ![id] = [past |-> Append(@.past, docs[id].text),
                                            future |-> <<>>]]
    /\ UNCHANGED <<views, saved, opened, torn>>

MayEdit(id) == IF docs[id] = Closed THEN TRUE ELSE docs[id].revision < MaxRevision

(***************************************************************************)
(* The handle and the table.                                               *)
(***************************************************************************)

\* The trail of closed documents is of no use.
Forget(S) ==
    /\ trail' = [id \in Ids |-> IF id \in S THEN [past |-> <<>>, future |-> <<>>] ELSE trail[id]]
    /\ torn' = [id \in Ids |-> id \notin S /\ torn[id]]

\* lattice_editor_destroy and a new lattice_editor_create.
Recreate ==
    /\ docs' = [id \in Ids |-> Closed]
    /\ poisoned' = FALSE
    /\ lastError' = FALSE
    /\ Forget(Ids)
    /\ UNCHANGED <<views, saved, opened>>

Open(id, source, readOnly) ==
    IF poisoned \/ docs[id] # Closed THEN Refuse
    ELSE /\ opened[id] < MaxOpens
         /\ docs' = [docs EXCEPT ![id] = NewDocument(source, readOnly)]
         /\ lastError' = FALSE
         /\ opened' = [opened EXCEPT ![id] = @ + 1]
         /\ saved' = [saved EXCEPT ![id] = [opened |-> opened[id] + 1,
                                            text |-> source, marked |-> source]]
         /\ UNCHANGED <<poisoned, views, trail, torn>>

Close(id) ==
    IF ~Usable(id) THEN Refuse
    ELSE /\ docs' = [docs EXCEPT ![id] = Closed]
         /\ lastError' = FALSE
         /\ Forget({id})
         /\ UNCHANGED <<poisoned, views, saved, opened>>

\* A null buffer, text that is not UTF-8, an unknown caret movement.
RejectArgument == Refuse

\* lattice_editor_last_error takes the message.
TakeError == /\ lastError' = FALSE
             /\ UNCHANGED <<docs, poisoned, history>>

(***************************************************************************)
(* Edits.                                                                  *)
(***************************************************************************)
ApplyEdit(id, base, edit, after) ==
    /\ MayEdit(id)
    /\ IF ~Usable(id) THEN Refuse
       ELSE Edited(id, ApplyTransaction(docs[id], base, <<edit>>, docs[id].selection, after))

\* An overflowing caret panics in a checked build: the panic is contained,
\* and the mutex it was holding is poisoned.
InsertTextAt(id, text) ==
    /\ MayEdit(id)
    /\ CASE ~Usable(id) -> Refuse
         [] Usable(id) /\ OverflowChecks /\ InsertOverflows(docs[id], text)
              -> /\ poisoned' = TRUE
                 /\ lastError' = TRUE
                 /\ UNCHANGED <<docs, history>>
         [] OTHER -> Edited(id, InsertText(docs[id], text))

EditOperation(id, result) ==
    /\ MayEdit(id)
    /\ IF ~Usable(id) THEN Refuse ELSE Edited(id, result)

DeleteBackwardAt(id) == EditOperation(id, DeleteBackward(docs[id]))
DeleteForwardAt(id)  == EditOperation(id, DeleteForward(docs[id]))

MoveCaretAt(id, direction) ==
    IF ~Usable(id) THEN Refuse ELSE Touch(id, MoveCaret(docs[id], direction))

SetSelectionAt(id, sel) ==
    IF ~Usable(id) THEN Refuse ELSE Touch(id, SetSelection(docs[id], sel))

\* The trail of a history call that went through.
Moved(id, result, past, future) ==
    /\ Return(id, result)
    /\ trail' = IF result.ok THEN [trail EXCEPT ![id] = [past |-> past, future |-> future]]
                ELSE trail
    /\ UNCHANGED <<views, saved, opened, torn>>

UndoAt(id) ==
    /\ MayEdit(id)
    /\ IF ~Usable(id) THEN Refuse
       ELSE Moved(id, Undo(docs[id]), Pop(trail[id].past),
                  Append(trail[id].future, docs[id].text))

RedoAt(id) ==
    /\ MayEdit(id)
    /\ IF ~Usable(id) THEN Refuse
       ELSE Moved(id, Redo(docs[id]), Append(trail[id].past, docs[id].text),
                  Pop(trail[id].future))

\* The core's apply_transaction with any number of operations.
LibraryTransaction(id, base, ops, after) ==
    /\ MayEdit(id)
    /\ Usable(id)
    /\ LET d == docs[id]
           r == ApplyTransaction(d, base, ops, d.selection, after)
       IN  /\ Return(id, r)
           /\ trail' = IF r.doc.revision = d.revision THEN trail
                       ELSE [trail EXCEPT ![id] = [past |-> Append(@.past, d.text),
                                                   future |-> <<>>]]
           /\ torn' = [torn EXCEPT ![id] = @ \/ (~r.ok /\ r.doc # d)]
           /\ UNCHANGED <<views, saved, opened>>

(***************************************************************************)
(* Reads and saves.  The caller saves the text of its latest snapshot      *)
(* outside the editor and then marks that revision clean.                  *)
(***************************************************************************)
Snapshot(id) ==
    IF ~Usable(id) THEN Refuse
    ELSE LET v == Viewport(docs[id])
         IN  /\ views' = [views EXCEPT ![id] = [opened |-> opened[id], revision |-> v.revision,
                                                text |-> v.text, hash |-> v.hash]]
             /\ lastError' = FALSE
             /\ UNCHANGED <<docs, poisoned, trail, saved, opened, torn>>

\* selection_text, luau_analysis_json and text change nothing.
Read(id) == IF ~Usable(id) THEN Refuse
            ELSE /\ lastError' = FALSE
                 /\ UNCHANGED <<docs, poisoned, history>>

MarkCleanAt(id) ==
    IF ~Usable(id) THEN Refuse
    ELSE LET r == MarkClean(docs[id], views[id].revision)
         IN  /\ Return(id, r)
             /\ saved' = IF r.ok THEN [saved EXCEPT ![id] = [opened |-> views[id].opened,
                                                             text |-> views[id].text,
                                                             marked |-> docs[id].text]]
                         ELSE saved
             /\ UNCHANGED <<trail, views, opened, torn>>

(***************************************************************************)
(* A caller sends the revision it last saw.                                *)
(***************************************************************************)
AbiNext ==
    \/ Recreate
    \/ RejectArgument
    \/ TakeError
    \/ \E id \in Ids :
          \/ \E source \in Sources, readOnly \in BOOLEAN : Open(id, source, readOnly)
          \/ Close(id)
          \/ \E edit \in Edits, after \in Selections :
                ApplyEdit(id, views[id].revision, edit, after)
          \/ \E text \in Inserts : InsertTextAt(id, text)
          \/ DeleteBackwardAt(id)
          \/ DeleteForwardAt(id)
          \/ \E direction \in CaretMovement : MoveCaretAt(id, direction)
          \/ \E sel \in Selections : SetSelectionAt(id, sel)
          \/ UndoAt(id)
          \/ RedoAt(id)
          \/ Snapshot(id)
          \/ Read(id)
          \/ MarkCleanAt(id)

LibraryNext == \E id \in Ids, ops \in Transactions, after \in Selections :
                  LibraryTransaction(id, views[id].revision, ops, after)

Next == AbiNext \/ LibraryNext

AbiSpec == Init /\ [][AbiNext]_vars
Spec    == Init /\ [][Next]_vars

(***************************************************************************)
(* Properties.                                                             *)
(***************************************************************************)
Text == Seq(Byte)

\* Every document in the table is a document, and the history variables
\* have their types.
TypeOK ==
    /\ docs \in [Ids -> Document \union {Closed}]
    /\ poisoned \in BOOLEAN
    /\ lastError \in BOOLEAN
    /\ trail \in [Ids -> [past: Seq(Text), future: Seq(Text)]]
    /\ views \in [Ids -> [opened: Nat, revision: Nat, text: Text, hash: Text \union {NoHash}]]
    /\ saved \in [Ids -> [opened: Nat, text: Text, marked: Text]]
    /\ opened \in [Ids -> Nat]
    /\ torn \in [Ids -> BOOLEAN]

Intact(id) == docs[id] # Closed /\ ~torn[id]

\* An entry takes one text to another and back.
Links(entry, from, to) ==
    /\ Replayed(from, entry.edits) = [text |-> to, ok |-> TRUE]
    /\ Reverted(to, entry.edits) = [text |-> from, ok |-> TRUE]

\* Undo and redo always reach exactly the text the caller saw at that point
\* of the history, whatever sequence of edits, undos and redos led there:
\* each entry of the undo stack links the text before it to the text after
\* it, each entry of the redo stack likewise.
HistoryExact ==
    \A id \in Ids : Intact(id) =>
        LET d == docs[id]
            past == trail[id].past
            future == trail[id].future
        IN  /\ Len(past) = Len(d.undo) /\ Len(future) = Len(d.redo)
            /\ \A i \in 1..Len(d.undo) :
                  Links(d.undo[i], past[i], IF i = Len(past) THEN d.text ELSE past[i + 1])
            /\ \A i \in 1..Len(d.redo) :
                  Links(d.redo[i], IF i = Len(future) THEN d.text ELSE future[i + 1], future[i])

\* A revision names one text: as long as the document of a snapshot stays
\* open, the same revision means the same text, so that an edit or a save
\* that was prepared from a snapshot and is accepted refers to the text it
\* was prepared from.  A cached content hash is the hash of the text.
RevisionNamesText ==
    \A id \in Ids : Intact(id) =>
        /\ docs[id].hash \in {docs[id].text, NoHash}
        /\ views[id].opened = opened[id] =>
              /\ views[id].revision <= docs[id].revision
              /\ views[id].revision = docs[id].revision => views[id].text = docs[id].text

\* A document that reports itself unmodified holds the text it was opened
\* with or had when the caller last marked it clean; and that is the text the
\* caller saved, provided the caller had seen it in the present opening.  A
\* revision seen in an earlier opening does not qualify: revisions begin at
\* zero at each opening, and mark_clean accepts an equal number, so that the
\* document is then clean with a text nobody saved.
CleanIsSaved ==
    \A id \in Ids : Intact(id) =>
        /\ docs[id].clean <= docs[id].revision
        /\ ~Modified(docs[id]) => docs[id].text = saved[id].marked
        /\ saved[id].opened = opened[id] => saved[id].marked = saved[id].text

\* A call that reports an error leaves every document as it was, histories
\* and revision included.  The library's transactions of several edits are
\* the exception: one that fails half-way may leave the text of its document
\* changed, and nothing else of it; the histories of that document no longer
\* fit, and a later undo or redo of it may fail with its entry lost.
FailedCallChangesNothing ==
    [][lastError' =>
         \A id \in Ids :
            \/ torn[id]
            \/ docs'[id] = docs[id]
            \/ torn'[id] /\ docs'[id] = [docs[id] EXCEPT !.text = docs'[id].text]]_vars
=============================================================================
