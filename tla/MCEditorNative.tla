--------------------------- MODULE MCEditorNative ---------------------------
(***************************************************************************)
(* Values for the constants of EditorNative: one document of at most four  *)
(* bytes over ASCII, a two-byte character and line breaks; offset 7 stands *)
(* for usize::MAX.                                                         *)
(***************************************************************************)
EXTENDS EditorNative

MCSources == {<<Lead, Cont, LF>>, <<CR, LF>>}
MCInserts == {<<"b">>}
MCEdits   == {[start |-> 1, end |-> 2, inserted |-> <<"b">>]}
Insert(b) == [start |-> b, end |-> b, inserted |-> <<"b">>]
Delete(s, e) == [start |-> s, end |-> e, inserted |-> <<>>]
MCTransactions == {<<>>, <<Insert(0), Delete(0, 2)>>, <<Delete(0, 2), Insert(3)>>}
MCSelections == {[anchor |-> 2, head |-> 0], Caret(7)}

\* Histories are explored to MaxRevision in an intact document of the first
\* opening; reopened, torn or poisoned documents to one revision.
Bound == \A id \in Ids : docs[id] # Closed =>
            /\ Len(docs[id].text) <= MaxBytes
            /\ poisoned \/ torn[id] \/ opened[id] > 1 => docs[id].revision <= 1
=============================================================================
