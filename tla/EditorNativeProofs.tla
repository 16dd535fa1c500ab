------------------------- MODULE EditorNativeProofs -------------------------
(***************************************************************************)
(* Proofs about the documents behind the C ABI of the editor, for every    *)
(* text, edit, selection and number of documents and calls.                *)
(***************************************************************************)
EXTENDS EditorNative, SequenceTheorems, WellFoundedInduction, TLAPS

----------------------------------------------------------------------------
(* Least and greatest offsets                                              *)

LEMMA Least ==
  ASSUME NEW S \in SUBSET Nat, S # {}
  PROVE  \E n \in S : \A m \in S : n <= m
  <1> DEFINE R == {ss \in Nat \X Nat : ss[1] < ss[2]}
  <1>1. IsWellFoundedOn(R, Nat)
    BY NatLessThanWellFounded DEF OpToRel
  <1> HIDE DEF R
  <1>2. PICK n \in S : \A m \in S : <<m, n>> \notin R
    BY <1>1, WFMin
  <1>3. \A m \in S : ~ (m < n)
    BY <1>2 DEF R
  <1> QED BY <1>3

LEMMA Greatest ==
  ASSUME NEW b \in Nat, NEW S \in SUBSET (0..b), S # {}
  PROVE  \E n \in S : \A m \in S : m <= n
  <1> DEFINE T == {b - m : m \in S}
  <1>0. \A m \in S : m \in Int /\ b - m \in Nat
    OBVIOUS
  <1>1. T \in SUBSET Nat /\ T # {}
    BY <1>0
  <1>2. PICK n \in T : \A m \in T : n <= m
    BY <1>1, Least
  <1>3. PICK k \in S : n = b - k
    BY <1>2
  <1>4. \A m \in S : b - k <= b - m
    BY <1>2, <1>3
  <1> QED BY <1>0, <1>4

\* Where characters and lines start and end.
LEMMA CharStartType ==
  ASSUME NEW t \in Utf8, NEW b \in Nat
  PROVE  CharStart(t, b) \in 0..b
  <1> DEFINE S == {s \in 0..b : IsBoundary(t, s)}
  <1>1. Len(t) \in Nat
    BY DEF Utf8
  <1>2. 0 \in S
    BY <1>1 DEF IsBoundary, Utf8
  <1>3. PICK n \in S : \A m \in S : m <= n
    BY <1>2, Greatest
  <1>4. n \in 0..b /\ IsBoundary(t, n) /\ \A o \in n + 1..b : ~IsBoundary(t, o)
    BY <1>3
  <1> HIDE DEF S
  <1> QED BY <1>4 DEF CharStart

LEMMA NextCharType ==
  ASSUME NEW t \in Utf8, NEW b \in Nat, b < Len(t)
  PROVE  NextChar(t, b) \in b + 1..Len(t)
  <1> DEFINE S == {e \in b + 1..Len(t) : IsBoundary(t, e)}
  <1>1. Len(t) \in Nat
    BY DEF Utf8
  <1>2. Len(t) \in S /\ S \in SUBSET Nat
    BY <1>1 DEF IsBoundary
  <1>3. PICK n \in S : \A m \in S : n <= m
    BY <1>2, Least
  <1>4. n \in b + 1..Len(t) /\ IsBoundary(t, n) /\ \A o \in b + 1..n - 1 : ~IsBoundary(t, o)
    BY <1>1, <1>3
  <1> HIDE DEF S
  <1> QED BY <1>4 DEF NextChar

LEMMA LineStartType ==
  ASSUME NEW t, NEW b \in Nat
  PROVE  LineStart(t, b) \in 0..b
  <1> DEFINE S == {s \in 0..b : s = 0 \/ EndsLine(t, s)}
  <1>1. 0 \in S
    OBVIOUS
  <1>2. PICK n \in S : \A m \in S : m <= n
    BY <1>1, Greatest
  <1>3. n \in 0..b /\ (n = 0 \/ EndsLine(t, n)) /\ \A o \in n + 1..b : ~EndsLine(t, o)
    BY <1>2
  <1> HIDE DEF S
  <1> QED BY <1>3 DEF LineStart

LEMMA LineEndType ==
  ASSUME NEW t \in Utf8, NEW s \in Nat, s <= Len(t)
  PROVE  LineEnd(t, s) \in Nat
  <1> DEFINE S == {o \in s..Len(t) : o = Len(t) \/ (o > s /\ EndsLine(t, o))}
             ends(o) == /\ o = Len(t) \/ (o > s /\ EndsLine(t, o))
                        /\ \A p \in s + 1..o - 1 : ~EndsLine(t, p)
             e == CHOOSE o \in s..Len(t) : ends(o)
  <1>1. Len(t) \in Nat
    BY DEF Utf8
  <1>2. Len(t) \in S /\ S \in SUBSET Nat
    BY <1>1
  <1>3. PICK n \in S : \A m \in S : n <= m
    BY <1>2, Least
  <1>4. n \in s..Len(t) /\ ends(n)
    BY <1>1, <1>3
  <1>5. e \in s..Len(t)
    BY <1>4
  <1>6. LineEnd(t, s) = CASE e > s /\ t[e] = LF /\ e - 1 > s /\ t[e - 1] = CR -> e - 2
                          [] e > s /\ t[e] = LF /\ ~(e - 1 > s /\ t[e - 1] = CR) -> e - 1
                          [] OTHER -> e
    BY DEF LineEnd
  <1> HIDE DEF e, S
  <1> QED BY <1>1, <1>5, <1>6

----------------------------------------------------------------------------
(* Splicing and undoing it                                                 *)

\* u is t with [s, e) replaced by ins.
Spliced(t, s, e, ins, u) ==
  /\ u \in Seq(Byte)
  /\ Len(u) = Len(t) - (e - s) + Len(ins)
  /\ \A i \in 1..Len(u) : u[i] = IF i <= s THEN t[i]
                                 ELSE IF i <= s + Len(ins) THEN ins[i - s]
                                 ELSE t[i - Len(ins) + (e - s)]

LEMMA SpliceProperties ==
  ASSUME NEW t \in Seq(Byte), NEW ins \in Seq(Byte), NEW s \in Nat, NEW e \in Nat,
         s <= e, e <= Len(t)
  PROVE  Spliced(t, s, e, ins, Splice(t, s, e, ins))
  <1>0. Len(t) \in Nat /\ Len(ins) \in Nat /\ \A i \in 1..Len(t) : t[i] \in Byte
    BY LenProperties, ElementOfSeq
  <1> DEFINE a == SubSeq(t, 1, s)
             z == SubSeq(t, e + 1, Len(t))
             m == a \o ins
  <1>1. a \in Seq(Byte) /\ Len(a) = s /\ \A i \in 1..s : a[i] = t[i]
    BY <1>0, SubSeqProperties
  <1>2. z \in Seq(Byte) /\ Len(z) = Len(t) - e /\ \A i \in 1..Len(t) - e : z[i] = t[e + i]
    <2>1. /\ z \in Seq(Byte)
          /\ Len(z) = IF e + 1 <= Len(t) THEN Len(t) - (e + 1) + 1 ELSE 0
          /\ \A i \in 1..Len(t) - (e + 1) + 1 : z[i] = t[e + 1 + i - 1]
      BY <1>0, SubSeqProperties
    <2> QED BY <1>0, <2>1
  <1> HIDE DEF a, z
  <1>3. /\ m \in Seq(Byte) /\ Len(m) = s + Len(ins)
        /\ \A i \in 1..s + Len(ins) : m[i] = IF i <= s THEN a[i] ELSE ins[i - s]
    BY <1>1, ConcatProperties
  <1> HIDE DEF m
  <1>4. /\ m \o z \in Seq(Byte) /\ Len(m \o z) = Len(m) + Len(z)
        /\ \A i \in 1..Len(m) + Len(z) : (m \o z)[i] = IF i <= Len(m) THEN m[i] ELSE z[i - Len(m)]
    <2>1. m \in Seq(Byte) /\ z \in Seq(Byte)
      BY <1>2, <1>3
    <2> QED BY <2>1, ConcatProperties
  <1>5. Splice(t, s, e, ins) = m \o z
    BY DEF Splice, a, m, z
  <1>6. Len(m \o z) = Len(t) - (e - s) + Len(ins)
    BY <1>0, <1>2, <1>3, <1>4
  <1>7. ASSUME NEW i \in 1..Len(m \o z)
        PROVE  (m \o z)[i] = IF i <= s THEN t[i]
                             ELSE IF i <= s + Len(ins) THEN ins[i - s]
                             ELSE t[i - Len(ins) + (e - s)]
    <2>1. CASE i <= s
      BY <1>0, <1>1, <1>2, <1>3, <1>4, <2>1
    <2>2. CASE ~(i <= s) /\ i <= s + Len(ins)
      BY <1>0, <1>2, <1>3, <1>4, <2>2
    <2>3. CASE ~(i <= s + Len(ins))
      <3>1. (m \o z)[i] = z[i - (s + Len(ins))] /\ i - (s + Len(ins)) \in 1..Len(t) - e
        BY <1>0, <1>2, <1>3, <1>4, <2>3
      <3>2. z[i - (s + Len(ins))] = t[e + (i - (s + Len(ins)))]
        BY <1>2, <3>1
      <3>3. e + (i - (s + Len(ins))) = i - Len(ins) + (e - s)
        BY <1>0
      <3> QED BY <1>0, <2>3, <3>1, <3>2, <3>3
    <2> QED BY <2>1, <2>2, <2>3
  <1> QED BY <1>4, <1>5, <1>6, <1>7 DEF Spliced

\* Replacing [s, e) between two characters, and putting back what was cut.
Undone(t, s, e, ins, u, c) ==
  /\ u \in Utf8 /\ c \in Utf8
  /\ Len(c) = e - s
  /\ IsBoundary(u, s) /\ IsBoundary(u, s + Len(ins))
  /\ Splice(u, s, s + Len(ins), c) = t

LEMMA SpliceUndone ==
  ASSUME NEW t \in Utf8, NEW ins \in Utf8, NEW s \in Nat, NEW e \in Nat, s <= e, e <= Len(t),
         IsBoundary(t, s), IsBoundary(t, e),
         NEW u, u = Splice(t, s, e, ins), NEW c, c = Cut(t, s, e)
  PROVE  Undone(t, s, e, ins, u, c)
  <1>0. /\ t \in Seq(Byte) /\ ins \in Seq(Byte) /\ Len(t) \in Nat /\ Len(ins) \in Nat
        /\ Len(t) > 0 => t[1] # Cont
        /\ Len(ins) > 0 => ins[1] # Cont
    BY DEF Utf8
  <1>1. /\ u \in Seq(Byte) /\ Len(u) = Len(t) - (e - s) + Len(ins)
        /\ \A i \in 1..Len(u) : u[i] = IF i <= s THEN t[i]
                                       ELSE IF i <= s + Len(ins) THEN ins[i - s]
                                       ELSE t[i - Len(ins) + (e - s)]
    <2>1. Spliced(t, s, e, ins, u)
      BY <1>0, SpliceProperties
    <2> QED BY <2>1 DEF Spliced
  <1>2. c \in Seq(Byte) /\ Len(c) = e - s /\ \A i \in 1..e - s : c[i] = t[s + i]
    <2>1. \A i \in s + 1..e : t[i] \in Byte
      BY <1>0, ElementOfSeq
    <2>2. /\ c \in Seq(Byte)
          /\ Len(c) = IF s + 1 <= e THEN e - (s + 1) + 1 ELSE 0
          /\ \A i \in 1..e - (s + 1) + 1 : c[i] = t[s + 1 + i - 1]
      BY <2>1, SubSeqProperties DEF Cut
    <2> QED BY <2>2
  <1>3. /\ s < Len(t) => t[s + 1] # Cont
        /\ e < Len(t) => t[e + 1] # Cont
    BY DEF IsBoundary
  <1>4. c \in Utf8
    <2>1. Len(c) > 0 => c[1] = t[s + 1] /\ s < Len(t)
      BY <1>0, <1>2
    <2> QED BY <1>2, <1>3, <2>1 DEF Utf8
  <1>5. IsBoundary(u, s + Len(ins))
    <2>1. s + Len(ins) < Len(u) => u[s + Len(ins) + 1] = t[e + 1] /\ e < Len(t)
      <3> SUFFICES ASSUME s + Len(ins) < Len(u) PROVE u[s + Len(ins) + 1] = t[e + 1] /\ e < Len(t)
        OBVIOUS
      <3> DEFINE i == s + Len(ins) + 1
      <3>1. i \in 1..Len(u) /\ ~(i <= s) /\ ~(i <= s + Len(ins)) /\ e < Len(t)
        BY <1>0, <1>1
      <3>2. i - Len(ins) + (e - s) = e + 1
        BY <1>0
      <3> QED BY <1>1, <3>1, <3>2
    <2> QED BY <1>0, <1>1, <1>3, <2>1 DEF IsBoundary
  <1>6. IsBoundary(u, s)
    <2>1. CASE Len(ins) = 0
      BY <1>0, <1>5, <2>1
    <2>2. CASE Len(ins) > 0
      <3>1. s + 1 \in 1..Len(u) /\ ~(s + 1 <= s) /\ s + 1 <= s + Len(ins) /\ s + 1 - s = 1
        BY <1>0, <1>1, <2>2
      <3>2. u[s + 1] = ins[1]
        BY <1>1, <3>1
      <3> QED BY <1>0, <1>1, <2>2, <3>1, <3>2 DEF IsBoundary
    <2> QED BY <1>0, <2>1, <2>2
  <1>7. u \in Utf8
    <2>1. CASE s = 0
      BY <1>1, <1>6, <2>1 DEF IsBoundary, Utf8
    <2>2. CASE s > 0
      <3>1. Len(u) > 0 => u[1] = t[1] /\ Len(t) > 0
        BY <1>0, <1>1, <2>2
      <3> QED BY <1>0, <1>1, <3>1 DEF Utf8
    <2> QED BY <2>1, <2>2
  <1>8. Splice(u, s, s + Len(ins), c) = t
    <2> DEFINE v == Splice(u, s, s + Len(ins), c)
    <2>0. s + Len(ins) \in Nat /\ s <= s + Len(ins) /\ s + Len(ins) <= Len(u)
      BY <1>0, <1>1
    <2>1. /\ v \in Seq(Byte) /\ Len(v) = Len(u) - (s + Len(ins) - s) + Len(c)
          /\ \A i \in 1..Len(v) : v[i] = IF i <= s THEN u[i]
                                         ELSE IF i <= s + Len(c) THEN c[i - s]
                                         ELSE u[i - Len(c) + (s + Len(ins) - s)]
      <3>1. Spliced(u, s, s + Len(ins), c, v)
        BY <1>1, <1>2, <2>0, SpliceProperties
      <3> HIDE DEF v
      <3> QED BY <3>1 DEF Spliced
    <2> HIDE DEF v
    <2>2. Len(v) = Len(t)
      BY <1>0, <1>1, <1>2, <2>1
    <2>3. ASSUME NEW i \in 1..Len(t) PROVE v[i] = t[i]
      <3>0. /\ i \in Nat /\ Len(c) = e - s
            /\ v[i] = IF i <= s THEN u[i]
                      ELSE IF i <= s + Len(c) THEN c[i - s]
                      ELSE u[i - Len(c) + (s + Len(ins) - s)]
        BY <1>0, <1>2, <2>1, <2>2
      <3>1. CASE i <= s
        <4>1. v[i] = u[i] /\ i \in 1..Len(u)
          BY <1>0, <1>1, <3>0, <3>1
        <4> QED BY <1>1, <3>1, <4>1
      <3>2. CASE ~(i <= s) /\ i <= e
        <4>1. v[i] = c[i - s] /\ i - s \in 1..e - s
          BY <1>0, <3>0, <3>2
        <4>2. c[i - s] = t[s + (i - s)] /\ s + (i - s) = i
          BY <1>2, <4>1
        <4> QED BY <4>1, <4>2
      <3>3. CASE ~(i <= e)
        <4> DEFINE j == i - (e - s) + Len(ins)
        <4>1. v[i] = u[i - Len(c) + (s + Len(ins) - s)]
          BY <1>0, <3>0, <3>3
        <4>2. i - Len(c) + (s + Len(ins) - s) = j /\ j \in 1..Len(u) /\ ~(j <= s)
              /\ ~(j <= s + Len(ins)) /\ j - Len(ins) + (e - s) = i
          BY <1>0, <1>1, <1>2, <3>3
        <4> HIDE DEF j
        <4>3. u[j] = t[j - Len(ins) + (e - s)]
          BY <1>1, <4>2
        <4> QED BY <4>1, <4>2, <4>3
      <3> QED BY <3>1, <3>2, <3>3
    <2> QED BY <1>0, <2>1, <2>2, <2>3, SeqEqual DEF v
  <1> QED BY <1>2, <1>4, <1>5, <1>6, <1>7, <1>8 DEF Undone

----------------------------------------------------------------------------
(* Operations on one document                                              *)

Doc == {d \in Document : d.text \in Utf8}

\* The document after an edit.
Pushed(d, entry, text, after) ==
  [d EXCEPT !.text = text, !.hash = NoHash, !.revision = @ + 1, !.undo = Append(@, entry),
            !.redo = <<>>, !.selection = after]

\* An edit that goes through pushes an entry that links the two texts.
Pushes(d, r) == \E entry \in Entry, text \in Utf8, after \in Selection :
                   Links(entry, d.text, text) /\ r = Ok(Pushed(d, entry, text, after))

LEMMA OneEdit ==
  ASSUME NEW d \in Doc, NEW base, NEW s \in Nat, NEW e \in Nat, NEW ins \in Utf8,
         NEW before \in Selection, NEW after \in Selection,
         NEW op, op.start = s, op.end = e, op.inserted = ins,
         NEW r, r = ApplyTransaction(d, base, <<op>>, before, after)
  PROVE  r = Fail(d) \/ Pushes(d, r)
  <1> DEFINE done == EditStep(EditStart(d), op)
  <1>1. Len(<<op>>) = 1 /\ <<op>>[1] = op /\ <<op>> # <<>>
    OBVIOUS
  <1>2. EditRope(d, <<op>>) = done
    BY <1>1 DEF EditRope
  <1>3. d \in Document /\ d.text \in Utf8 /\ d.text \in Seq(Byte)
    BY DEF Doc, Utf8
  <1>4. CASE d.readOnly \/ base # d.revision
    BY <1>4 DEF ApplyTransaction
  <1>5. CASE ~(d.readOnly \/ base # d.revision) /\ ~done.ok
    <2>1. ~Accepts(EditStart(d), op)
      BY <1>5 DEF EditStep, EditStart
    <2>2. done = [EditStart(d) EXCEPT !.ok = FALSE]
      BY <2>1 DEF EditStep
    <2>3. done.text = d.text
      BY <2>2 DEF EditStart
    <2>4. [d EXCEPT !.text = d.text] = d
      BY <1>3 DEF Document
    <2> HIDE DEF done
    <2> QED BY <1>2, <1>5, <2>3, <2>4 DEF ApplyTransaction
  <1>6. CASE ~(d.readOnly \/ base # d.revision) /\ done.ok
    <2> DEFINE text == Splice(d.text, s, e, ins)
               cut == Cut(d.text, s, e)
               edit == [start |-> s, deleted |-> cut, inserted |-> ins]
               entry == [edits |-> <<edit>>, before |-> before, after |-> after]
    <2>1. Accepts(EditStart(d), op)
      BY <1>6 DEF EditStep
    <2>2. s <= e /\ e <= Len(d.text) /\ IsBoundary(d.text, s) /\ IsBoundary(d.text, e)
      BY <2>1 DEF Accepts, EditStart
    <2>3. done.text = text /\ done.applied = <<edit>>
      BY <2>1 DEF EditStep, EditStart
    <2>4. /\ text \in Utf8 /\ cut \in Utf8 /\ Len(cut) = e - s
          /\ IsBoundary(text, s) /\ IsBoundary(text, s + Len(ins))
          /\ Splice(text, s, s + Len(ins), cut) = d.text
      <3>1. text = Splice(d.text, s, e, ins) /\ cut = Cut(d.text, s, e)
        OBVIOUS
      <3> HIDE DEF text, cut
      <3>2. Undone(d.text, s, e, ins, text, cut)
        BY <1>3, <2>2, <3>1, SpliceUndone
      <3> QED BY <3>2 DEF Undone
    <2>5. r = Ok(Pushed(d, [edits |-> done.applied, before |-> before, after |-> after],
                        done.text, after))
      <3> HIDE DEF done
      <3> QED BY <1>1, <1>2, <1>6 DEF ApplyTransaction, Pushed
    <2>6. s + Len(cut) = e
      BY <2>4
    <2>7. Replayed(d.text, <<edit>>) = [text |-> text, ok |-> TRUE]
      <3>1. Replayed(d.text, <<edit>>) = ReplayStep([text |-> d.text, ok |-> TRUE], edit)
        BY DEF Replayed
      <3> HIDE DEF cut
      <3>2. ReplayStep([text |-> d.text, ok |-> TRUE], edit)
              = ReplaceBytes([text |-> d.text, ok |-> TRUE], s, e, ins)
        BY <2>6 DEF ReplayStep
      <3> QED BY <2>2, <3>1, <3>2 DEF ReplaceBytes
    <2>8. Reverted(text, <<edit>>) = [text |-> d.text, ok |-> TRUE]
      <3> HIDE DEF text, cut
      <3>1. Reverted(text, <<edit>>) = RevertStep([text |-> text, ok |-> TRUE], edit)
        BY DEF Reverted
      <3>2. RevertStep([text |-> text, ok |-> TRUE], edit)
              = ReplaceBytes([text |-> text, ok |-> TRUE], s, s + Len(ins), cut)
        BY DEF RevertStep
      <3> QED BY <2>4, <3>1, <3>2 DEF ReplaceBytes
    <2>9. entry \in Entry /\ entry.edits = <<edit>>
      <3>1. edit \in Edit
        BY <2>4 DEF Edit, Utf8
      <3> HIDE DEF edit
      <3>2. <<edit>> \in Seq(Edit)
        BY <3>1
      <3> QED BY <3>2 DEF Entry
    <2> HIDE DEF done, text, edit, entry
    <2>10. Links(entry, d.text, text)
      BY <2>7, <2>8, <2>9 DEF Links
    <2>11. r = Ok(Pushed(d, entry, text, after))
      BY <2>3, <2>5 DEF entry
    <2> QED BY <2>4, <2>9, <2>10, <2>11 DEF Pushes
  <1> QED BY <1>4, <1>5, <1>6

LEMMA Selections0 ==
  ASSUME NEW sel \in Selection
  PROVE  /\ SelStart(sel) \in Nat /\ SelEnd(sel) \in Nat /\ sel.head \in Nat
         /\ \A b \in Nat : Caret(b) \in Selection
  BY DEF Selection, SelStart, SelEnd, Caret

LEMMA OneReplace ==
  ASSUME NEW d \in Doc, NEW s \in Nat, NEW e \in Nat, NEW ins \in Utf8, NEW caret \in Nat,
         NEW r, r = Replace(d, s, e, ins, caret)
  PROVE  r = Fail(d) \/ Pushes(d, r)
  <1>1. PICK op : op = [start |-> s, end |-> e, inserted |-> ins]
    OBVIOUS
  <1>2. op.start = s /\ op.end = e /\ op.inserted = ins
    BY <1>1
  <1>3. d.selection \in Selection /\ Caret(caret) \in Selection
    BY Selections0 DEF Doc, Document, Caret, Selection
  <1>4. r = ApplyTransaction(d, d.revision, <<op>>, d.selection, Caret(caret))
    BY <1>1 DEF Replace
  <1> QED BY <1>2, <1>3, <1>4, OneEdit

LEMMA Inserting ==
  ASSUME NEW d \in Doc, NEW text \in Utf8, NEW r, r = InsertText(d, text)
  PROVE  r = Fail(d) \/ Pushes(d, r)
  <1>1. SelStart(d.selection) \in Nat /\ SelEnd(d.selection) \in Nat
    BY Selections0 DEF Doc, Document
  <1>2. (SelStart(d.selection) + Len(text)) % (MaxUsize + 1) \in Nat
    BY <1>1, EditorAssumption DEF Utf8
  <1> QED BY <1>1, <1>2, OneReplace DEF InsertText

LEMMA Deleting ==
  ASSUME NEW d \in Doc, NEW r, r = DeleteBackward(d) \/ r = DeleteForward(d)
  PROVE  r = Fail(d) \/ r = Ok(d) \/ Pushes(d, r)
  <1> DEFINE sel == d.selection
  <1>1. /\ d.text \in Utf8 /\ Len(d.text) \in Nat /\ sel \in Selection /\ <<>> \in Utf8
        /\ SelStart(sel) \in Nat /\ SelEnd(sel) \in Nat /\ sel.head \in Nat
    BY Selections0 DEF Doc, Document, Utf8
  <1> HIDE DEF sel
  <1>2. CASE r = Replace(d, SelStart(sel), SelEnd(sel), <<>>, SelStart(sel))
    BY <1>1, <1>2, OneReplace
  <1>3. ASSUME sel.head # 0, sel.head <= Len(d.text),
               r = Replace(d, PreviousChar(d.text, sel.head), sel.head, <<>>,
                           PreviousChar(d.text, sel.head))
        PROVE  Pushes(d, r) \/ r = Fail(d)
    <2>1. CharStart(d.text, sel.head) \in Nat
      <3>1. CharStart(d.text, sel.head) \in 0..sel.head
        BY <1>1, CharStartType
      <3> QED BY <1>1, <3>1
    <2>2. PreviousChar(d.text, sel.head) \in Nat
      <3>1. CASE CharStart(d.text, sel.head) = 0
        BY <3>1 DEF PreviousChar
      <3>2. CASE CharStart(d.text, sel.head) # 0
        <4>1. CharStart(d.text, sel.head) - 1 \in Nat
          BY <2>1, <3>2
        <4>2. CharStart(d.text, CharStart(d.text, sel.head) - 1) \in Nat
          <5>1. PICK b \in Nat : b = CharStart(d.text, sel.head) - 1
            BY <4>1
          <5>2. CharStart(d.text, b) \in 0..b
            BY <1>1, CharStartType
          <5> QED BY <5>1, <5>2
        <4> QED BY <3>2, <4>2 DEF PreviousChar
      <3> QED BY <3>1, <3>2
    <2> QED BY <1>1, <1>3, <2>2, OneReplace
  <1>4. ASSUME sel.head < Len(d.text),
               r = Replace(d, sel.head, NextChar(d.text, sel.head), <<>>, sel.head)
        PROVE  Pushes(d, r) \/ r = Fail(d)
    <2>1. NextChar(d.text, sel.head) \in Nat
      BY <1>1, <1>4, NextCharType
    <2> QED BY <1>1, <1>4, <2>1, OneReplace
  <1>5. CASE r = DeleteBackward(d)
    BY <1>1, <1>2, <1>3, <1>5 DEF DeleteBackward, sel
  <1>6. CASE r = DeleteForward(d)
    BY <1>1, <1>2, <1>4, <1>6 DEF DeleteForward, sel
  <1> QED BY <1>5, <1>6

\* Movements and selections change the selection only.
Selects(d, r) == \E sel \in Selection : r = Ok([d EXCEPT !.selection = sel])

LEMMA Moving ==
  ASSUME NEW d \in Doc, NEW direction \in CaretMovement, NEW r, r = MoveCaret(d, direction)
  PROVE  r = Fail(d) \/ Selects(d, r)
  <1> DEFINE sel == d.selection
             line == LineStart(d.text, CharStart(d.text, sel.head))
  <1>1. /\ d.text \in Utf8 /\ Len(d.text) \in Nat /\ sel \in Selection
        /\ SelStart(sel) \in Nat /\ SelEnd(sel) \in Nat /\ sel.head \in Nat
        /\ \A b \in Nat : Caret(b) \in Selection
    <2>1. d.text \in Utf8 /\ Len(d.text) \in Nat /\ sel \in Selection
      BY DEF Doc, Document, Utf8
    <2> HIDE DEF sel
    <2> QED BY <2>1, Selections0
  <1> HIDE DEF sel
  <1>2. ASSUME NEW b \in Nat, r = Ok([d EXCEPT !.selection = Caret(b)])
        PROVE  Selects(d, r)
    BY <1>1, <1>2 DEF Selects
  <1>3. CharStart(d.text, sel.head) \in 0..sel.head
    BY <1>1, CharStartType
  <1>4. PICK c \in Nat : c = CharStart(d.text, sel.head) /\ c <= sel.head
    BY <1>1, <1>3
  <1>5. PreviousChar(d.text, sel.head) \in Nat
    <2>1. CASE c = 0
      BY <1>4, <2>1 DEF PreviousChar
    <2>2. CASE c # 0
      <3>1. PICK b \in Nat : b = c - 1
        BY <2>2
      <3>2. CharStart(d.text, b) \in 0..b
        BY <1>1, CharStartType
      <3> QED BY <1>4, <2>2, <3>1, <3>2 DEF PreviousChar
    <2> QED BY <2>1, <2>2
  <1>6. LineStart(d.text, c) \in 0..c
    BY LineStartType
  <1>7. line \in Nat /\ line <= sel.head
    BY <1>1, <1>4, <1>6
  <1> HIDE DEF line
  <1>8. sel.head < Len(d.text) => NextChar(d.text, sel.head) \in Nat
    <2> SUFFICES ASSUME sel.head < Len(d.text) PROVE NextChar(d.text, sel.head) \in Nat
      OBVIOUS
    <2>1. NextChar(d.text, sel.head) \in sel.head + 1..Len(d.text)
      BY <1>1, NextCharType
    <2> QED BY <1>1, <2>1
  <1>9. sel.head <= Len(d.text) => LineEnd(d.text, line) \in Nat
    <2> SUFFICES ASSUME sel.head <= Len(d.text) PROVE LineEnd(d.text, line) \in Nat
      OBVIOUS
    <2>1. line <= Len(d.text)
      BY <1>1, <1>7
    <2> QED BY <1>1, <1>7, <2>1, LineEndType
  <1>10. \/ r = Fail(d)
         \/ \E b \in Nat : r = Ok([d EXCEPT !.selection = Caret(b)])
    <2>1. CASE direction = "Left"
      BY <1>1, <1>5, <2>1 DEF MoveCaret, sel
    <2>2. CASE direction = "Right"
      BY <1>1, <1>8, <2>2 DEF MoveCaret, sel
    <2>3. CASE direction = "Home"
      BY <1>1, <1>7, <2>3 DEF MoveCaret, sel, line
    <2>4. CASE direction = "End"
      BY <1>1, <1>9, <2>4 DEF MoveCaret, sel, line
    <2> QED BY <2>1, <2>2, <2>3, <2>4 DEF CaretMovement
  <1> QED BY <1>2, <1>10

LEMMA Selecting ==
  ASSUME NEW d, NEW sel \in Selection, NEW r, r = SetSelection(d, sel)
  PROVE  r = Fail(d) \/ Selects(d, r)
  BY DEF SetSelection, Selects

----------------------------------------------------------------------------
(* The history of one document                                             *)

Linked(d, past, future) ==
  /\ Len(past) = Len(d.undo) /\ Len(future) = Len(d.redo)
  /\ \A i \in 1..Len(d.undo) :
        Links(d.undo[i], past[i], IF i = Len(past) THEN d.text ELSE past[i + 1])
  /\ \A i \in 1..Len(d.redo) :
        Links(d.redo[i], IF i = Len(future) THEN d.text ELSE future[i + 1], future[i])

Trail == [past: Seq(Utf8), future: Seq(Utf8)]
HistInv(d, tr) == d \in Doc /\ tr \in Trail /\ Linked(d, tr.past, tr.future)

LEMMA PopProperties ==
  ASSUME NEW S, NEW q \in Seq(S), q # <<>>
  PROVE  /\ Len(q) \in Nat /\ Len(q) > 0 /\ Top(q) = q[Len(q)] /\ Top(q) \in S
         /\ Pop(q) \in Seq(S) /\ Len(Pop(q)) = Len(q) - 1
         /\ \A i \in 1..Len(q) - 1 : Pop(q)[i] = q[i]
  <1>1. Len(q) \in Nat /\ Len(q) > 0
    BY EmptySeq
  <1>2. \A i \in 1..Len(q) : q[i] \in S
    BY ElementOfSeq
  <1>3. /\ SubSeq(q, 1, Len(q) - 1) \in Seq(S)
        /\ Len(SubSeq(q, 1, Len(q) - 1)) = IF 1 <= Len(q) - 1 THEN Len(q) - 1 - 1 + 1 ELSE 0
        /\ \A i \in 1..Len(q) - 1 - 1 + 1 : SubSeq(q, 1, Len(q) - 1)[i] = q[1 + i - 1]
    BY <1>1, <1>2, SubSeqProperties
  <1>4. Len(Pop(q)) = Len(q) - 1
    <2>1. PICK m \in Nat : m = Len(q) - 1
      BY <1>1
    <2>2. Len(SubSeq(q, 1, m)) = IF 1 <= m THEN m - 1 + 1 ELSE 0
      BY <1>3, <2>1
    <2>3. (IF 1 <= m THEN m - 1 + 1 ELSE 0) = m
      OBVIOUS
    <2> QED BY <2>1, <2>2, <2>3 DEF Pop
  <1>5. ASSUME NEW i \in 1..Len(q) - 1 PROVE Pop(q)[i] = q[i]
    <2>1. i \in 1..Len(q) - 1 - 1 + 1 /\ 1 + i - 1 = i
      BY <1>1
    <2>2. SubSeq(q, 1, Len(q) - 1)[i] = q[1 + i - 1]
      BY <1>3, <2>1
    <2> QED BY <2>1, <2>2 DEF Pop
  <1>6. Top(q) = q[Len(q)] /\ Top(q) \in S
    BY <1>1, <1>2 DEF Top
  <1> QED BY <1>1, <1>3, <1>4, <1>5, <1>6 DEF Pop

LEMMA PushKeeps ==
  ASSUME NEW d, NEW tr, HistInv(d, tr), NEW entry \in Entry, NEW text \in Utf8,
         NEW after \in Selection, Links(entry, d.text, text),
         NEW d2, d2 = Pushed(d, entry, text, after),
         NEW tr2, tr2 = [past |-> Append(tr.past, d.text), future |-> <<>>]
  PROVE  HistInv(d2, tr2)
  <1>1. /\ d \in Document /\ d.text \in Utf8 /\ d.text \in Seq(Byte)
        /\ d.undo \in Seq(Entry) /\ d.redo \in Seq(Entry) /\ d.revision \in Nat
        /\ tr.past \in Seq(Utf8)
    BY DEF HistInv, Doc, Document, Trail
  <1>2. /\ Append(d.undo, entry) \in Seq(Entry) /\ Len(Append(d.undo, entry)) = Len(d.undo) + 1
        /\ \A i \in 1..Len(d.undo) : Append(d.undo, entry)[i] = d.undo[i]
        /\ Append(d.undo, entry)[Len(d.undo) + 1] = entry
    BY <1>1, AppendProperties
  <1>3. /\ Append(tr.past, d.text) \in Seq(Utf8) /\ Len(Append(tr.past, d.text)) = Len(tr.past) + 1
        /\ \A i \in 1..Len(tr.past) : Append(tr.past, d.text)[i] = tr.past[i]
        /\ Append(tr.past, d.text)[Len(tr.past) + 1] = d.text
    BY <1>1, AppendProperties
  <1>4. /\ d2.undo = Append(d.undo, entry) /\ d2.redo = <<>> /\ d2.text = text
        /\ d2 \in Document
    <2>1. d2.undo = Append(d.undo, entry) /\ d2.redo = <<>> /\ d2.text = text
      BY <1>1 DEF Pushed, Document
    <2>2. text \in Seq(Byte) /\ <<>> \in Seq(Entry) /\ d.revision + 1 \in Nat
      BY <1>1 DEF Utf8
    <2>3. d2 \in Document
      BY <1>1, <1>2, <2>2 DEF Pushed, Document
    <2> QED BY <2>1, <2>3
  <1>5. tr2 \in Trail /\ tr2.past = Append(tr.past, d.text) /\ tr2.future = <<>>
    BY <1>3 DEF Trail
  <1>6. Len(d.undo) \in Nat /\ Len(tr.past) = Len(d.undo) /\ Len(<<>>) = 0
    BY <1>1, LenProperties, EmptySeq DEF HistInv, Linked
  <1>7. ASSUME NEW i \in 1..Len(d2.undo)
        PROVE  Links(d2.undo[i], tr2.past[i], IF i = Len(tr2.past) THEN d2.text ELSE tr2.past[i + 1])
    <2>1. CASE i = Len(d.undo) + 1
      BY <1>2, <1>3, <1>4, <1>5, <1>6, <2>1
    <2>2. CASE i \in 1..Len(d.undo)
      <3>1. Links(d.undo[i], tr.past[i], IF i = Len(tr.past) THEN d.text ELSE tr.past[i + 1])
        BY <2>2 DEF HistInv, Linked
      <3>2. tr2.past[i + 1] = IF i = Len(tr.past) THEN d.text ELSE tr.past[i + 1]
        BY <1>3, <1>5, <1>6, <2>2
      <3>3. i # Len(tr2.past) /\ d2.undo[i] = d.undo[i] /\ tr2.past[i] = tr.past[i]
        BY <1>2, <1>3, <1>4, <1>5, <1>6, <2>2
      <3> QED BY <3>1, <3>2, <3>3
    <2> QED BY <1>2, <1>4, <1>6, <2>1, <2>2
  <1>8. Linked(d2, tr2.past, tr2.future)
    <2>1. Len(tr2.past) = Len(d2.undo) /\ Len(tr2.future) = Len(d2.redo) /\ Len(d2.redo) = 0
      BY <1>2, <1>3, <1>4, <1>5, <1>6
    <2> QED BY <1>7, <2>1 DEF Linked
  <1> QED BY <1>4, <1>5, <1>8 DEF HistInv, Doc

\* Undo and redo go through, unless there is nothing to do.
LEMMA UndoKeeps ==
  ASSUME NEW d, NEW tr, HistInv(d, tr), NEW r, r = Undo(d), r # Fail(d),
         NEW tr2, tr2 = [past |-> Pop(tr.past), future |-> Append(tr.future, d.text)]
  PROVE  /\ r.ok /\ HistInv(r.doc, tr2)
         /\ r.doc.revision = d.revision + 1 /\ r.doc.hash = NoHash /\ r.doc.clean = d.clean
  <1> DEFINE n == Len(d.undo)
             entry == Top(d.undo)
             text == tr.past[n]
             d2 == [d EXCEPT !.undo = Pop(@), !.text = text, !.revision = @ + 1, !.hash = NoHash,
                             !.selection = entry.before, !.redo = Append(@, entry)]
  <1>1. /\ d \in Document /\ d.text \in Utf8 /\ d.text \in Seq(Byte)
        /\ d.undo \in Seq(Entry) /\ d.redo \in Seq(Entry) /\ d.revision \in Nat
        /\ tr.past \in Seq(Utf8) /\ tr.future \in Seq(Utf8)
        /\ Len(tr.past) = n /\ Len(tr.future) = Len(d.redo)
    BY DEF HistInv, Doc, Document, Trail, Linked
  <1>2. ~d.readOnly /\ d.undo # <<>>
    BY DEF Undo
  <1>3. /\ n \in Nat /\ n > 0 /\ entry = d.undo[n] /\ entry \in Entry
        /\ Pop(d.undo) \in Seq(Entry) /\ Len(Pop(d.undo)) = n - 1
        /\ \A i \in 1..n - 1 : Pop(d.undo)[i] = d.undo[i]
    BY <1>1, <1>2, PopProperties
  <1>4. tr.past # <<>>
    BY <1>1, <1>3, EmptySeq
  <1>5. /\ text \in Utf8
        /\ Pop(tr.past) \in Seq(Utf8) /\ Len(Pop(tr.past)) = n - 1
        /\ \A i \in 1..n - 1 : Pop(tr.past)[i] = tr.past[i]
    <2>1. /\ Top(tr.past) = tr.past[Len(tr.past)] /\ Top(tr.past) \in Utf8
          /\ Pop(tr.past) \in Seq(Utf8) /\ Len(Pop(tr.past)) = Len(tr.past) - 1
          /\ \A i \in 1..Len(tr.past) - 1 : Pop(tr.past)[i] = tr.past[i]
      BY <1>1, <1>4, PopProperties
    <2> QED BY <1>1, <2>1
  <1>6. Links(entry, text, d.text)
    <2>1. n \in 1..n
      BY <1>3
    <2>2. Links(d.undo[n], tr.past[n], IF n = Len(tr.past) THEN d.text ELSE tr.past[n + 1])
      BY <2>1 DEF HistInv, Linked
    <2> QED BY <1>1, <1>3, <2>2
  <1>7. /\ Append(d.redo, entry) \in Seq(Entry) /\ Len(Append(d.redo, entry)) = Len(d.redo) + 1
        /\ \A i \in 1..Len(d.redo) : Append(d.redo, entry)[i] = d.redo[i]
        /\ Append(d.redo, entry)[Len(d.redo) + 1] = entry
    BY <1>1, <1>3, AppendProperties
  <1>8. /\ Append(tr.future, d.text) \in Seq(Utf8)
        /\ Len(Append(tr.future, d.text)) = Len(tr.future) + 1
        /\ \A i \in 1..Len(tr.future) : Append(tr.future, d.text)[i] = tr.future[i]
        /\ Append(tr.future, d.text)[Len(tr.future) + 1] = d.text
    BY <1>1, AppendProperties
  <1>9. r = Ok(d2)
    <2>1. Reverted(d.text, entry.edits) = [text |-> text, ok |-> TRUE]
      BY <1>6 DEF Links
    <2>2. d2 = [[d EXCEPT !.undo = Pop(@), !.text = text] EXCEPT
                   !.revision = @ + 1, !.hash = NoHash, !.selection = entry.before,
                   !.redo = Append(@, entry)]
      BY <1>1 DEF Document
    <2> HIDE DEF d2, text
    <2>3. d.undo # <<>> /\ r = Undo(d)
      BY <1>2
    <2> QED BY <1>2, <2>1, <2>2, <2>3 DEF Undo
  <1>10. /\ d2 \in Document /\ d2.text = text /\ d2.undo = Pop(d.undo)
         /\ d2.redo = Append(d.redo, entry) /\ d2.revision = d.revision + 1 /\ d2.hash = NoHash
         /\ d2.clean = d.clean
    <2>1. entry.before \in Selection /\ text \in Seq(Byte)
      BY <1>3, <1>5 DEF Entry, Utf8
    <2> HIDE DEF text, entry
    <2>2. /\ d2.text = text /\ d2.undo = Pop(d.undo)
          /\ d2.redo = Append(d.redo, entry) /\ d2.revision = d.revision + 1 /\ d2.hash = NoHash
          /\ d2.clean = d.clean
      BY <1>1 DEF Document
    <2>3. d.revision + 1 \in Nat
      BY <1>1
    <2>4. d2 \in Document
      BY <1>1, <1>3, <1>7, <2>1, <2>3 DEF Document
    <2> QED BY <2>2, <2>4
  <1>11. tr2 \in Trail /\ tr2.past = Pop(tr.past) /\ tr2.future = Append(tr.future, d.text)
    BY <1>5, <1>8 DEF Trail
  <1>12. Len(d.redo) \in Nat
    BY <1>1, LenProperties
  <1> HIDE DEF n, entry, text, d2
  <1>13. ASSUME NEW i \in 1..Len(d2.undo)
         PROVE  Links(d2.undo[i], tr2.past[i], IF i = Len(tr2.past) THEN d2.text ELSE tr2.past[i + 1])
    <2>1. i \in 1..n - 1 /\ i \in 1..n
      BY <1>3, <1>10
    <2>2. Links(d.undo[i], tr.past[i], IF i = Len(tr.past) THEN d.text ELSE tr.past[i + 1])
      BY <2>1 DEF HistInv, Linked, n
    <2>3. d2.undo[i] = d.undo[i] /\ tr2.past[i] = tr.past[i] /\ i # Len(tr.past)
      BY <1>1, <1>3, <1>5, <1>10, <1>11, <2>1
    <2>4. IF i = Len(tr2.past) THEN d2.text = tr.past[i + 1]
                               ELSE tr2.past[i + 1] = tr.past[i + 1]
      <3>1. CASE i = n - 1
        BY <1>3, <1>5, <1>10, <1>11, <3>1 DEF text
      <3>2. CASE i # n - 1
        <4>1. i + 1 \in 1..n - 1
          BY <1>3, <2>1, <3>2
        <4> QED BY <1>5, <1>11, <3>2, <4>1
      <3> QED BY <3>1, <3>2
    <2> QED BY <2>2, <2>3, <2>4
  <1>14. ASSUME NEW i \in 1..Len(d2.redo)
         PROVE  Links(d2.redo[i], IF i = Len(tr2.future) THEN d2.text ELSE tr2.future[i + 1],
                      tr2.future[i])
    <2>1. CASE i = Len(d.redo) + 1
      BY <1>1, <1>6, <1>7, <1>8, <1>10, <1>11, <2>1
    <2>2. CASE i \in 1..Len(d.redo)
      <3>1. Links(d.redo[i], IF i = Len(tr.future) THEN d.text ELSE tr.future[i + 1], tr.future[i])
        BY <2>2 DEF HistInv, Linked
      <3>2. tr2.future[i + 1] = IF i = Len(tr.future) THEN d.text ELSE tr.future[i + 1]
        BY <1>1, <1>8, <1>11, <1>12, <2>2
      <3>3. i # Len(tr2.future) /\ d2.redo[i] = d.redo[i] /\ tr2.future[i] = tr.future[i]
        BY <1>1, <1>7, <1>8, <1>10, <1>11, <1>12, <2>2
      <3> QED BY <3>1, <3>2, <3>3
    <2>3. Len(d2.redo) = Len(d.redo) + 1
      BY <1>7, <1>10
    <2>4. i \in 1..Len(d.redo) + 1
      BY <2>3
    <2>5. i = Len(d.redo) + 1 \/ i \in 1..Len(d.redo)
      BY <1>12, <2>4
    <2> QED BY <2>1, <2>2, <2>5
  <1>15. HistInv(d2, tr2)
    <2>1. Len(tr2.past) = Len(d2.undo) /\ Len(tr2.future) = Len(d2.redo)
      BY <1>1, <1>3, <1>5, <1>7, <1>8, <1>10, <1>11
    <2>2. d2 \in Doc
      BY <1>5, <1>10 DEF Doc
    <2>3. Linked(d2, tr2.past, tr2.future)
      BY <1>13, <1>14, <2>1 DEF Linked
    <2> QED BY <1>11, <2>2, <2>3 DEF HistInv
  <1> QED BY <1>9, <1>10, <1>15 DEF Ok

LEMMA RedoKeeps ==
  ASSUME NEW d, NEW tr, HistInv(d, tr), NEW r, r = Redo(d), r # Fail(d),
         NEW tr2, tr2 = [past |-> Append(tr.past, d.text), future |-> Pop(tr.future)]
  PROVE  /\ r.ok /\ HistInv(r.doc, tr2)
         /\ r.doc.revision = d.revision + 1 /\ r.doc.hash = NoHash /\ r.doc.clean = d.clean
  <1> DEFINE n == Len(d.redo)
             entry == Top(d.redo)
             text == tr.future[n]
             d2 == [d EXCEPT !.redo = Pop(@), !.text = text, !.revision = @ + 1, !.hash = NoHash,
                             !.selection = entry.after, !.undo = Append(@, entry)]
  <1>1. /\ d \in Document /\ d.text \in Utf8 /\ d.text \in Seq(Byte)
        /\ d.undo \in Seq(Entry) /\ d.redo \in Seq(Entry) /\ d.revision \in Nat
        /\ tr.past \in Seq(Utf8) /\ tr.future \in Seq(Utf8)
        /\ Len(tr.past) = Len(d.undo) /\ Len(tr.future) = n
    BY DEF HistInv, Doc, Document, Trail, Linked
  <1>2. ~d.readOnly /\ d.redo # <<>>
    BY DEF Redo
  <1>3. /\ n \in Nat /\ n > 0 /\ entry = d.redo[n] /\ entry \in Entry
        /\ Pop(d.redo) \in Seq(Entry) /\ Len(Pop(d.redo)) = n - 1
        /\ \A i \in 1..n - 1 : Pop(d.redo)[i] = d.redo[i]
    BY <1>1, <1>2, PopProperties
  <1>4. tr.future # <<>>
    BY <1>1, <1>3, EmptySeq
  <1>5. /\ text \in Utf8
        /\ Pop(tr.future) \in Seq(Utf8) /\ Len(Pop(tr.future)) = n - 1
        /\ \A i \in 1..n - 1 : Pop(tr.future)[i] = tr.future[i]
    <2>1. /\ Top(tr.future) = tr.future[Len(tr.future)] /\ Top(tr.future) \in Utf8
          /\ Pop(tr.future) \in Seq(Utf8) /\ Len(Pop(tr.future)) = Len(tr.future) - 1
          /\ \A i \in 1..Len(tr.future) - 1 : Pop(tr.future)[i] = tr.future[i]
      BY <1>1, <1>4, PopProperties
    <2> QED BY <1>1, <2>1
  <1>6. Links(entry, d.text, text)
    <2>1. n \in 1..n
      BY <1>3
    <2>2. Links(d.redo[n], IF n = Len(tr.future) THEN d.text ELSE tr.future[n + 1], tr.future[n])
      BY <2>1 DEF HistInv, Linked
    <2> QED BY <1>1, <1>3, <2>2
  <1>7. /\ Append(d.undo, entry) \in Seq(Entry) /\ Len(Append(d.undo, entry)) = Len(d.undo) + 1
        /\ \A i \in 1..Len(d.undo) : Append(d.undo, entry)[i] = d.undo[i]
        /\ Append(d.undo, entry)[Len(d.undo) + 1] = entry
    BY <1>1, <1>3, AppendProperties
  <1>8. /\ Append(tr.past, d.text) \in Seq(Utf8)
        /\ Len(Append(tr.past, d.text)) = Len(tr.past) + 1
        /\ \A i \in 1..Len(tr.past) : Append(tr.past, d.text)[i] = tr.past[i]
        /\ Append(tr.past, d.text)[Len(tr.past) + 1] = d.text
    BY <1>1, AppendProperties
  <1>9. r = Ok(d2)
    <2>1. Replayed(d.text, entry.edits) = [text |-> text, ok |-> TRUE]
      BY <1>6 DEF Links
    <2>2. d2 = [[d EXCEPT !.redo = Pop(@), !.text = text] EXCEPT
                   !.revision = @ + 1, !.hash = NoHash, !.selection = entry.after,
                   !.undo = Append(@, entry)]
      BY <1>1 DEF Document
    <2> HIDE DEF d2, text
    <2>3. d.redo # <<>> /\ r = Redo(d)
      BY <1>2
    <2> QED BY <1>2, <2>1, <2>2, <2>3 DEF Redo
  <1>10. /\ d2 \in Document /\ d2.text = text /\ d2.redo = Pop(d.redo)
         /\ d2.undo = Append(d.undo, entry) /\ d2.revision = d.revision + 1 /\ d2.hash = NoHash
         /\ d2.clean = d.clean
    <2>1. entry.after \in Selection /\ text \in Seq(Byte)
      BY <1>3, <1>5 DEF Entry, Utf8
    <2> HIDE DEF text, entry
    <2>2. /\ d2.text = text /\ d2.redo = Pop(d.redo)
          /\ d2.undo = Append(d.undo, entry) /\ d2.revision = d.revision + 1 /\ d2.hash = NoHash
          /\ d2.clean = d.clean
      BY <1>1 DEF Document
    <2>3. d.revision + 1 \in Nat
      BY <1>1
    <2>4. d2 \in Document
      BY <1>1, <1>3, <1>7, <2>1, <2>3 DEF Document
    <2> QED BY <2>2, <2>4
  <1>11. tr2 \in Trail /\ tr2.past = Append(tr.past, d.text) /\ tr2.future = Pop(tr.future)
    BY <1>5, <1>8 DEF Trail
  <1>12. Len(d.undo) \in Nat
    BY <1>1, LenProperties
  <1> HIDE DEF n, entry, text, d2
  <1>13. ASSUME NEW i \in 1..Len(d2.undo)
         PROVE  Links(d2.undo[i], tr2.past[i], IF i = Len(tr2.past) THEN d2.text ELSE tr2.past[i + 1])
    <2>1. CASE i = Len(d.undo) + 1
      BY <1>1, <1>6, <1>7, <1>8, <1>10, <1>11, <2>1
    <2>2. CASE i \in 1..Len(d.undo)
      <3>1. Links(d.undo[i], tr.past[i], IF i = Len(tr.past) THEN d.text ELSE tr.past[i + 1])
        BY <2>2 DEF HistInv, Linked
      <3>2. tr2.past[i + 1] = IF i = Len(tr.past) THEN d.text ELSE tr.past[i + 1]
        BY <1>1, <1>8, <1>11, <1>12, <2>2
      <3>3. i # Len(tr2.past) /\ d2.undo[i] = d.undo[i] /\ tr2.past[i] = tr.past[i]
        BY <1>1, <1>7, <1>8, <1>10, <1>11, <1>12, <2>2
      <3> QED BY <3>1, <3>2, <3>3
    <2>3. Len(d2.undo) = Len(d.undo) + 1
      BY <1>7, <1>10
    <2>4. i \in 1..Len(d.undo) + 1
      BY <2>3
    <2>5. i = Len(d.undo) + 1 \/ i \in 1..Len(d.undo)
      BY <1>12, <2>4
    <2> QED BY <2>1, <2>2, <2>5
  <1>14. ASSUME NEW i \in 1..Len(d2.redo)
         PROVE  Links(d2.redo[i], IF i = Len(tr2.future) THEN d2.text ELSE tr2.future[i + 1],
                      tr2.future[i])
    <2>1. i \in 1..n - 1 /\ i \in 1..n
      BY <1>3, <1>10
    <2>2. Links(d.redo[i], IF i = Len(tr.future) THEN d.text ELSE tr.future[i + 1], tr.future[i])
      BY <2>1 DEF HistInv, Linked, n
    <2>3. d2.redo[i] = d.redo[i] /\ tr2.future[i] = tr.future[i] /\ i # Len(tr.future)
      BY <1>1, <1>3, <1>5, <1>10, <1>11, <2>1
    <2>4. IF i = Len(tr2.future) THEN d2.text = tr.future[i + 1]
                                 ELSE tr2.future[i + 1] = tr.future[i + 1]
      <3>1. CASE i = n - 1
        BY <1>3, <1>5, <1>10, <1>11, <3>1 DEF text
      <3>2. CASE i # n - 1
        <4>1. i + 1 \in 1..n - 1
          BY <1>3, <2>1, <3>2
        <4> QED BY <1>5, <1>11, <3>2, <4>1
      <3> QED BY <3>1, <3>2
    <2> QED BY <2>2, <2>3, <2>4
  <1>15. HistInv(d2, tr2)
    <2>1. Len(tr2.past) = Len(d2.undo) /\ Len(tr2.future) = Len(d2.redo)
      BY <1>1, <1>3, <1>5, <1>7, <1>8, <1>10, <1>11
    <2>2. d2 \in Doc
      BY <1>5, <1>10 DEF Doc
    <2>3. Linked(d2, tr2.past, tr2.future)
      BY <1>13, <1>14, <2>1 DEF Linked
    <2> QED BY <1>11, <2>2, <2>3 DEF HistInv
  <1> QED BY <1>9, <1>10, <1>15 DEF Ok

\* What else leaves the texts and the histories alone.
LEMMA SelectKeeps ==
  ASSUME NEW d, NEW tr, HistInv(d, tr), NEW d2,
         \/ \E sel \in Selection : d2 = [d EXCEPT !.selection = sel]
         \/ \E n \in Nat : d2 = [d EXCEPT !.clean = n]
  PROVE  HistInv(d2, tr)
  <1>1. d \in Document
    BY DEF HistInv, Doc
  <1>2. d2 \in Document /\ d2.text = d.text /\ d2.undo = d.undo /\ d2.redo = d.redo
    BY <1>1 DEF Document
  <1> QED BY <1>2 DEF HistInv, Doc, Linked

LEMMA NewKeeps ==
  ASSUME NEW source \in Utf8, NEW readOnly \in BOOLEAN, NEW d, d = NewDocument(source, readOnly)
  PROVE  HistInv(d, [past |-> <<>>, future |-> <<>>])
  <1>1. source \in Seq(Byte) /\ Caret(0) \in Selection
    BY DEF Utf8, Caret, Selection
  <1>2. d \in Document /\ d.text = source /\ d.undo = <<>> /\ d.redo = <<>>
    BY <1>1 DEF NewDocument, Document
  <1>3. [past |-> <<>>, future |-> <<>>] \in Trail
    BY DEF Trail
  <1>4. Linked(d, <<>>, <<>>)
    BY <1>2 DEF Linked
  <1> QED BY <1>2, <1>3, <1>4 DEF HistInv, Doc

----------------------------------------------------------------------------
(* The table of documents                                                  *)

View == [opened: Nat, revision: Nat, text: Utf8, hash: Seq(Byte) \union {NoHash}]
Save == [opened: Nat, text: Utf8, marked: Utf8]
NoTrail == [past |-> <<>>, future |-> <<>>]

Named(d, v, n) ==
  /\ d.hash \in {d.text, NoHash}
  /\ v.opened = n => /\ v.revision <= d.revision
                     /\ v.revision = d.revision => v.text = d.text

CleanSaved(d, sv, n) ==
  /\ d.clean <= d.revision
  /\ d.clean = d.revision => d.text = sv.marked
  /\ sv.opened = n => sv.marked = sv.text

\* What is true of a document, its trail, its latest view, its latest save and
\* the number of times its id was opened.
Good(d, tr, v, sv, n) ==
  /\ d \in Doc \union {Closed} /\ tr \in Trail /\ v \in View /\ sv \in Save /\ n \in Nat
  /\ v.opened <= n /\ sv.opened <= n
  /\ d = Closed => tr = NoTrail
  /\ d # Closed => HistInv(d, tr) /\ Named(d, v, n) /\ CleanSaved(d, sv, n)

GoodAt(id) == Good(docs[id], trail[id], views[id], saved[id], opened[id])

\* The inductive invariant: no call of the ABI tears a document.
EditorInv ==
  /\ docs \in [Ids -> Doc \union {Closed}] /\ trail \in [Ids -> Trail]
  /\ views \in [Ids -> View] /\ saved \in [Ids -> Save] /\ opened \in [Ids -> Nat]
  /\ torn = [id \in Ids |-> FALSE]
  /\ poisoned \in BOOLEAN /\ lastError \in BOOLEAN
  /\ \A id \in Ids : GoodAt(id)

\* A step that is about one document.
Only(id) ==
  /\ docs' = [docs EXCEPT ![id] = docs'[id]] /\ trail' = [trail EXCEPT ![id] = trail'[id]]
  /\ views' = [views EXCEPT ![id] = views'[id]] /\ saved' = [saved EXCEPT ![id] = saved'[id]]
  /\ opened' = [opened EXCEPT ![id] = opened'[id]]
  /\ torn' = torn /\ poisoned' \in BOOLEAN /\ lastError' \in BOOLEAN

LEMMA OneDocument ==
  ASSUME EditorInv, NEW id \in Ids, Only(id), GoodAt(id)'
  PROVE  EditorInv'
  <1>1. /\ docs'[id] \in Doc \union {Closed} /\ trail'[id] \in Trail /\ views'[id] \in View
        /\ saved'[id] \in Save /\ opened'[id] \in Nat
    BY DEF GoodAt, Good
  <1>2. /\ docs' \in [Ids -> Doc \union {Closed}] /\ trail' \in [Ids -> Trail]
        /\ views' \in [Ids -> View] /\ saved' \in [Ids -> Save] /\ opened' \in [Ids -> Nat]
    BY <1>1 DEF EditorInv, Only
  <1>3. ASSUME NEW j \in Ids, j # id PROVE GoodAt(j)'
    <2>1. /\ docs'[j] = docs[j] /\ trail'[j] = trail[j] /\ views'[j] = views[j]
          /\ saved'[j] = saved[j] /\ opened'[j] = opened[j]
      BY <1>3 DEF EditorInv, Only
    <2>2. GoodAt(j)
      BY DEF EditorInv
    <2> QED BY <2>1, <2>2 DEF GoodAt
  <1> QED BY <1>2, <1>3 DEF EditorInv, Only

LEMMA SameDocuments ==
  ASSUME EditorInv, UNCHANGED <<docs, history>>, poisoned' \in BOOLEAN, lastError' \in BOOLEAN
  PROVE  EditorInv'
  BY DEF EditorInv, history, GoodAt

LEMMA EditorInit == Init => EditorInv
  <1> SUFFICES ASSUME Init PROVE EditorInv
    OBVIOUS
  <1>1. NoTrail \in Trail /\ <<>> \in Utf8 /\ <<>> \in Seq(Byte)
    BY DEF NoTrail, Trail, Utf8
  <1>2. NoView \in View /\ [opened |-> 0, text |-> <<>>, marked |-> <<>>] \in Save
    BY <1>1 DEF NoView, View, Save
  <1>3. \A id \in Ids : /\ docs[id] = Closed /\ trail[id] = NoTrail /\ views[id] = NoView
                        /\ saved[id] = [opened |-> 0, text |-> <<>>, marked |-> <<>>] /\ opened[id] = 0
    BY DEF Init, NoTrail
  <1>4. NoView.opened = 0
    BY DEF NoView
  <1>5. \A id \in Ids : GoodAt(id)
    BY <1>1, <1>2, <1>3, <1>4 DEF GoodAt, Good
  <1> QED BY <1>1, <1>2, <1>5 DEF Init, EditorInv, NoTrail

\* Calls that return a result for the document.
LEMMA GoodResult ==
  ASSUME NEW d \in Doc, NEW tr, NEW v, NEW sv, NEW n, Good(d, tr, v, sv, n), NEW r, NEW tr2,
         \/ r = Ok(d) /\ tr2 = tr
         \/ Selects(d, r) /\ tr2 = tr
         \/ Pushes(d, r) /\ tr2 = [past |-> Append(tr.past, d.text), future |-> <<>>]
         \/ /\ r = Undo(d) /\ r # Fail(d)
            /\ tr2 = [past |-> Pop(tr.past), future |-> Append(tr.future, d.text)]
         \/ /\ r = Redo(d) /\ r # Fail(d)
            /\ tr2 = [past |-> Append(tr.past, d.text), future |-> Pop(tr.future)]
  PROVE  r.ok /\ r.doc \in Doc /\ Good(r.doc, tr2, v, sv, n)
  <1>1. d # Closed
    BY EditorAssumption DEF Doc
  <1>2. HistInv(d, tr) /\ Named(d, v, n) /\ CleanSaved(d, sv, n)
    BY <1>1 DEF Good
  <1>3. d \in Document /\ v \in View /\ sv \in Save /\ n \in Nat
        /\ d.revision \in Nat /\ d.clean \in Nat /\ v.revision \in Nat
    BY DEF Doc, Document, Good, View
  <1>4. ASSUME r.doc.revision = d.revision + 1, r.doc.hash = NoHash, r.doc.clean = d.clean,
               HistInv(r.doc, tr2)
        PROVE  r.doc \in Doc /\ Good(r.doc, tr2, v, sv, n)
    <2>1. r.doc \in Doc /\ tr2 \in Trail /\ r.doc # Closed
      BY <1>4, EditorAssumption DEF HistInv, Doc
    <2>2. Named(r.doc, v, n)
      BY <1>2, <1>3, <1>4 DEF Named
    <2>3. CleanSaved(r.doc, sv, n)
      BY <1>2, <1>3, <1>4 DEF CleanSaved
    <2> QED BY <1>4, <2>1, <2>2, <2>3 DEF Good
  <1>5. CASE r = Ok(d) /\ tr2 = tr
    BY <1>5 DEF Ok
  <1>6. CASE Selects(d, r) /\ tr2 = tr
    <2>1. PICK sel \in Selection : r = Ok([d EXCEPT !.selection = sel])
      BY <1>6 DEF Selects
    <2>2. PICK d2 : d2 = [d EXCEPT !.selection = sel]
      OBVIOUS
    <2>3. HistInv(d2, tr)
      BY <1>2, <2>2, SelectKeeps
    <2>4. /\ d2.text = d.text /\ d2.hash = d.hash /\ d2.revision = d.revision /\ d2.clean = d.clean
          /\ d2 \in Doc /\ d2 # Closed
      BY <1>3, <2>2, <2>3, EditorAssumption DEF Document, HistInv, Doc
    <2>5. r.ok /\ r.doc = d2
      BY <2>1, <2>2 DEF Ok
    <2> QED BY <1>2, <1>6, <2>3, <2>4, <2>5 DEF Good, Named, CleanSaved
  <1>7. CASE Pushes(d, r) /\ tr2 = [past |-> Append(tr.past, d.text), future |-> <<>>]
    <2>1. PICK entry \in Entry, text \in Utf8, after \in Selection :
             Links(entry, d.text, text) /\ r = Ok(Pushed(d, entry, text, after))
      BY <1>7 DEF Pushes
    <2>2. PICK d2 : d2 = Pushed(d, entry, text, after)
      OBVIOUS
    <2>3. HistInv(d2, tr2)
      BY <1>2, <1>7, <2>1, <2>2, PushKeeps
    <2>4. d2.revision = d.revision + 1 /\ d2.hash = NoHash /\ d2.clean = d.clean
      BY <1>3, <2>2 DEF Pushed, Document
    <2>5. r.ok /\ r.doc = d2
      BY <2>1, <2>2 DEF Ok
    <2> QED BY <1>4, <2>3, <2>4, <2>5
  <1>8. CASE /\ r = Undo(d) /\ r # Fail(d)
             /\ tr2 = [past |-> Pop(tr.past), future |-> Append(tr.future, d.text)]
    <2>1. /\ r.ok /\ HistInv(r.doc, tr2)
          /\ r.doc.revision = d.revision + 1 /\ r.doc.hash = NoHash /\ r.doc.clean = d.clean
      BY <1>2, <1>8, UndoKeeps
    <2> QED BY <1>4, <2>1
  <1>9. CASE /\ r = Redo(d) /\ r # Fail(d)
             /\ tr2 = [past |-> Append(tr.past, d.text), future |-> Pop(tr.future)]
    <2>1. /\ r.ok /\ HistInv(r.doc, tr2)
          /\ r.doc.revision = d.revision + 1 /\ r.doc.hash = NoHash /\ r.doc.clean = d.clean
      BY <1>2, <1>9, RedoKeeps
    <2> QED BY <1>4, <2>1
  <1> QED BY <1>5, <1>6, <1>7, <1>8, <1>9

\* The results of the calls on one open document.
Results(d, tr, r, tr2) ==
  \/ r = Fail(d) /\ tr2 = tr
  \/ r = Ok(d) /\ tr2 = tr
  \/ Selects(d, r) /\ tr2 = tr
  \/ Pushes(d, r) /\ tr2 = [past |-> Append(tr.past, d.text), future |-> <<>>]
  \/ /\ r = Undo(d) /\ r # Fail(d)
     /\ tr2 = [past |-> Pop(tr.past), future |-> Append(tr.future, d.text)]
  \/ /\ r = Redo(d) /\ r # Fail(d)
     /\ tr2 = [past |-> Append(tr.past, d.text), future |-> Pop(tr.future)]

\* What each call does: it keeps the invariant, and an error changes no
\* document.
Harmless == EditorInv' /\ (lastError' => docs' = docs)

LEMMA Answered ==
  ASSUME EditorInv, NEW id \in Ids, docs[id] # Closed, NEW r, NEW tr2,
         Results(docs[id], trail[id], r, tr2), Return(id, r),
         trail' = [trail EXCEPT ![id] = tr2], UNCHANGED <<views, saved, opened, torn>>
  PROVE  Harmless
  <1>1. PICK d, tr, v, sv, n : /\ d = docs[id] /\ tr = trail[id] /\ v = views[id]
                               /\ sv = saved[id] /\ n = opened[id]
    OBVIOUS
  <1>2. Good(d, tr, v, sv, n) /\ d \in Doc
    BY <1>1 DEF EditorInv, GoodAt
  <1>3. /\ docs' = [docs EXCEPT ![id] = r.doc] /\ lastError' = ~r.ok /\ poisoned' = poisoned
        /\ docs'[id] = r.doc /\ trail'[id] = tr2 /\ views'[id] = v /\ saved'[id] = sv
        /\ opened'[id] = n
    BY <1>1 DEF Return, EditorInv
  <1>4. r.ok \in BOOLEAN /\ Good(r.doc, tr2, v, sv, n) /\ (~r.ok => r.doc = d)
    <2>1. CASE r = Fail(d) /\ tr2 = tr
      BY <1>2, <2>1 DEF Fail
    <2>2. CASE ~(r = Fail(d) /\ tr2 = tr)
      <3>1. r.ok /\ r.doc \in Doc /\ Good(r.doc, tr2, v, sv, n)
        BY <1>1, <1>2, <2>2, GoodResult DEF Results
      <3>2. r.ok = TRUE
        <4>1. \/ r = Ok(d) \/ Selects(d, r) \/ Pushes(d, r) \/ r = Undo(d) \/ r = Redo(d)
          BY <1>1, <2>2 DEF Results
        <4> QED BY <3>1, <4>1 DEF Ok, Fail, Selects, Pushes, Undo, Redo
      <3> QED BY <3>1, <3>2
    <2> QED BY <2>1, <2>2
  <1>5. GoodAt(id)'
    BY <1>3, <1>4 DEF GoodAt
  <1>6. Only(id)
    BY <1>1, <1>3, <1>4 DEF Only, EditorInv
  <1>7. EditorInv'
    BY <1>5, <1>6, OneDocument
  <1>8. lastError' => docs' = docs
    BY <1>1, <1>3, <1>4 DEF EditorInv
  <1> QED BY <1>7, <1>8 DEF Harmless

LEMMA Refused ==
  ASSUME EditorInv, UNCHANGED <<docs, history>>, poisoned' \in BOOLEAN, lastError' \in BOOLEAN
  PROVE  Harmless
  BY SameDocuments DEF Harmless

\* A call that edits.
LEMMA EditedKeeps ==
  ASSUME EditorInv, NEW id \in Ids, docs[id] # Closed, NEW r, Edited(id, r),
         r = Fail(docs[id]) \/ r = Ok(docs[id]) \/ Pushes(docs[id], r)
  PROVE  Harmless
  <1>1. PICK d, tr : d = docs[id] /\ tr = trail[id]
    OBVIOUS
  <1>2. d \in Doc /\ tr \in Trail /\ d.revision \in Nat
    BY <1>1 DEF EditorInv, Doc, Document
  <1>3. Return(id, r) /\ UNCHANGED <<views, saved, opened, torn>>
    BY DEF Edited
  <1>4. CASE r = Fail(d) \/ r = Ok(d)
    <2>1. r.doc.revision = d.revision
      BY <1>4 DEF Fail, Ok
    <2>2. trail' = [trail EXCEPT ![id] = tr]
      BY <1>1, <2>1 DEF Edited, EditorInv
    <2>3. Results(docs[id], trail[id], r, tr)
      BY <1>1, <1>4 DEF Results
    <2> QED BY <1>3, <2>2, <2>3, Answered
  <1>5. CASE Pushes(d, r)
    <2>1. PICK entry \in Entry, text \in Utf8, after \in Selection :
             r = Ok(Pushed(d, entry, text, after))
      BY <1>5 DEF Pushes
    <2>2. r.doc.revision = d.revision + 1
      BY <1>2, <2>1 DEF Ok, Pushed, Doc, Document
    <2>3. PICK tr2 : tr2 = [past |-> Append(tr.past, d.text), future |-> <<>>]
      OBVIOUS
    <2>4. trail' = [trail EXCEPT ![id] = tr2]
      BY <1>1, <1>2, <2>2, <2>3 DEF Edited, EditorInv
    <2>5. Results(docs[id], trail[id], r, tr2)
      BY <1>1, <1>5, <2>3 DEF Results
    <2> QED BY <1>3, <2>4, <2>5, Answered
  <1> QED BY <1>1, <1>4, <1>5

LEMMA TouchKeeps ==
  ASSUME EditorInv, NEW id \in Ids, docs[id] # Closed, NEW r, Touch(id, r),
         r = Fail(docs[id]) \/ Selects(docs[id], r)
  PROVE  Harmless
  <1>1. PICK tr : tr = trail[id]
    OBVIOUS
  <1>2. Return(id, r) /\ UNCHANGED <<views, saved, opened, torn>> /\ trail' = [trail EXCEPT ![id] = tr]
    BY <1>1 DEF Touch, history, EditorInv
  <1>3. Results(docs[id], trail[id], r, tr)
    BY <1>1 DEF Results
  <1> QED BY <1>2, <1>3, Answered

LEMMA MovedKeeps ==
  ASSUME EditorInv, NEW id \in Ids, docs[id] # Closed, UndoAt(id) \/ RedoAt(id), ~poisoned
  PROVE  Harmless
  <1>1. PICK d, tr : d = docs[id] /\ tr = trail[id]
    OBVIOUS
  <1>2. PICK r, tr2 :
          /\ \/ r = Undo(d) /\ tr2 = [past |-> Pop(tr.past), future |-> Append(tr.future, d.text)]
             \/ r = Redo(d) /\ tr2 = [past |-> Append(tr.past, d.text), future |-> Pop(tr.future)]
          /\ Moved(id, r, tr2.past, tr2.future)
          /\ tr2 = [past |-> tr2.past, future |-> tr2.future]
    <2>1. CASE UndoAt(id)
      <3>1. PICK r, tr2 : r = Undo(d) /\ tr2 = [past |-> Pop(tr.past), future |-> Append(tr.future, d.text)]
        OBVIOUS
      <3>2. tr2.past = Pop(tr.past) /\ tr2.future = Append(tr.future, d.text)
        BY <3>1
      <3>3. Moved(id, r, tr2.past, tr2.future)
        BY <1>1, <2>1, <3>1, <3>2 DEF UndoAt, Usable
      <3> QED BY <3>1, <3>2, <3>3
    <2>2. CASE RedoAt(id)
      <3>1. PICK r, tr2 : r = Redo(d) /\ tr2 = [past |-> Append(tr.past, d.text), future |-> Pop(tr.future)]
        OBVIOUS
      <3>2. tr2.past = Append(tr.past, d.text) /\ tr2.future = Pop(tr.future)
        BY <3>1
      <3>3. Moved(id, r, tr2.past, tr2.future)
        BY <1>1, <2>2, <3>1, <3>2 DEF RedoAt, Usable
      <3> QED BY <3>1, <3>2, <3>3
    <2> QED BY <2>1, <2>2
  <1>3. Return(id, r) /\ UNCHANGED <<views, saved, opened, torn>>
    BY <1>2 DEF Moved
  <1>4. CASE r = Fail(d)
    <2>1. r.ok = FALSE
      BY <1>4 DEF Fail
    <2>2. trail' = [trail EXCEPT ![id] = tr]
      BY <1>1, <1>2, <2>1 DEF Moved, EditorInv
    <2>3. Results(docs[id], trail[id], r, tr)
      BY <1>1, <1>4 DEF Results
    <2> QED BY <1>3, <2>2, <2>3, Answered
  <1>5. CASE r # Fail(d)
    <2>1. HistInv(d, tr)
      BY <1>1 DEF EditorInv, GoodAt, Good
    <2>2. r.ok
      <3>1. CASE r = Undo(d)
        <4>1. PICK tr3 : tr3 = [past |-> Pop(tr.past), future |-> Append(tr.future, d.text)]
          OBVIOUS
        <4> QED BY <1>5, <2>1, <3>1, <4>1, UndoKeeps
      <3>2. CASE r = Redo(d)
        <4>1. PICK tr3 : tr3 = [past |-> Append(tr.past, d.text), future |-> Pop(tr.future)]
          OBVIOUS
        <4> QED BY <1>5, <2>1, <3>2, <4>1, RedoKeeps
      <3> QED BY <1>2, <3>1, <3>2
    <2>3. trail' = [trail EXCEPT ![id] = tr2]
      BY <1>2, <2>2 DEF Moved
    <2>4. Results(docs[id], trail[id], r, tr2)
      BY <1>1, <1>2, <1>5 DEF Results
    <2> QED BY <1>3, <2>3, <2>4, Answered
  <1> QED BY <1>4, <1>5

\* The handle, opening and closing, snapshots and saves.
LEMMA RecreateKeeps ==
  ASSUME EditorInv, Recreate
  PROVE  Harmless
  <1>1. NoTrail \in Trail
    BY DEF NoTrail, Trail
  <1>2. /\ docs' = [id \in Ids |-> Closed] /\ trail' = [id \in Ids |-> NoTrail]
        /\ torn' = [id \in Ids |-> FALSE] /\ UNCHANGED <<views, saved, opened>>
    BY DEF Recreate, Forget, NoTrail
  <1>3. \A id \in Ids : /\ docs'[id] = Closed /\ trail'[id] = NoTrail /\ views'[id] = views[id]
                        /\ saved'[id] = saved[id] /\ opened'[id] = opened[id]
    BY <1>2
  <1>4. \A id \in Ids : GoodAt(id)'
    BY <1>1, <1>3 DEF EditorInv, GoodAt, Good
  <1> QED BY <1>1, <1>2, <1>4 DEF Recreate, EditorInv, Harmless

LEMMA OpenKeeps ==
  ASSUME EditorInv, NEW id \in Ids, NEW source \in Sources, NEW readOnly \in BOOLEAN,
         Open(id, source, readOnly), ~poisoned, docs[id] = Closed
  PROVE  Harmless
  <1>1. PICK d, tr, v, sv, n :
          /\ d = NewDocument(source, readOnly) /\ tr = trail[id] /\ v = views[id]
          /\ sv = [opened |-> opened[id] + 1, text |-> source, marked |-> source]
          /\ n = opened[id] + 1
    OBVIOUS
  <1>2. source \in Utf8
    BY EditorAssumption
  <1>3. /\ docs' = [docs EXCEPT ![id] = d] /\ opened' = [opened EXCEPT ![id] = n]
        /\ saved' = [saved EXCEPT ![id] = sv] /\ UNCHANGED <<poisoned, views, trail, torn>>
        /\ lastError' = FALSE
    <2>1. opened[id] \in Nat /\ opened \in [Ids -> Nat]
      BY DEF EditorInv
    <2> QED BY <1>1, <2>1 DEF Open
  <1>4. /\ docs'[id] = d /\ opened'[id] = n /\ saved'[id] = sv /\ views'[id] = v
        /\ trail'[id] = tr
    BY <1>1, <1>3 DEF EditorInv
  <1>5. tr = NoTrail /\ v \in View /\ opened[id] \in Nat /\ v.opened \in Nat /\ v.opened <= opened[id]
    BY <1>1 DEF EditorInv, GoodAt, Good, View
  <1>6. HistInv(d, tr)
    BY <1>1, <1>2, <1>5, NewKeeps DEF NoTrail
  <1>7. d \in Doc /\ tr \in Trail
    BY <1>6 DEF HistInv
  <1>8. sv \in Save /\ n \in Nat /\ sv.opened = n /\ sv.text = source /\ sv.marked = source
    BY <1>1, <1>2, <1>5 DEF Save
  <1>9. d.hash = source /\ d.text = source /\ d.clean = 0 /\ d.revision = 0
    BY <1>1 DEF NewDocument
  <1>10. v.opened # n /\ v.opened <= n /\ sv.opened <= n
    BY <1>1, <1>5, <1>8
  <1>11. Named(d, v, n) /\ CleanSaved(d, sv, n)
    BY <1>8, <1>9, <1>10 DEF Named, CleanSaved
  <1>12. d # Closed
    BY <1>7, EditorAssumption DEF Doc
  <1>13. GoodAt(id)'
    BY <1>4, <1>5, <1>6, <1>7, <1>8, <1>10, <1>11, <1>12 DEF GoodAt, Good
  <1>14. Only(id)
    BY <1>1, <1>3, <1>4 DEF Only, EditorInv
  <1> QED BY <1>3, <1>13, <1>14, OneDocument DEF Harmless

LEMMA CloseKeeps ==
  ASSUME EditorInv, NEW id \in Ids, Close(id), Usable(id)
  PROVE  Harmless
  <1>1. NoTrail \in Trail
    BY DEF NoTrail, Trail
  <1>2. /\ docs' = [docs EXCEPT ![id] = Closed] /\ trail' = [trail EXCEPT ![id] = NoTrail]
        /\ UNCHANGED <<poisoned, views, saved, opened, torn>> /\ lastError' = FALSE
    BY DEF Close, Forget, NoTrail, EditorInv
  <1>3. /\ docs'[id] = Closed /\ trail'[id] = NoTrail
        /\ views'[id] = views[id] /\ saved'[id] = saved[id] /\ opened'[id] = opened[id]
    BY <1>2 DEF EditorInv
  <1>4. GoodAt(id)'
    BY <1>1, <1>3 DEF GoodAt, Good, EditorInv
  <1>5. Only(id)
    BY <1>2, <1>3 DEF Only, EditorInv
  <1> QED BY <1>2, <1>4, <1>5, OneDocument DEF Harmless

LEMMA SnapshotKeeps ==
  ASSUME EditorInv, NEW id \in Ids, Snapshot(id), Usable(id)
  PROVE  Harmless
  <1>1. PICK d, tr, v, sv, n :
          /\ d = docs[id] /\ tr = trail[id] /\ sv = saved[id] /\ n = opened[id]
          /\ v = [opened |-> opened[id], revision |-> d.revision, text |-> d.text, hash |-> d.hash]
    OBVIOUS
  <1>2. /\ views' = [views EXCEPT ![id] = v] /\ lastError' = FALSE
        /\ UNCHANGED <<docs, poisoned, trail, saved, opened, torn>>
    BY <1>1 DEF Snapshot, Viewport
  <1>3. d \in Doc /\ d # Closed /\ n \in Nat /\ Good(d, tr, views[id], sv, n)
    BY <1>1 DEF Usable, EditorInv, GoodAt
  <1>4. d.revision \in Nat /\ d.text \in Utf8 /\ d.hash \in Seq(Byte) \union {NoHash}
    BY <1>3 DEF Doc, Document
  <1>5. v \in View /\ v.opened = n /\ v.revision = d.revision /\ v.text = d.text
    BY <1>1, <1>3, <1>4 DEF View
  <1>6. Named(d, v, n)
    BY <1>3, <1>4, <1>5 DEF Good, Named
  <1>7. /\ docs'[id] = d /\ trail'[id] = tr /\ views'[id] = v /\ saved'[id] = sv
        /\ opened'[id] = n
    BY <1>1, <1>2 DEF EditorInv
  <1>8. Good(d, tr, v, sv, n)
    BY <1>3, <1>5, <1>6 DEF Good
  <1>9. GoodAt(id)'
    BY <1>7, <1>8 DEF GoodAt
  <1>10. Only(id)
    BY <1>1, <1>2, <1>7 DEF Only, EditorInv
  <1> QED BY <1>2, <1>9, <1>10, OneDocument DEF Harmless

LEMMA MarkCleanKeeps ==
  ASSUME EditorInv, NEW id \in Ids, MarkCleanAt(id), Usable(id)
  PROVE  Harmless
  <1>1. PICK d, tr, v, n, r :
          /\ d = docs[id] /\ tr = trail[id] /\ v = views[id] /\ n = opened[id]
          /\ r = MarkClean(d, v.revision)
    OBVIOUS
  <1>2. /\ Return(id, r) /\ UNCHANGED <<trail, views, opened, torn>>
        /\ saved' = IF r.ok THEN [saved EXCEPT ![id] = [opened |-> v.opened, text |-> v.text,
                                                    marked |-> d.text]]
                    ELSE saved
    BY <1>1 DEF MarkCleanAt
  <1>3. d \in Doc /\ d # Closed /\ Good(d, tr, v, saved[id], n)
    BY <1>1 DEF Usable, EditorInv, GoodAt
  <1>4. CASE v.revision # d.revision
    <2>1. PICK sv : sv = saved[id]
      OBVIOUS
    <2>2. r = Fail(d) /\ r.ok = FALSE
      BY <1>1, <1>4 DEF MarkClean, Fail
    <2>3. UNCHANGED <<views, saved, opened, torn>> /\ trail' = [trail EXCEPT ![id] = tr]
      BY <1>1, <1>2, <2>2 DEF EditorInv
    <2>4. Results(docs[id], trail[id], r, tr)
      BY <1>1, <2>2 DEF Results
    <2> QED BY <1>2, <1>3, <1>1, <2>3, <2>4, Answered
  <1>5. CASE v.revision = d.revision
    <2>1. PICK d2, sv : /\ d2 = [d EXCEPT !.clean = d.revision]
                        /\ sv = [opened |-> v.opened, text |-> v.text, marked |-> d.text]
      OBVIOUS
    <2>2. r = Ok(d2) /\ r.ok = TRUE /\ r.doc = d2
      BY <1>1, <1>5, <2>1 DEF MarkClean, Ok
    <2>3. /\ docs' = [docs EXCEPT ![id] = d2] /\ saved' = [saved EXCEPT ![id] = sv]
          /\ lastError' = FALSE /\ UNCHANGED <<poisoned, trail, views, opened, torn>>
      BY <1>2, <2>1, <2>2 DEF Return
    <2>4. /\ docs'[id] = d2 /\ saved'[id] = sv /\ trail'[id] = tr /\ views'[id] = v
          /\ opened'[id] = n
      BY <1>1, <2>3 DEF EditorInv
    <2>5. d \in Document /\ d.revision \in Nat /\ d.text \in Utf8 /\ v \in View /\ HistInv(d, tr) /\ Named(d, v, n)
      BY <1>3 DEF Doc, Document, Good
    <2>6. HistInv(d2, tr)
      BY <2>1, <2>5, SelectKeeps
    <2>7. d2.text = d.text /\ d2.hash = d.hash /\ d2.revision = d.revision /\ d2.clean = d.revision
      BY <2>1, <2>5 DEF Document
    <2>8. sv \in Save /\ sv.opened = v.opened /\ sv.text = v.text /\ sv.marked = d.text
      BY <2>1, <2>5 DEF View, Save
    <2>9. Named(d2, v, n)
      BY <2>5, <2>7 DEF Named
    <2>10. CleanSaved(d2, sv, n)
      BY <1>5, <2>5, <2>7, <2>8 DEF Named, CleanSaved
    <2>11. d2 \in Doc /\ d2 # Closed
      BY <2>6, EditorAssumption DEF HistInv, Doc
    <2>12. Good(d2, tr, v, sv, n)
      BY <1>3, <2>6, <2>8, <2>9, <2>10, <2>11 DEF Good
    <2>13. GoodAt(id)'
      BY <2>4, <2>12 DEF GoodAt
    <2>14. Only(id)
      BY <2>1, <2>3, <2>4 DEF Only, EditorInv
    <2> QED BY <2>3, <2>13, <2>14, OneDocument DEF Harmless
  <1> QED BY <1>4, <1>5

----------------------------------------------------------------------------
(* Every step of the ABI                                                   *)

LEMMA AbiStep ==
  ASSUME EditorInv, AbiNext
  PROVE  Harmless
  <1>0. poisoned \in BOOLEAN /\ lastError \in BOOLEAN
    BY DEF EditorInv
  <1>1. CASE Recreate
    BY <1>1, RecreateKeeps
  <1>2. ASSUME Refuse PROVE Harmless
    BY <1>0, <1>2, Refused DEF Refuse
  <1>3. CASE RejectArgument
    BY <1>2, <1>3 DEF RejectArgument
  <1>4. CASE TakeError
    BY <1>0, <1>4, Refused DEF TakeError
  <1>5. ASSUME NEW id \in Ids, NEW source \in Sources, NEW readOnly \in BOOLEAN,
               Open(id, source, readOnly)
        PROVE  Harmless
    <2>1. CASE poisoned \/ docs[id] # Closed
      BY <1>2, <1>5, <2>1 DEF Open
    <2>2. CASE ~(poisoned \/ docs[id] # Closed)
      BY <1>5, <2>2, OpenKeeps
    <2> QED BY <2>1, <2>2
  <1>6. ASSUME NEW id \in Ids, ~Usable(id),
               \/ Close(id) \/ DeleteBackwardAt(id) \/ DeleteForwardAt(id)
               \/ UndoAt(id) \/ RedoAt(id) \/ Snapshot(id) \/ Read(id) \/ MarkCleanAt(id)
               \/ \E edit \in Edits, after \in Selections :
                     ApplyEdit(id, views[id].revision, edit, after)
               \/ \E text \in Inserts : InsertTextAt(id, text)
               \/ \E direction \in CaretMovement : MoveCaretAt(id, direction)
               \/ \E sel \in Selections : SetSelectionAt(id, sel)
        PROVE  Harmless
    <2>1. Refuse
      <3>1. ASSUME NEW text \in Inserts, InsertTextAt(id, text) PROVE Refuse
        BY <1>6, <3>1 DEF InsertTextAt
      <3>2. ASSUME NEW edit \in Edits, NEW after \in Selections,
                   ApplyEdit(id, views[id].revision, edit, after)
            PROVE  Refuse
        BY <1>6, <3>2 DEF ApplyEdit
      <3>3. CASE DeleteBackwardAt(id) \/ DeleteForwardAt(id)
        BY <1>6, <3>3 DEF DeleteBackwardAt, DeleteForwardAt, EditOperation
      <3>4. CASE UndoAt(id) \/ RedoAt(id)
        BY <1>6, <3>4 DEF UndoAt, RedoAt
      <3>5. CASE Close(id) \/ Snapshot(id) \/ Read(id) \/ MarkCleanAt(id)
        BY <1>6, <3>5 DEF Close, Snapshot, Read, MarkCleanAt
      <3>6. ASSUME NEW direction \in CaretMovement, MoveCaretAt(id, direction) PROVE Refuse
        BY <1>6, <3>6 DEF MoveCaretAt
      <3>7. ASSUME NEW sel \in Selections, SetSelectionAt(id, sel) PROVE Refuse
        BY <1>6, <3>7 DEF SetSelectionAt
      <3> QED BY <1>6, <3>1, <3>2, <3>3, <3>4, <3>5, <3>6, <3>7
    <2> QED BY <1>2, <2>1
  <1>7. ASSUME NEW id \in Ids, Usable(id)
        PROVE  docs[id] # Closed /\ ~poisoned /\ docs[id] \in Doc
    BY <1>7 DEF Usable, EditorInv
  <1>8. ASSUME NEW id \in Ids, Usable(id), NEW edit \in Edits, NEW after \in Selections,
               ApplyEdit(id, views[id].revision, edit, after)
        PROVE  Harmless
    <2>1. PICK d, base, r : /\ d = docs[id] /\ base = views[id].revision
                            /\ r = ApplyTransaction(d, base, <<edit>>, d.selection, after)
      OBVIOUS
    <2>2. d \in Doc /\ d.selection \in Selection /\ after \in Selection /\ docs[id] # Closed
      BY <1>7, <1>8, <2>1, EditorAssumption DEF Doc, Document
    <2>3. edit.start \in Nat /\ edit.end \in Nat /\ edit.inserted \in Utf8
      BY EditorAssumption
    <2>4. r = Fail(d) \/ Pushes(d, r)
      BY <2>1, <2>2, <2>3, OneEdit
    <2>5. Edited(id, r)
      BY <1>8, <2>1 DEF ApplyEdit
    <2> QED BY <2>1, <2>2, <2>4, <2>5, EditedKeeps
  <1>9. ASSUME NEW id \in Ids, Usable(id), NEW text \in Inserts, InsertTextAt(id, text)
        PROVE  Harmless
    <2>1. CASE OverflowChecks /\ InsertOverflows(docs[id], text)
      BY <1>0, <1>9, <2>1, Refused DEF InsertTextAt
    <2>2. CASE ~(OverflowChecks /\ InsertOverflows(docs[id], text))
      <3>1. PICK d, r : d = docs[id] /\ r = InsertText(d, text)
        OBVIOUS
      <3>2. r = Fail(d) \/ Pushes(d, r)
        BY <1>7, <1>9, <3>1, EditorAssumption, Inserting
      <3>3. Edited(id, r)
        BY <1>9, <2>2, <3>1 DEF InsertTextAt
      <3> QED BY <1>7, <1>9, <3>1, <3>2, <3>3, EditedKeeps
    <2> QED BY <2>1, <2>2
  <1>10. ASSUME NEW id \in Ids, Usable(id), DeleteBackwardAt(id) \/ DeleteForwardAt(id)
         PROVE  Harmless
    <2>1. PICK d, r : /\ d = docs[id] /\ Edited(id, r)
                      /\ r = DeleteBackward(d) \/ r = DeleteForward(d)
      BY <1>10 DEF DeleteBackwardAt, DeleteForwardAt, EditOperation
    <2>2. r = Fail(d) \/ r = Ok(d) \/ Pushes(d, r)
      BY <1>7, <1>10, <2>1, Deleting
    <2> QED BY <1>7, <1>10, <2>1, <2>2, EditedKeeps
  <1>11. ASSUME NEW id \in Ids, Usable(id), NEW direction \in CaretMovement,
                MoveCaretAt(id, direction)
         PROVE  Harmless
    <2>1. PICK d, r : d = docs[id] /\ r = MoveCaret(d, direction)
      OBVIOUS
    <2>2. r = Fail(d) \/ Selects(d, r)
      BY <1>7, <1>11, <2>1, Moving
    <2>3. Touch(id, r)
      BY <1>11, <2>1 DEF MoveCaretAt
    <2> QED BY <1>7, <1>11, <2>1, <2>2, <2>3, TouchKeeps
  <1>12. ASSUME NEW id \in Ids, Usable(id), NEW sel \in Selections, SetSelectionAt(id, sel)
         PROVE  Harmless
    <2>1. PICK d, r : d = docs[id] /\ r = SetSelection(d, sel)
      OBVIOUS
    <2>2. r = Fail(d) \/ Selects(d, r)
      BY <2>1, EditorAssumption, Selecting
    <2>3. Touch(id, r)
      BY <1>12, <2>1 DEF SetSelectionAt
    <2> QED BY <1>7, <1>12, <2>1, <2>2, <2>3, TouchKeeps
  <1>13. ASSUME NEW id \in Ids, Usable(id), UndoAt(id) \/ RedoAt(id)
         PROVE  Harmless
    BY <1>7, <1>13, MovedKeeps
  <1>14. ASSUME NEW id \in Ids, Usable(id), Close(id) \/ Snapshot(id) \/ Read(id) \/ MarkCleanAt(id)
         PROVE  Harmless
    <2>1. CASE Read(id)
      BY <1>0, <1>14, <2>1, Refused DEF Read
    <2> QED BY <1>14, <2>1, CloseKeeps, SnapshotKeeps, MarkCleanKeeps
  <1>15. ASSUME NEW id \in Ids,
               \/ Close(id) \/ DeleteBackwardAt(id) \/ DeleteForwardAt(id)
               \/ UndoAt(id) \/ RedoAt(id) \/ Snapshot(id) \/ Read(id) \/ MarkCleanAt(id)
               \/ \E edit \in Edits, after \in Selections :
                     ApplyEdit(id, views[id].revision, edit, after)
               \/ \E text \in Inserts : InsertTextAt(id, text)
               \/ \E direction \in CaretMovement : MoveCaretAt(id, direction)
               \/ \E sel \in Selections : SetSelectionAt(id, sel)
        PROVE  Harmless
    <2>1. CASE ~Usable(id)
      BY <1>6, <1>15, <2>1
    <2>2. CASE Usable(id)
      BY <1>8, <1>9, <1>10, <1>11, <1>12, <1>13, <1>14, <1>15, <2>2
    <2> QED BY <2>1, <2>2
  <1> QED BY <1>1, <1>3, <1>4, <1>5, <1>15 DEF AbiNext

LEMMA EditorStep ==
  ASSUME EditorInv, [AbiNext]_vars
  PROVE  Harmless
  <1>1. CASE AbiNext
    BY <1>1, AbiStep
  <1>2. CASE UNCHANGED vars
    BY <1>2, Refused DEF vars, state, history, EditorInv
  <1> QED BY <1>1, <1>2

LEMMA EditorInvariant == AbiSpec => []EditorInv
  <1>1. EditorInv /\ [AbiNext]_vars => EditorInv'
    BY EditorStep DEF Harmless
  <1> QED BY <1>1, EditorInit, PTL DEF AbiSpec

----------------------------------------------------------------------------
(* Theorems                                                                *)

\* Every document and every record of the caller keeps its type, whatever
\* calls are made (the C ABI of lattice-editor-native).
THEOREM EditorTypes == AbiSpec => []TypeOK
  <1>1. Utf8 \subseteq Text
    BY DEF Utf8, Text
  <1>2. Seq(Utf8) \subseteq Seq(Text)
    <2> SUFFICES ASSUME NEW q \in Seq(Utf8) PROVE q \in Seq(Text)
      OBVIOUS
    <2>1. \A i \in 1..Len(q) : q[i] \in Text
      BY <1>1, ElementOfSeq
    <2>2. q = [i \in 1..Len(q) |-> q[i]] /\ Len(q) \in Nat
      OBVIOUS
    <2> QED BY <2>1, <2>2
  <1>3. EditorInv => TypeOK
    <2> SUFFICES ASSUME EditorInv PROVE TypeOK
      OBVIOUS
    <2>1. Doc \subseteq Document
      BY DEF Doc
    <2>2. Trail \subseteq [past: Seq(Text), future: Seq(Text)]
      BY <1>2 DEF Trail
    <2>3. View \subseteq [opened: Nat, revision: Nat, text: Text, hash: Text \union {NoHash}]
      BY <1>1 DEF View, Text
    <2>4. Save \subseteq [opened: Nat, text: Text, marked: Text]
      BY <1>1 DEF Save
    <2>5. docs \in [Ids -> Document \union {Closed}]
      BY <2>1 DEF EditorInv
    <2>6. /\ trail \in [Ids -> [past: Seq(Text), future: Seq(Text)]]
          /\ views \in [Ids -> [opened: Nat, revision: Nat, text: Text, hash: Text \union {NoHash}]]
          /\ saved \in [Ids -> [opened: Nat, text: Text, marked: Text]]
      BY <2>2, <2>3, <2>4 DEF EditorInv
    <2>7. /\ opened \in [Ids -> Nat] /\ torn \in [Ids -> BOOLEAN]
          /\ poisoned \in BOOLEAN /\ lastError \in BOOLEAN
      BY DEF EditorInv
    <2> QED BY <2>5, <2>6, <2>7 DEF TypeOK
  <1> QED BY <1>3, EditorInvariant, PTL

\* Undo and redo reach exactly the texts the caller saw (Document::undo,
\* redo and the history apply_transaction keeps), for every text, every edit
\* and every number of calls of the ABI.
THEOREM UndoExact == AbiSpec => []HistoryExact
  <1>1. EditorInv => HistoryExact
    BY DEF EditorInv, GoodAt, Good, HistInv, Linked, HistoryExact, Intact
  <1> QED BY <1>1, EditorInvariant, PTL

\* While a document stays open, a revision stands for one text, and the
\* cached hash is the text's (revision and cached_content_hash).
THEOREM RevisionsNameTexts == AbiSpec => []RevisionNamesText
  <1>1. EditorInv => RevisionNamesText
    BY DEF EditorInv, GoodAt, Good, Named, RevisionNamesText, Intact
  <1> QED BY <1>1, EditorInvariant, PTL

\* A document that reports itself unmodified holds the text it was opened with
\* or last marked clean with, which is the text the caller saved unless the
\* caller marked a revision it had seen in an earlier opening (is_modified and
\* mark_clean).
THEOREM CleanDocuments == AbiSpec => []CleanIsSaved
  <1>1. EditorInv => CleanIsSaved
    <2> SUFFICES ASSUME EditorInv PROVE CleanIsSaved
      OBVIOUS
    <2>1. ASSUME NEW id \in Ids, docs[id] # Closed
          PROVE  CleanSaved(docs[id], saved[id], opened[id])
      BY <2>1 DEF EditorInv, GoodAt, Good
    <2> QED BY <2>1 DEF CleanSaved, CleanIsSaved, Intact, Modified
  <1> QED BY <1>1, EditorInvariant, PTL

\* A call of the ABI that reports an error leaves every document as it was.
THEOREM FailedCallsHarmless == AbiSpec => FailedCallChangesNothing
  <1>1. EditorInv /\ [AbiNext]_vars
          => [lastError' =>
                \A id \in Ids :
                   \/ torn[id]
                   \/ docs'[id] = docs[id]
                   \/ torn'[id] /\ docs'[id] = [docs[id] EXCEPT !.text = docs'[id].text]]_vars
    BY EditorStep DEF Harmless
  <1> QED BY <1>1, EditorInvariant, PTL DEF AbiSpec, FailedCallChangesNothing

=============================================================================
