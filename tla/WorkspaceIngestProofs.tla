------------------------ MODULE WorkspaceIngestProofs ------------------------
(***************************************************************************)
(* The theorems about WorkspaceIngest, for any number of sources and       *)
(* contents and any bound on the revisions.                                *)
(***************************************************************************)
EXTENDS WorkspaceIngest, FiniteSetTheorems, WellFoundedInduction, TLAPS

(***************************************************************************)
(* The next file of an ingest.                                             *)
(***************************************************************************)

HasLeast(S) == \E x \in S : \A y \in S : x <= y

\* Every finite set of naturals that is not empty has a least element: a
\* smallest one without would be one element and a rest that has.
LEMMA MinIsLeast ==
  ASSUME NEW S \in SUBSET Nat, IsFiniteSet(S), S # {}
  PROVE  Min(S) \in S /\ \A y \in S : Min(S) <= y
<1> DEFINE T == {U \in SUBSET S : U # {} /\ ~HasLeast(U)}
<1>1. T = {}
  <2> SUFFICES ASSUME T # {} PROVE FALSE
    OBVIOUS
  <2>1. T \subseteq FiniteSubsetsOf(S)
    BY FS_Subset DEF FiniteSubsetsOf
  <2>2. PICK U \in T : \A V \in T : ~(<<V, U>> \in StrictSubsetOrdering(S))
    BY <2>1, FS_StrictSubsetOrderingWellFounded, WFMin
  <2>3. PICK u \in U : TRUE
    OBVIOUS
  <2>4. U \ {u} \notin T
    BY <2>2, <2>3 DEF StrictSubsetOrdering
  <2>5. HasLeast(U)
    BY <2>3, <2>4 DEF HasLeast
  <2> QED BY <2>5
<1>2. HasLeast(S)
  BY <1>1
<1> QED BY <1>2 DEF HasLeast, Min

LEMMA NextIsPath ==
  ASSUME TypeOK, proc.todo # {}
  PROVE  Min(proc.todo) \in proc.todo /\ Min(proc.todo) \in Paths
BY MinIsLeast, FS_Subset, WorkspaceAssumption DEF TypeOK

(***************************************************************************)
(* Types.                                                                  *)
(***************************************************************************)

\* A source that is being recorded or indexed has a path and a content.
SourceInHand == proc.phase \in {"stored", "recorded"} =>
                    proc.path \in Paths /\ proc.bytes \in Contents

ProcType == [phase: Phase, todo: SUBSET Paths, path: Paths \union {None},
             bytes: Contents \union {None}, changed: BOOLEAN, rebuild: BOOLEAN,
             revision: Nat, graph: SUBSET Paths, failed: BOOLEAN]

LEMMA InitType == Init => TypeOK /\ SourceInHand
<1> SUFFICES ASSUME Init PROVE TypeOK /\ SourceInHand
  OBVIOUS
<1>1. proc = Down /\ SourceInHand
  BY DEF Init, SourceInHand, Down
<1>2. catalog \in [Paths -> [hash: Contents \union {None}, revision: Nat]]
  BY DEF Init, NoRow
<1>3. disk \in [Paths -> Contents \union {None, NotUtf8}]
  BY DEF Init
<1>4. objects \in [Contents -> {"absent", "good", "corrupt"}]
      /\ index \in [Paths -> Contents \union {None}]
  BY DEF Init
<1>5. proc \in ProcType
  BY <1>1 DEF Down, Phase, ProcType
<1>6. interrupted \in BOOLEAN
  BY DEF Init
<1>7. schema \in 0..2 /\ wsRevision \in Nat /\ revisions \subseteq Revision
  BY DEF Init
<1> QED BY <1>1, <1>2, <1>3, <1>4, <1>5, <1>6, <1>7 DEF TypeOK, ProcType

LEMMA StepType ==
  ASSUME TypeOK, SourceInHand, [Next]_vars
  PROVE  TypeOK' /\ SourceInHand'
<1> USE WorkspaceAssumption DEF TypeOK, SourceInHand, store, Phase, ProcType
<1>1. CASE \E p \in Paths, c \in Contents \union {None, NotUtf8} : UserWrites(p, c)
  BY <1>1 DEF UserWrites
<1>2. CASE UserDeletesIndex BY <1>2 DEF UserDeletesIndex
<1>3. CASE \E c \in Contents : UserDamagesObject(c) BY <1>3 DEF UserDamagesObject
<1>4. CASE Crash
  <2>1. interrupted' \in BOOLEAN BY <1>4 DEF Crash
  <2>2. SourceInHand' BY <1>4 DEF Crash, Down
  <2>3. proc' \in ProcType
     BY <1>4 DEF Crash, Down
  <2> QED BY <1>4, <2>1, <2>2, <2>3 DEF Crash
<1>5. CASE OpenDatabase BY <1>5 DEF OpenDatabase
<1>6. CASE OpenWorkspace
  <2>1. proc' \in ProcType /\ proc'.phase = "idle" BY <1>6 DEF OpenWorkspace, Down
  <2> QED BY <1>6, <2>1 DEF OpenWorkspace
<1>7. CASE OpenFails BY <1>7 DEF OpenFails, Down
<1>8. CASE StartIngest
  <2>1. interrupted' \in BOOLEAN /\ IndexEmpty \in BOOLEAN BY <1>8 DEF StartIngest, IndexEmpty
  <2>2. Discovered \subseteq Paths BY DEF Discovered
  <2>3. proc' \in ProcType
     BY <1>8, <2>1, <2>2 DEF StartIngest
  <2> QED BY <1>8, <2>1, <2>3 DEF StartIngest
<1>9. CASE PutObject BY <1>9, NextIsPath DEF PutObject, Readable
<1>10. CASE ReadFails \/ IngestFails
  <2>1. proc' \in ProcType /\ proc'.phase = "idle" BY <1>10 DEF ReadFails, IngestFails
  <2>2. interrupted' \in BOOLEAN BY <1>10 DEF ReadFails, IngestFails
  <2> QED BY <1>10, <2>1, <2>2 DEF ReadFails, IngestFails
<1>11. CASE RecordSource
  <2> DEFINE row == catalog[proc.path]
             next == [hash |-> proc.bytes, revision |-> row.revision + 1]
             added == [path |-> proc.path, revision |-> next.revision, hash |-> next.hash,
                       at |-> wsRevision + 1]
  <2>1. row \in [hash: Contents \union {None}, revision: Nat]
        /\ next \in [hash: Contents, revision: Nat \ {0}] /\ added \in Revision
    BY <1>11 DEF RecordSource, Revision
  <2>2. catalog' \in [Paths -> [hash: Contents \union {None}, revision: Nat]]
        /\ revisions' \subseteq Revision /\ wsRevision' \in Nat
    BY <1>11, <2>1 DEF RecordSource
  <2>3. proc' = [proc EXCEPT !.phase = "recorded", !.changed = Changed(proc.path, proc.bytes)]
    BY <1>11 DEF RecordSource
  <2> QED BY <1>11, <2>2, <2>3 DEF RecordSource, Changed
<1>12. CASE IndexSource BY <1>12 DEF IndexSource, NeedsIndexing
<1>13. CASE FinishIngest BY <1>13 DEF FinishIngest
<1>14. CASE UNCHANGED vars BY <1>14 DEF vars
<1> QED BY <1>1, <1>2, <1>3, <1>4, <1>5, <1>6, <1>7, <1>8, <1>9, <1>10, <1>11, <1>12, <1>13,
           <1>14 DEF Next

\* The stores and the process hold values of their types whatever is killed,
\* fails or is edited when.
THEOREM WorkspaceTypes == Spec => []TypeOK
<1> QED BY InitType, StepType, PTL DEF Spec

(***************************************************************************)
(* The catalog: objects before rows, and the history of every source.      *)
(***************************************************************************)
ObjectInHand == proc.phase \in {"stored", "recorded"} => objects[proc.bytes] # "absent"

\* The rows are finitely many, none is newer than the workspace revision.
RowsCounted == IsFiniteSet(revisions) /\ \A r \in revisions : r.at <= wsRevision

CatalogInv == CatalogHasObjects /\ ObjectInHand /\ RowsCounted /\ RevisionHistory

LEMMA InitCatalog == Init => CatalogInv
<1> SUFFICES ASSUME Init PROVE CatalogInv
  OBVIOUS
<1>1. RowsCounted /\ Cardinality(revisions) = 0
  BY FS_EmptySet DEF Init, RowsCounted
<1>2. CatalogHasObjects /\ ObjectInHand
  BY DEF Init, CatalogHasObjects, ObjectInHand, Down
<1>3. RevisionHistory
  BY <1>1 DEF Init, RevisionHistory, NoRow
<1> QED BY <1>1, <1>2, <1>3 DEF CatalogInv

\* The row that RecordSource adds when the content changed.
NewRow == [path |-> proc.path, revision |-> catalog[proc.path].revision + 1,
           hash |-> proc.bytes, at |-> wsRevision + 1]

RowAdded ==
    /\ catalog[proc.path].hash # proc.bytes
    /\ catalog' = [catalog EXCEPT ![proc.path] = [hash |-> proc.bytes,
                                                  revision |-> catalog[proc.path].revision + 1]]
    /\ wsRevision' = wsRevision + 1
    /\ revisions' = revisions \union {NewRow}

RowKept ==
    /\ catalog[proc.path].hash = proc.bytes
    /\ UNCHANGED <<catalog, wsRevision, revisions>>

LEMMA RecordCases == ASSUME RecordSource PROVE RowAdded \/ RowKept
BY DEF RecordSource, Changed, RowAdded, RowKept, NewRow

LEMMA OneMore == ASSUME NEW n \in Nat PROVE (1..n) \union {n + 1} = 1..(n + 1)
OBVIOUS

LEMMA RowAddedHistory ==
  ASSUME TypeOK, SourceInHand, proc.phase = "stored", CatalogInv, RowAdded
  PROVE  RowsCounted' /\ RevisionHistory'
<1> USE DEF TypeOK, SourceInHand, Revision
<1>1. NewRow \in Revision /\ NewRow \notin revisions
      /\ NewRow.at = wsRevision + 1 /\ NewRow.path = proc.path /\ NewRow.hash = proc.bytes
      /\ NewRow.revision = catalog[proc.path].revision + 1
  BY DEF NewRow, CatalogInv, RowsCounted
<1>2. RowsCounted' /\ wsRevision' = Cardinality(revisions')
  BY <1>1, FS_AddElement DEF RowAdded, CatalogInv, RowsCounted, RevisionHistory
<1>3. ASSUME NEW p \in Paths
      PROVE  LET rows == {r \in revisions' : r.path = p}
             IN  /\ {r.revision : r \in rows} = 1..catalog'[p].revision
                 /\ catalog'[p].revision = 0 <=> catalog'[p].hash = None
                 /\ \A r \in rows : r.revision = catalog'[p].revision => r.hash = catalog'[p].hash
                 /\ \A r, s \in rows : s.revision = r.revision + 1 => r.hash # s.hash /\ r.at < s.at
  <2> DEFINE rows == {r \in revisions : r.path = p}
             rows2 == {r \in revisions' : r.path = p}
  <2>1. /\ {r.revision : r \in rows} = 1..catalog[p].revision
        /\ catalog[p].revision = 0 <=> catalog[p].hash = None
        /\ \A r \in rows : r.revision = catalog[p].revision => r.hash = catalog[p].hash
        /\ \A r, s \in rows : s.revision = r.revision + 1 => r.hash # s.hash /\ r.at < s.at
    BY <1>3 DEF CatalogInv, RevisionHistory
  <2>2. CASE p # proc.path
    <3>1. rows2 = rows /\ catalog'[p] = catalog[p]
      BY <1>1, <2>2 DEF RowAdded
    <3> QED BY <2>1, <3>1
  <2>3. CASE p = proc.path
    <3>1. rows2 = rows \union {NewRow}
      BY <1>1, <2>3 DEF RowAdded
    <3>2. catalog'[p].revision = catalog[p].revision + 1 /\ catalog'[p].hash = proc.bytes
          /\ catalog[p].revision \in Nat
      BY <2>3 DEF RowAdded
    <3>3. {r.revision : r \in rows2} = 1..catalog'[p].revision
      <4>1. {r.revision : r \in rows2} = {r.revision : r \in rows} \union {NewRow.revision}
        BY <3>1
      <4>2. (1..catalog[p].revision) \union {catalog[p].revision + 1}
               = 1..(catalog[p].revision + 1)
        BY <3>2, OneMore
      <4> QED BY <1>1, <2>1, <2>3, <3>2, <4>1, <4>2
    <3>4. \A r \in rows : r.revision \in 1..catalog[p].revision /\ r.at <= wsRevision
                          /\ r.at \in Nat
      BY <2>1 DEF CatalogInv, RowsCounted
    <3>5. \A r \in rows2 : r.revision = catalog'[p].revision => r.hash = catalog'[p].hash
      BY <1>1, <2>3, <3>1, <3>2, <3>4
    <3>6. ASSUME NEW r \in rows2, NEW s \in rows2, s.revision = r.revision + 1
          PROVE  r.hash # s.hash /\ r.at < s.at
      <4>1. CASE r \in rows /\ s \in rows
        BY <2>1, <3>6, <4>1
      <4>2. CASE r = NewRow
        BY <1>1, <2>3, <3>1, <3>2, <3>4, <3>6, <4>2
      <4>3. CASE r \in rows /\ s = NewRow
        <5>1. s.revision = catalog[p].revision + 1
          BY <1>1, <2>3, <4>3
        <5>2. r.revision = catalog[p].revision
          <6>1. r.revision \in Nat BY <3>4, <4>3
          <6> HIDE DEF TypeOK, rows, rows2
          <6> QED BY <3>2, <3>6, <5>1, <6>1
        <5> QED BY <1>1, <2>1, <2>3, <3>4, <4>3, <5>2 DEF RowAdded
      <4> QED BY <3>1, <4>1, <4>2, <4>3
    <3>7. catalog'[p].revision = 0 <=> catalog'[p].hash = None
      BY <3>2, WorkspaceAssumption
    <3> QED BY <3>3, <3>5, <3>6, <3>7
  <2> QED BY <2>2, <2>3
<1> QED BY <1>2, <1>3 DEF RevisionHistory

LEMMA StepCatalog ==
  ASSUME TypeOK, SourceInHand, CatalogInv, [Next]_vars
  PROVE  CatalogInv'
<1>1. CASE RecordSource
  <2>1. ObjectInHand' /\ objects' = objects /\ proc.phase = "stored"
    BY <1>1 DEF RecordSource, CatalogInv, ObjectInHand, TypeOK
  <2>2. CASE RowAdded
    <3>1. RowsCounted' /\ RevisionHistory'
      BY <2>1, <2>2, RowAddedHistory
    <3>2. CatalogHasObjects'
      BY <2>1, <2>2 DEF RowAdded, NewRow, CatalogInv, CatalogHasObjects, ObjectInHand
    <3> QED BY <2>1, <3>1, <3>2 DEF CatalogInv
  <2>3. CASE RowKept
    BY <2>1, <2>3 DEF RowKept, CatalogInv, CatalogHasObjects, RowsCounted, RevisionHistory
  <2> QED BY <1>1, <2>2, <2>3, RecordCases
<1>2. CASE PutObject
  <2>1. RowsCounted' /\ RevisionHistory'
    BY <1>2 DEF PutObject, CatalogInv, RowsCounted, RevisionHistory
  <2>2. CatalogHasObjects' /\ ObjectInHand'
    BY <1>2, NextIsPath DEF PutObject, CatalogInv, CatalogHasObjects, ObjectInHand, TypeOK,
                            Revision, Readable
  <2> QED BY <2>1, <2>2 DEF CatalogInv
<1>3. CASE \E c \in Contents : UserDamagesObject(c)
  <2>1. RowsCounted' /\ RevisionHistory'
    BY <1>3 DEF UserDamagesObject, CatalogInv, RowsCounted, RevisionHistory
  <2>2. CatalogHasObjects' /\ ObjectInHand'
    BY <1>3 DEF UserDamagesObject, CatalogInv, CatalogHasObjects, ObjectInHand, TypeOK,
                SourceInHand, Revision
  <2> QED BY <2>1, <2>2 DEF CatalogInv
<1>4. CASE ~RecordSource /\ ~PutObject /\ ~\E c \in Contents : UserDamagesObject(c)
  <2>1. UNCHANGED <<objects, catalog, revisions, wsRevision>>
    BY <1>4 DEF Next, vars, store, UserWrites, UserDeletesIndex, Crash, OpenDatabase,
         OpenWorkspace, OpenFails, StartIngest, ReadFails, IngestFails, IndexSource, FinishIngest
  <2>2. CatalogHasObjects' /\ RowsCounted' /\ RevisionHistory'
    BY <2>1 DEF CatalogInv, CatalogHasObjects, RowsCounted, RevisionHistory
  <2>3. proc'.phase \notin {"stored", "recorded"} \/ proc' = proc
    <3>1. CASE Crash \/ OpenFails BY <3>1 DEF Crash, OpenFails, Down
    <3>7. CASE OpenWorkspace BY <3>7 DEF OpenWorkspace, Down
    <3>2. CASE OpenDatabase \/ StartIngest BY <3>2 DEF OpenDatabase, StartIngest, TypeOK
    <3>3. CASE ReadFails \/ IngestFails BY <3>3 DEF ReadFails, IngestFails, TypeOK
    <3>4. CASE IndexSource \/ FinishIngest BY <3>4 DEF IndexSource, FinishIngest, TypeOK
    <3>5. CASE UNCHANGED proc BY <3>5
    <3>6. \/ Crash \/ OpenDatabase \/ OpenWorkspace \/ OpenFails \/ StartIngest
          \/ ReadFails \/ IngestFails \/ IndexSource \/ FinishIngest \/ UNCHANGED proc
      BY <1>4 DEF Next, vars, UserWrites, UserDeletesIndex
    <3> QED BY <3>1, <3>2, <3>3, <3>4, <3>5, <3>6, <3>7
  <2>4. ObjectInHand'
    BY <2>1, <2>3 DEF CatalogInv, ObjectInHand
  <2> QED BY <2>2, <2>4 DEF CatalogInv
<1> QED BY <1>1, <1>2, <1>3, <1>4

\* Every row of the catalog refers to an object that is on disk.
THEOREM ObjectsBeforeRows == Spec => []CatalogHasObjects
<1>1. Init => TypeOK /\ SourceInHand /\ CatalogInv
  BY InitType, InitCatalog
<1>2. TypeOK /\ SourceInHand /\ CatalogInv /\ [Next]_vars
         => TypeOK' /\ SourceInHand' /\ CatalogInv'
  BY StepType, StepCatalog
<1>3. CatalogInv => CatalogHasObjects
  BY DEF CatalogInv
<1> QED BY <1>1, <1>2, <1>3, PTL DEF Spec

\* The catalog keeps the whole history of every source, in order and without
\* repetitions, and the workspace revision counts it.
THEOREM HistoryComplete == Spec => []RevisionHistory
<1>1. Init => TypeOK /\ SourceInHand /\ CatalogInv
  BY InitType, InitCatalog
<1>2. TypeOK /\ SourceInHand /\ CatalogInv /\ [Next]_vars
         => TypeOK' /\ SourceInHand' /\ CatalogInv'
  BY StepType, StepCatalog
<1>3. CatalogInv => RevisionHistory
  BY DEF CatalogInv
<1> QED BY <1>1, <1>2, <1>3, PTL DEF Spec

(***************************************************************************)
(* Search: what is indexed was recorded.                                   *)
(***************************************************************************)
RecordedIn(rows, p, c) == \E r \in rows : r.path = p /\ r.hash = c

SearchInv ==
    /\ \A p \in Paths : index[p] # None => RecordedIn(revisions, p, index[p])
    /\ proc.phase = "recorded" => RecordedIn(revisions, proc.path, proc.bytes)
    /\ proc.phase = "idle" /\ ~proc.failed => proc.revision = wsRevision

\* A catalogued source has a row for its current content.
LEMMA CurrentRow ==
  ASSUME TypeOK, CatalogInv, NEW p \in Paths, catalog[p].hash # None
  PROVE  RecordedIn(revisions, p, catalog[p].hash)
<1> DEFINE rows == {r \in revisions : r.path = p}
<1>1. catalog[p].revision \in Nat \ {0} /\ {r.revision : r \in rows} = 1..catalog[p].revision
      /\ \A r \in rows : r.revision = catalog[p].revision => r.hash = catalog[p].hash
  BY DEF CatalogInv, RevisionHistory, TypeOK
<1>2. catalog[p].revision \in 1..catalog[p].revision
  BY <1>1
<1>3. PICK r \in rows : r.revision = catalog[p].revision
  BY <1>1, <1>2
<1> QED BY <1>1, <1>3 DEF RecordedIn

LEMMA InitSearch == Init => SearchInv
BY DEF Init, SearchInv, Down

LEMMA StepSearch ==
  ASSUME TypeOK, SourceInHand, CatalogInv, SearchInv, [Next]_vars
  PROVE  SearchInv'
<1> DEFINE Kept == \A p, c : RecordedIn(revisions, p, c) => RecordedIn(revisions', p, c)
<1>1. CASE RecordSource
  <2>1. Kept /\ RecordedIn(revisions', proc.path, proc.bytes)
    <3>1. CASE RowAdded
      <4>1. Kept BY <3>1 DEF RowAdded, RecordedIn
      <4>2. NewRow \in revisions' /\ NewRow.path = proc.path /\ NewRow.hash = proc.bytes
        BY <3>1 DEF RowAdded, NewRow
      <4> QED BY <4>1, <4>2 DEF RecordedIn
    <3>2. CASE RowKept
      <4>1. RecordedIn(revisions, proc.path, proc.bytes)
        BY <1>1, <3>2, CurrentRow, WorkspaceAssumption DEF RowKept, SourceInHand, RecordSource
      <4> QED BY <3>2, <4>1 DEF RowKept, RecordedIn
    <3> QED BY <1>1, <3>1, <3>2, RecordCases
  <2>2. /\ proc'.path = proc.path /\ proc'.bytes = proc.bytes /\ proc'.phase = "recorded"
        /\ index' = index
    BY <1>1 DEF RecordSource, TypeOK
  <2> HIDE DEF Kept
  <2>3. RecordedIn(revisions', proc'.path, proc'.bytes)
    BY <2>1, <2>2
  <2>4. \A p \in Paths : index[p] # None => RecordedIn(revisions', p, index[p])
    BY <2>1 DEF SearchInv, Kept
  <2> QED BY <2>2, <2>3, <2>4 DEF SearchInv
<1>2. CASE ~RecordSource
  <2>1. UNCHANGED <<revisions, wsRevision>>
    BY <1>2 DEF Next, vars, store, UserWrites, UserDeletesIndex, Crash, OpenDatabase, PutObject,
         OpenWorkspace, OpenFails, StartIngest, ReadFails, IngestFails, IndexSource, FinishIngest,
         UserDamagesObject
  <2>2. \A p \in Paths : index'[p] # None => RecordedIn(revisions', p, index'[p])
    <3>1. CASE IndexSource
      BY <2>1, <3>1 DEF IndexSource, SearchInv, RecordedIn, TypeOK
    <3>2. CASE UserDeletesIndex
      BY <3>2 DEF UserDeletesIndex
    <3>3. CASE index' = index
      BY <2>1, <3>3 DEF SearchInv, RecordedIn
    <3> QED BY <1>2, <3>1, <3>2, <3>3 DEF Next, vars, store, UserWrites, Crash, OpenDatabase,
         PutObject, OpenWorkspace, OpenFails, StartIngest, ReadFails, IngestFails, FinishIngest,
         UserDamagesObject
  <2>3. \/ proc' = proc
        \/ proc'.phase \notin {"recorded", "idle"}
        \/ proc'.phase = "idle" /\ (proc'.failed \/ proc'.revision = wsRevision)
    <3>1. CASE Crash \/ OpenFails BY <3>1 DEF Crash, OpenFails, Down
    <3>2. CASE OpenWorkspace BY <3>2 DEF OpenWorkspace, Down
    <3>3. CASE OpenDatabase \/ StartIngest BY <3>3 DEF OpenDatabase, StartIngest, TypeOK
    <3>4. CASE ReadFails \/ IngestFails BY <3>4 DEF ReadFails, IngestFails, TypeOK
    <3>5. CASE IndexSource \/ FinishIngest BY <3>5 DEF IndexSource, FinishIngest, TypeOK
    <3>6. CASE PutObject BY <3>6 DEF PutObject, TypeOK
    <3>7. \/ Crash \/ OpenDatabase \/ OpenWorkspace \/ OpenFails \/ StartIngest \/ PutObject
          \/ ReadFails \/ IngestFails \/ IndexSource \/ FinishIngest \/ UNCHANGED proc
      BY <1>2 DEF Next, vars, UserWrites, UserDeletesIndex, UserDamagesObject
    <3> QED BY <3>1, <3>2, <3>3, <3>4, <3>5, <3>6, <3>7
  <2> QED BY <2>1, <2>2, <2>3 DEF SearchInv, RecordedIn
<1> QED BY <1>1, <1>2

WorkspaceInv == TypeOK /\ SourceInHand /\ CatalogInv /\ SearchInv

\* A search shows what the catalog recorded for the source, and names a
\* revision of the workspace that includes it unless an ingest failed.
THEOREM SearchEvidence == Spec => []SearchTruthful
<1>1. Init => WorkspaceInv
  BY InitType, InitCatalog, InitSearch DEF WorkspaceInv
<1>2. WorkspaceInv /\ [Next]_vars => WorkspaceInv'
  BY StepType, StepCatalog, StepSearch DEF WorkspaceInv
<1>3. WorkspaceInv => SearchTruthful
  <2> SUFFICES ASSUME WorkspaceInv, proc.phase = "idle", NEW p \in Paths, index[p] # None
               PROVE  \E r \in revisions :
                         /\ r.path = p /\ r.hash = index[p]
                         /\ ~proc.failed => r.at <= proc.revision
    BY DEF SearchTruthful, EvidenceRecorded, EvidenceCovered, Hits
  <2>1. PICK r \in revisions : r.path = p /\ r.hash = index[p]
    BY DEF WorkspaceInv, SearchInv, RecordedIn
  <2>2. r.at <= wsRevision /\ (~proc.failed => proc.revision = wsRevision)
    BY DEF WorkspaceInv, SearchInv, CatalogInv, RowsCounted
  <2> QED BY <2>1, <2>2
<1> QED BY <1>1, <1>2, <1>3, PTL DEF Spec

(***************************************************************************)
(* The index follows the catalog while no ingest is cut short.             *)
(***************************************************************************)
Synced(p) == index[p] = catalog[p].hash

\* The sources a running ingest still has to index: in a rebuild all it has
\* not reached, otherwise the changed one it has recorded.
Pending(p) ==
    IF proc.rebuild THEN p \in proc.todo \/ (proc.phase \in {"stored", "recorded"} /\ p = proc.path)
    ELSE proc.phase = "recorded" /\ proc.changed /\ p = proc.path

\* Between ingests every source is synced, or the index was just lost and no
\* graph shows anything of it; during one, all but those it still has to index.
SyncInv ==
    /\ proc.phase = "recorded" => proc.bytes = catalog[proc.path].hash
    /\ proc.phase \in {"down", "opening"} => proc.graph = {}
    /\ ~interrupted /\ Ingesting => \A p \in Paths : Synced(p) \/ Pending(p)
    /\ ~interrupted /\ ~Ingesting => \/ \A p \in Paths : Synced(p)
                                     \/ IndexEmpty /\ proc.graph = {}

LEMMA InitSync == Init => SyncInv
BY DEF Init, SyncInv, Down, NoRow, Synced, Ingesting

LEMMA StepSync ==
  ASSUME TypeOK, SourceInHand, SyncInv, [Next]_vars
  PROVE  SyncInv'
<1> USE DEF SyncInv, Ingesting
<1>1. CASE RecordSource
  <2>1. /\ proc.phase = "stored" /\ proc.path \in Paths
        /\ proc' = [proc EXCEPT !.phase = "recorded", !.changed = Changed(proc.path, proc.bytes)]
        /\ UNCHANGED <<index, interrupted>>
    BY <1>1 DEF RecordSource, SourceInHand
  <2>2. /\ proc'.phase = "recorded" /\ proc'.changed = Changed(proc.path, proc.bytes)
        /\ proc'.path = proc.path /\ proc'.bytes = proc.bytes /\ proc'.todo = proc.todo
        /\ proc'.rebuild = proc.rebuild
    BY <2>1 DEF TypeOK
  <2>3. /\ catalog'[proc.path].hash = proc.bytes
        /\ \A p \in Paths \ {proc.path} : catalog'[p] = catalog[p]
        /\ ~Changed(proc.path, proc.bytes) => catalog' = catalog
    BY <2>1, <1>1, RecordCases DEF RowAdded, RowKept, Changed, TypeOK
  <2>4. ASSUME ~interrupted, NEW p \in Paths PROVE Synced(p)' \/ Pending(p)'
    <3>1. Synced(p) \/ Pending(p)
      BY <2>1, <2>4
    <3> QED BY <2>1, <2>2, <2>3, <3>1 DEF Synced, Pending
  <2> QED BY <2>1, <2>2, <2>3, <2>4
<1>2. CASE IndexSource
  <2>1. /\ proc.phase = "recorded" /\ proc.path \in Paths
        /\ proc'.phase = "next" /\ proc'.todo = proc.todo /\ proc'.rebuild = proc.rebuild
        /\ UNCHANGED <<catalog, interrupted>>
        /\ index' = IF NeedsIndexing THEN [index EXCEPT ![proc.path] = proc.bytes] ELSE index
    BY <1>2 DEF IndexSource, SourceInHand, TypeOK, store
  <2>2. ASSUME ~interrupted, NEW p \in Paths PROVE Synced(p)' \/ Pending(p)'
    BY <2>1, <2>2 DEF Synced, Pending, NeedsIndexing, TypeOK
  <2> QED BY <2>1, <2>2
<1>3. CASE PutObject
  <2>1. /\ proc.phase = "next" /\ proc'.phase = "stored" /\ proc'.rebuild = proc.rebuild
        /\ proc'.todo = proc.todo \ {proc'.path}
        /\ UNCHANGED <<index, catalog, interrupted>>
    BY <1>3 DEF PutObject, TypeOK
  <2>2. ASSUME ~interrupted, NEW p \in Paths PROVE Synced(p)' \/ Pending(p)'
    <3>1. Synced(p) \/ Pending(p)
      BY <2>1, <2>2
    <3> QED BY <2>1, <3>1 DEF Synced, Pending
  <2> QED BY <2>1, <2>2
<1>4. CASE StartIngest
  <2>1. /\ proc.phase = "idle" /\ proc'.phase = "next" /\ proc'.rebuild = IndexEmpty
        /\ proc'.todo = Discovered
        /\ interrupted' = (interrupted \/ (IndexEmpty /\ ~ Catalogued \subseteq Discovered))
        /\ UNCHANGED <<index, catalog>>
    BY <1>4 DEF StartIngest, TypeOK, store, IndexEmpty
  <2>2. ASSUME ~interrupted', NEW p \in Paths PROVE Synced(p)' \/ Pending(p)'
    <3>1. ~interrupted /\ (IndexEmpty => Catalogued \subseteq Discovered)
      BY <2>1, <2>2
    <3>2. CASE IndexEmpty
      BY <2>1, <3>1, <3>2 DEF Synced, Pending, IndexEmpty, Catalogued
    <3>3. CASE ~IndexEmpty
      BY <2>1, <3>1, <3>3 DEF Synced
    <3> QED BY <3>2, <3>3
  <2> QED BY <2>1, <2>2
<1>5. CASE FinishIngest
  <2>1. /\ proc.phase = "next" /\ proc'.phase = "idle" /\ proc.todo = {}
        /\ UNCHANGED <<index, catalog, interrupted>>
    BY <1>5 DEF FinishIngest, TypeOK, store
  <2> QED BY <2>1 DEF Synced, Pending
<1>6. CASE ReadFails \/ IngestFails
  <2>1. interrupted' /\ proc'.phase = "idle"
    BY <1>6 DEF ReadFails, IngestFails, TypeOK
  <2> QED BY <2>1
<1>7. CASE Crash \/ OpenFails
  <2>1. proc' = Down /\ UNCHANGED <<index, catalog>>
    BY <1>7 DEF Crash, OpenFails, store
  <2>2. ~interrupted' => ~interrupted /\ proc.phase \notin {"next", "stored", "recorded"}
    BY <1>7 DEF Crash, OpenFails
  <2> QED BY <2>1, <2>2 DEF Down, Synced, IndexEmpty
<1>8. CASE OpenWorkspace
  <2>1. proc'.phase = "idle" /\ proc'.graph = {} /\ proc.phase = "opening"
        /\ UNCHANGED <<index, catalog, interrupted>>
    BY <1>8 DEF OpenWorkspace, Down
  <2> QED BY <2>1 DEF Synced, IndexEmpty
<1>9. CASE OpenDatabase
  <2>1. proc'.phase = "opening" /\ proc'.graph = proc.graph /\ proc.phase = "down"
        /\ UNCHANGED <<index, catalog, interrupted>>
    BY <1>9 DEF OpenDatabase, TypeOK
  <2> QED BY <2>1 DEF Synced, IndexEmpty
<1>10. CASE UserDeletesIndex
  <2>1. proc.phase = "down" /\ proc' = proc /\ \A p \in Paths : index'[p] = None
    BY <1>10 DEF UserDeletesIndex
  <2> QED BY <2>1 DEF IndexEmpty
<1>11. CASE UNCHANGED <<index, catalog, proc, interrupted>>
  BY <1>11 DEF Synced, Pending, IndexEmpty
<1> QED BY <1>1, <1>2, <1>3, <1>4, <1>5, <1>6, <1>7, <1>8, <1>9, <1>10, <1>11
        DEF Next, vars, store, UserWrites, UserDamagesObject

\* While no ingest is cut short, a successful one leaves every source it saw
\* searchable with the content the catalog has for it.
THEOREM IndexComplete == Spec => []IngestIndexesUninterrupted
<1>1. Init => TypeOK /\ SourceInHand /\ SyncInv
  BY InitType, InitSync
<1>2. TypeOK /\ SourceInHand /\ SyncInv /\ [Next]_vars => TypeOK' /\ SourceInHand' /\ SyncInv'
  BY StepType, StepSync
<1>3. TypeOK /\ SyncInv => IngestIndexesUninterrupted
  BY DEF TypeOK, SyncInv, IngestIndexesUninterrupted, IngestIndexesSources, Ingesting, Synced
<1> QED BY <1>1, <1>2, <1>3, PTL DEF Spec
=============================================================================
