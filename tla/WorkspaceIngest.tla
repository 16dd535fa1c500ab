--------------------------- MODULE WorkspaceIngest ---------------------------
(***************************************************************************)
(* Ingestion of a workspace: Lattice in crates/lattice-core/src/lib.rs     *)
(* with the three stores it writes one after the other for every source,   *)
(* the object store and the SQLite catalog (crates/lattice-storage) and    *)
(* the Tantivy index (crates/lattice-search).                              *)
(*                                                                         *)
(* Each write is a step: the process may be killed, and a read, a write or *)
(* a commit may fail, between any two of them, while the user goes on      *)
(* editing the sources.  One process has the workspace open at a time, the *)
(* index writer's lock keeps a second one out at open.  A content hash is  *)
(* modelled by the content.                                                *)
(***************************************************************************)
EXTENDS Naturals, FiniteSets, FiniteSetsExt

CONSTANTS
    Paths,        \* relative paths of the sources; numbers, in sorted order
    Contents,     \* UTF-8 contents
    Oversized,    \* those over MAX_SOURCE_BYTES
    NotUtf8,      \* content that is not UTF-8
    None,         \* no file, no row, no document
    MaxRevision   \* bound on the workspace revision

ASSUME WorkspaceAssumption ==
    /\ Paths \subseteq Nat /\ IsFiniteSet(Paths)
    /\ MaxRevision \in Nat
    /\ Oversized \subseteq Contents
    /\ {NotUtf8, None} \cap Contents = {} /\ NotUtf8 # None

VARIABLES
    disk,         \* the sources, as the user keeps them
    objects,      \* the object store: "absent", "good" or "corrupt" per hash
    schema,       \* schema_versions: 0, 1 or 2
    catalog,      \* files joined with source_units: current hash and revision
    revisions,    \* source_revisions, with the workspace revision they made
    wsRevision,   \* workspaces.revision
    index,        \* the committed documents of the source index
    proc,         \* the process that has the workspace open
    interrupted   \* since the index was last empty an ingest was cut short, or
                  \* one rebuilt it without a catalogued source

store   == <<objects, schema, catalog, revisions, wsRevision>>
vars    == <<disk, store, index, proc, interrupted>>

NoRow == [hash |-> None, revision |-> 0]

Phase == {"down", "opening", "idle", "next", "stored", "recorded"}

Down == [phase |-> "down", todo |-> {}, path |-> None, bytes |-> None, changed |-> FALSE,
         rebuild |-> FALSE, revision |-> 0, graph |-> {}, failed |-> FALSE]

Init == /\ disk \in [Paths -> Contents \union {None}]
        /\ objects = [c \in Contents |-> "absent"]
        /\ schema = 0
        /\ catalog = [p \in Paths |-> NoRow]
        /\ revisions = {}
        /\ wsRevision = 0
        /\ index = [p \in Paths |-> None]
        /\ proc = Down
        /\ interrupted = FALSE

(***************************************************************************)
(* Outside the process.                                                    *)
(***************************************************************************)
UserWrites(p, c) ==
    /\ disk[p] # c
    /\ disk' = [disk EXCEPT ![p] = c]
    /\ UNCHANGED <<store, index, proc, interrupted>>

\* The index directory is disposable; it is deleted while no process has it.
UserDeletesIndex ==
    /\ proc.phase = "down"
    /\ index' = [p \in Paths |-> None]
    /\ interrupted' = FALSE
    /\ UNCHANGED <<disk, store, proc>>

UserDamagesObject(c) ==
    /\ objects[c] = "good"
    /\ objects' = [objects EXCEPT ![c] = "corrupt"]
    /\ UNCHANGED <<disk, schema, catalog, revisions, wsRevision, index, proc, interrupted>>

Ingesting == proc.phase \in {"next", "stored", "recorded"}

\* A kill, at any point.
Crash == /\ proc.phase # "down"
         /\ proc' = Down
         /\ interrupted' = (interrupted \/ Ingesting)
         /\ UNCHANGED <<disk, store, index>>

(***************************************************************************)
(* Lattice::open.                                                          *)
(***************************************************************************)

\* Database::open: the initial schema is created if it is not there.
OpenDatabase ==
    /\ proc.phase = "down"
    /\ schema' = IF schema = 0 THEN 1 ELSE schema
    /\ proc' = [proc EXCEPT !.phase = "opening"]
    /\ UNCHANGED <<disk, objects, catalog, revisions, wsRevision, index, interrupted>>

\* apply_migration commits or rolls back; open_workspace reads the record.
OpenWorkspace ==
    /\ proc.phase = "opening"
    /\ schema' = 2
    /\ proc' = [Down EXCEPT !.phase = "idle", !.revision = wsRevision]
    /\ UNCHANGED <<disk, objects, catalog, revisions, wsRevision, index, interrupted>>

OpenFails ==
    /\ proc.phase = "opening"
    /\ proc' = Down
    /\ UNCHANGED <<disk, store, index, interrupted>>

(***************************************************************************)
(* Lattice::ingest.                                                        *)
(***************************************************************************)

\* collect_luau_files leaves out what is over the size then; nothing bounds the
\* size when the file is read, which is later.
Discovered == {p \in Paths : disk[p] \notin Oversized \union {None}}

IndexEmpty == \A p \in Paths : index[p] = None

Catalogued == {p \in Paths : catalog[p].hash # None}

StartIngest ==
    /\ proc.phase = "idle"
    /\ proc' = [proc EXCEPT !.phase = "next", !.todo = Discovered, !.rebuild = IndexEmpty]
    /\ interrupted' = (interrupted \/ (IndexEmpty /\ ~ Catalogued \subseteq Discovered))
    /\ UNCHANGED <<disk, store, index>>

\* The error returns: everything written so far stays, the workspace record
\* in memory keeps its revision.
IngestFails ==
    /\ Ingesting
    /\ proc' = [proc EXCEPT !.phase = "idle", !.todo = {}, !.path = None, !.bytes = None,
                            !.changed = FALSE, !.rebuild = FALSE,
                            !.failed = TRUE]
    /\ interrupted' = TRUE
    /\ UNCHANGED <<disk, store, index>>

\* The next file in sorted order, read and put into the object store.  A
\* file that vanished, is not UTF-8 or whose object is damaged ends the ingest.
ReadableLossy(p) == disk[p] # None      \* the UTF-8 check forgotten

Readable(p) == /\ disk[p] \in Contents
               /\ objects[disk[p]] # "corrupt"

PutObjectLater ==                        \* the object is written after the row
    /\ proc.phase = "next" /\ proc.todo # {}
    /\ LET p == Min(proc.todo)
       IN  /\ Readable(p)
           /\ proc' = [proc EXCEPT !.phase = "stored", !.todo = @ \ {p}, !.path = p,
                                   !.bytes = disk[p]]
    /\ UNCHANGED <<disk, store, index, interrupted>>

PutObject ==
    /\ proc.phase = "next" /\ proc.todo # {}
    /\ LET p == Min(proc.todo)
       IN  /\ Readable(p)
           /\ objects' = [objects EXCEPT ![disk[p]] = "good"]
           /\ proc' = [proc EXCEPT !.phase = "stored", !.todo = @ \ {p}, !.path = p,
                                   !.bytes = disk[p]]
    /\ UNCHANGED <<disk, schema, catalog, revisions, wsRevision, index, interrupted>>

ReadFails ==
    /\ proc.phase = "next" /\ proc.todo # {}
    /\ ~Readable(Min(proc.todo))
    /\ IngestFails

\* Database::record_source, one transaction.  MaxRevision bounds the model.
ChangedAlways(p, bytes) == TRUE          \* the hash comparison forgotten
Changed(p, bytes) == catalog[p].hash # bytes

RecordSource ==
    /\ proc.phase = "stored"
    /\ LET p == proc.path
           row == catalog[p]
           changed == Changed(p, proc.bytes)
           next == [hash |-> proc.bytes, revision |-> row.revision + 1]
       IN  /\ changed => wsRevision < MaxRevision
           /\ catalog' = IF changed THEN [catalog EXCEPT ![p] = next] ELSE catalog
           /\ wsRevision' = IF changed THEN wsRevision + 1 ELSE wsRevision
           /\ revisions' = IF changed
                           THEN revisions \union {[path |-> p, revision |-> next.revision,
                                                   hash |-> next.hash, at |-> wsRevision + 1]}
                           ELSE revisions
           /\ proc' = [proc EXCEPT !.phase = "recorded", !.changed = changed]
    /\ UNCHANGED <<disk, objects, schema, index, interrupted>>

\* SourceIndex::upsert, one commit, and the in-memory graph.
NeedsIndexingChanged == proc.changed     \* rebuild_index forgotten
NeedsIndexing == proc.changed \/ proc.rebuild

IndexSource ==
    /\ proc.phase = "recorded"
    /\ index' = IF NeedsIndexing THEN [index EXCEPT ![proc.path] = proc.bytes]
                ELSE index
    /\ proc' = [proc EXCEPT !.phase = "next", !.graph = @ \union {proc.path},
                            !.path = None, !.bytes = None, !.changed = FALSE]
    /\ UNCHANGED <<disk, store, interrupted>>

FinishIngestStale ==                     \* the record in memory not refreshed
    /\ proc.phase = "next" /\ proc.todo = {}
    /\ proc' = [proc EXCEPT !.phase = "idle", !.rebuild = FALSE, !.failed = FALSE]
    /\ UNCHANGED <<disk, store, index, interrupted>>

FinishIngest ==
    /\ proc.phase = "next" /\ proc.todo = {}
    /\ proc' = [proc EXCEPT !.phase = "idle", !.rebuild = FALSE, !.revision = wsRevision,
                            !.failed = FALSE]
    /\ UNCHANGED <<disk, store, index, interrupted>>

(***************************************************************************)
(* Lattice::search: a hit carries the indexed hash and the revision of the *)
(* workspace record in memory.                                             *)
(***************************************************************************)
Hits == IF proc.phase # "idle" THEN {}
        ELSE {[path |-> p, hash |-> index[p], revision |-> proc.revision] :
                 p \in {p \in Paths : index[p] # None}}

Next == \/ \E p \in Paths, c \in Contents \union {None, NotUtf8} : UserWrites(p, c)
        \/ UserDeletesIndex
        \/ \E c \in Contents : UserDamagesObject(c)
        \/ Crash
        \/ OpenDatabase
        \/ OpenWorkspace
        \/ OpenFails
        \/ StartIngest
        \/ PutObject
        \/ ReadFails
        \/ IngestFails
        \/ RecordSource
        \/ IndexSource
        \/ FinishIngest

Spec == Init /\ [][Next]_vars

(***************************************************************************)
(* Properties.                                                             *)
(***************************************************************************)
Revision == [path: Paths, revision: Nat \ {0}, hash: Contents, at: Nat \ {0}]

\* Every store and the process hold values of their types: what reaches the
\* object store, the catalog and the index is UTF-8, of any size.
TypeOK ==
    /\ disk \in [Paths -> Contents \union {None, NotUtf8}]
    /\ objects \in [Contents -> {"absent", "good", "corrupt"}]
    /\ schema \in 0..2
    /\ catalog \in [Paths -> [hash: Contents \union {None}, revision: Nat]]
    /\ revisions \subseteq Revision
    /\ wsRevision \in Nat
    /\ index \in [Paths -> Contents \union {None}]
    /\ proc \in [phase: Phase, todo: SUBSET Paths, path: Paths \union {None},
                 bytes: Contents \union {None}, changed: BOOLEAN, rebuild: BOOLEAN,
                 revision: Nat, graph: SUBSET Paths, failed: BOOLEAN]
    /\ interrupted \in BOOLEAN

\* The catalog never names content the object store does not hold: the
\* object is on disk before the transaction that refers to it, wherever the
\* process is killed.
CatalogHasObjects == \A r \in revisions : objects[r.hash] # "absent"

\* source_revisions is the complete history of every source: the rows of a
\* path are numbered 1 to its current revision, each differs from the one
\* before, the newest is what source_units points to, and the workspace
\* revision counts the rows.
RevisionHistory ==
    /\ wsRevision = Cardinality(revisions)
    /\ \A p \in Paths :
          LET rows == {r \in revisions : r.path = p}
          IN  /\ {r.revision : r \in rows} = 1..catalog[p].revision
              /\ catalog[p].revision = 0 <=> catalog[p].hash = None
              /\ \A r \in rows : r.revision = catalog[p].revision => r.hash = catalog[p].hash
              /\ \A r, s \in rows : s.revision = r.revision + 1 => r.hash # s.hash /\ r.at < s.at

\* A search hit shows content the catalog recorded for that source, and,
\* unless an ingest of this process failed, a revision of the workspace that
\* includes it.
EvidenceRecorded ==
    \A h \in Hits : \E r \in revisions : r.path = h.path /\ r.hash = h.hash
EvidenceCovered ==
    ~proc.failed => \A h \in Hits : \E r \in revisions : /\ r.path = h.path /\ r.hash = h.hash
                                                       /\ r.at <= h.revision
SearchTruthful == EvidenceRecorded /\ EvidenceCovered

\* After an ingest that reports success every source in the graph is searchable
\* with the content the catalog has for it.
IngestIndexesSources ==
    proc.phase = "idle" /\ ~proc.failed =>
        \A p \in proc.graph : index[p] = catalog[p].hash

\* The same while, since the index was last empty, no ingest was cut short by
\* a crash or an error and none rebuilt the index while a source the catalog
\* knows was missing: only an empty index is rebuilt, and an unchanged source
\* is indexed only then.
IngestIndexesUninterrupted == ~interrupted => IngestIndexesSources
=============================================================================
