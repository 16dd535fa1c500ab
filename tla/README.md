# Verification of Abraxius Lattice

TLA+ models, TLC runs and TLAPS proofs for Abraxius Lattice, a local daemon,
desktop application and Roblox Studio plugin for working on Luau projects.
Paths below are relative to the repository; `bridge/lib.rs` is
`crates/lattice-studio-bridge/src/lib.rs`, the *controller* is
`plugin/LatticeCompanion/PluginUI/Controllers/BridgeController.luau`.

Run a model with `tlc -workers 2 -config X.cfg MCModule`, check the proofs of a
module with `tlapm XProofs.tla`. `PROJECT.json` lists the runs, the code lines
each definition stands for, the mutants, the hazards and the theorems.

## 1. Inventory

| Component | State | Operations | Interacts with | What is hard | What makes it correct |
|---|---|---|---|---|---|
| **Studio bridge broker** `lattice-studio-bridge` | one `Mutex<BrokerState>`: sessions (queue, leases, responders, event ring, cached response, snapshot counts), external-id index, backend state | `register`, `bind_session`, `report`, `call`, `sessions`, `drain_events`, `set_backend_state` | plugins over HTTP, host-side callers in the daemon | `call` waits with the lock released; results, timer, dropped callers and the expiry sweep race; two maps and three counts kept by hand | a command is owned once, reaches one caller at most, never crosses sessions; a lost response is recoverable; limits hold |
| **Bridge HTTP front end and pairing** `lattice-studio-bridge` | challenges and tokens with expiry times, a manual token | `discover`, `pair`, `register`, `report`, `sessions`, `authenticate` | plugin, desktop application | bounded tables with eviction, expiry with times out of order, one-time redemption | a challenge is redeemed once; a token is lost early only to newer ones; status codes let a client recover |
| **Plugin bridge controller** `plugin/LatticeCompanion` | token, session id, report sequence, pending report, event and result queues, result cache | loop of pair / register / report, `enqueueEvent`, `retry` | broker, other controllers of the plugin | one coroutine that yields inside HTTP requests; lost and late responses; daemon restarts | a command runs again only when nothing came of a cache's worth of others, events arrive at most once and in order, the link recovers |
| **Editor document** `lattice-editor-core` | rope, revision, clean revision, undo and redo stacks, selection, cached hash | transactions, deletions, caret movements, undo, redo, mark clean | native interface | a transaction or an undo that fails half way; offsets inside characters; revisions that restart at 0 | text, revision, hash and histories agree; undo is exact |
| **Native editor interface** `lattice-editor-native` | a mutex over the document table, the last error | one exported function per operation | desktop editor | a panic poisons the mutex; callers act on old snapshots | a failed call changes nothing; unmodified means saved |
| **Workspace core and its stores** `lattice-core`, `lattice-storage`, `lattice-search` | object store, SQLite catalog, tantivy index, the process's graph and revision | `open`, `ingest`, `search` | daemon, CLI | three stores written one after the other; crashes and errors between them; files that come and go | the catalog names stored objects, its history is complete, search shows what was recorded |
| **Jobs and events** `lattice-core` | semaphore, cancellation tokens, broadcast channel | `spawn`, `cancel`, `publish`, `subscribe` | the daemon | cancellation races; slow subscribers | one terminal state per job, events in order |
| **Connection broker** `lattice-connections` | provider registry, slots, two levels of semaphores, cancellations | `register`, `connect`, `disconnect`, `refresh_catalog`, `call` | MCP server, providers | check-then-act over awaits, timeouts that leave intermediate states | registry, slot and child process agree; calls stay within the permits |
| **Tool fabric** `lattice-tools` | tool catalog, schema registry, policy | `refresh_provider`, lookups, input validation, routing | connection broker | an import refused half way; tools that vanish and return with other schemas | a search lists the last accepted offer, in schemas that can be looked up |
| **MCP clients** `lattice-mcp` | Studio client connection, launched process, external stdio provider | launch, negotiate, call, disconnect | daemon, StudioMCP process | timeouts, fallback launches, child processes | no orphan process, no health of a lost connection |
| **Daemon** `lattice-daemon` | startup inspection, Studio MCP monitor loop | start, supervise | resolver, MCP client, bridge | early returns of the loop, a host that changes during it | the published health follows the connection; it comes back |
| **Daemon IPC endpoint** `lattice-daemon-ipc` | socket, endpoint and temporary file | `bind`, `drop`, `connect` | desktop application, CLI | stale files of crashed daemons, daemons starting together | the files name the daemon that serves |
| **Platform resolver** `lattice-platform` | none; reads processes and files | `inspect` | daemon, CLI | everything changes while it is read; pids are reused | deterministic, never a guess between two Studios |
| **Studio pull** `lattice-cli` | files of a workspace | `studio pull` | StudioMCP | stops between files, edits on both sides | no unseen overwrite, completeness when it says so |
| **Studio session manager** `lattice-studio` | sessions, associations, bindings | associate, bind, target | no binary | – | – |
| **Plugin cockpit, desktop application** | UI state | display | controller, bridge, daemon | – | display only |
| **Value types** `lattice-model`, `lattice-resource`, `lattice-graph`, `lattice-luau(-sys)` | none | parsing, hashing, formatting | all | – | round trips |

The interactions this sort of system lives from are these. A plugin *discovers*,
*pairs*, *registers* and then *reports* every half second; each response carries
the commands leased to it, the next report carries their results. Inside the
daemon `call` queues a command for one bound session and waits for its result.
Everything the bridge knows is in memory: a daemon restart forgets sessions,
tokens and commands while the plugin keeps its sequence numbers and caches. On
the other side the daemon inspects the host, launches StudioMCP for the one
running Studio and publishes its health in the bridge's backend state; the
connection broker imports the tools of such providers and admits calls to them.
The workspace and the editor are used by the desktop application and the CLI
through the daemon and the C interface.

`PROJECT.json` "hazards" lists where each difficulty bites, line by line, with
the properties that cover it.

## 2. How the project is laid out

| Module | Models | Proofs | Checked in |
|---|---|---|---|
| `CommandLeases` | what `call` promises | – | refinement target |
| `StudioBridge` | the broker | `StudioBridgeProofs`, `BridgeContractProofs` | `MCStudioBridge` |
| `CompanionLink` (extends `StudioBridge`) | plugin controller, network, restarts, HTTP handlers | `CompanionLinkProofs` | `MCCompanionLink` |
| `EditorDocument` | operations of a document | lemmas in `EditorNativeProofs` | `MCEditorNative` |
| `EditorNative` (extends `EditorDocument`) | the C interface and the document table | `EditorNativeProofs` | `MCEditorNative` |
| `WorkspaceIngest` | open, ingest, search over three stores | `WorkspaceIngestProofs` | `MCWorkspaceIngest` |
| `ToolCatalog` | catalog, schemas, validation, routing | lemmas in `ConnectionBrokerProofs` | `MCConnectionBroker` |
| `ConnectionBroker` (extends `ToolCatalog`) | lifecycles and calls of tasks | `ConnectionBrokerProofs` | `MCConnectionBroker` |
| `StudioResolver` | host inspection | `StudioMonitorProofs` | `MCHost` |
| `StudioMonitor` (extends `StudioResolver`) | daemon start, launch, health loop | `StudioMonitorProofs` | `MCHost` |
| `DaemonEndpoint` | bind, drop, connect | `HostProofs` | `MCHost` |
| `Pairing` | challenges and tokens | `HostProofs` | `MCHost` |
| `BackgroundJobs` | jobs, permits, event channel | `HostProofs` | `MCHost` |
| `StudioPull` | `lattice studio pull` | `HostProofs` | `MCHost` |
| `MCHost` | the parts of the host side side by side | `HostProofs` | itself |

Definitions that end in a word like *Forgotten*, *Later*, *Uncounted* or *Stale*
and stand before the one they resemble are the mutated forms of `PROJECT.json`:
each property is paired with a plausible bug under which its run fails.

## 3. The modules

### StudioBridge

One action per critical section of the broker's Mutex and one per event of a
waiting `call`.

| Code | Model |
|---|---|
| `BrokerState.sessions` | `live` (keys) and `record` |
| `BrokerState.external_sessions`, `.backend` | `external`, `backend` |
| the `call` future of a command | `call[c]`: new, waiting, answered, timedOut, closed, failed, abandoned; `home[c]` is the session named |
| `register` | `RegisterKnown`, `RegisterNew`, `RegisterRefused`, each after the expiry sweep `AfterExpiry` |
| `report` | `Report` (fresh sequence), `ReportReplay` (same sequence); refusals change nothing |
| `call` up to the await | `Call`; refusals change nothing |
| timer, dropped sender, dropped future | `CommandTimeout`, the `closed` phase set by the sweep, `CallerGone` |
| `remove_command` | `RemoveCommand` |
| `bind_session`, `sessions`, `drain_events`, `set_backend_state` | `BindSession`, `ListSessions`, `DrainEvents`, `SetBackendState` |

Between `CommandTimeout` and `RemoveCommand` other critical sections may run;
that is the window between `timeout(..)` and `lock()` in the code. `answeredBy`,
`issued` and `delivered` are history: they record which session answered, which
UUIDs were handed out (a fresh UUIDv7 is never an old one) and which command ids
any response has carried.

Abstractions:

- **Time** is one flag per session, `overdue`: the clock passed
  `last_seen + session_ttl`. `SessionGoesQuiet` sets it at any time, a refresh
  clears it. The wall clock is assumed not to jump backwards (the code subtracts
  wall-clock times; a backward jump would only make an overdue session fresh).
- **Events** are named by their ordinal in the session; payloads, place ids and
  versions are left out, as no decision of the broker reads them.
- **A response's commands** are any subset of the leases of the permitted size;
  `BTreeMap` order by random id is no order a property could use. With the
  limits respected it is always all of them.
- **Results** are reported only for command ids that some response has carried.
  A plugin cannot know any other: ids are fresh UUIDs.
- Protocol-version and identifier validation reject a request before any state
  is touched and are left out.

`LeaseConservation` relies on a report's results being a set: a repeated result
in one report finds neither lease nor responder, so the second has no effect.

### CommandLeases

The abstract specification: a command is new, queued, leased or out; its caller
has no verdict, a result, a failure, or has gone. `StudioBridge` instantiates it
as `Contract` with a mapping computed from `call`, `home` and the session
records, and `ImplementsCommandLeases` is checked as a property. `Crash` withdraws
every command and ends every caller at once; `RestartableSpec` adds it, and is what
`CompanionLink` implements with its restarts.

### CompanionLink

Extends `StudioBridge` with `Self`, one plugin, and everything between it and
the broker.

| Code | Model |
|---|---|
| fields of the controller and the point its coroutine is at | `plugin` (`pc`: top, registering, ready, reporting) |
| `HttpService:RequestAsync` | `inbox` (requests that may still arrive), `reply` (the response awaited) |
| `_pair` | `Pair`; a failed attempt changes nothing |
| `_register`, `_report` up to and after the request | `SendRegister`, `ReceiveRegistration`, `SendReport`, `ReceiveReportResponse` |
| the loop of `_report` over the commands of a response | `plugin.todo` and `ExecuteCommand`, one turn of the loop per step, in any order; the coroutine does not yield until `todo` is empty (`AtTop`) |
| `_executeCommand` and its result cache | `Execute` |
| failure of a request | `RequestFails`: the request is lost, or stays in the network and may arrive later |
| `_request` on 401; any other refusal | `AfterRefusal` |
| Retry button; token about to expire | `Retry` |
| other controllers' `enqueueEvent` | `StudioEvent` |
| `authenticate`, `register_http`, `report_http`, error to status | `HandleUnauthorized`, `HandleRegister`, `HandleReport`, `HandleRefused` with `Refusal` |
| daemon restart; token expired or evicted | `Restart`, `TokenForgotten` |
| other plugins, host-side correlator and callers | `Host` |

Abstractions: the plugin has one token at a time and `honoured` says whether the
daemon still knows it; a request sent with an older token is refused and awaited
by no one, so it is dropped when the next token is issued. A report request may
be delivered more than once (`HandleReport` may leave it in the network), and so may
a registration request: all those of one plugin are the same message, and `HandleRegister`
may leave it in `inbox`, for the copies that are still under way. One that arrives late
registers the plugin again, and after the session TTL it sweeps the plugin's own session
first. Other plugins only register (their
reports touch their own sessions, which is what `StudioBridge` alone covers).
`sessions`, `drain_events` and `set_backend_state` have no effect on the plugin and
stay with the runs of `StudioBridge`. Backoff lengths,
latency samples and the cockpit's status labels are left out.

`executions`, `since`, `ingested` and `taken` are history: how often a command was
executed, which commands were executed since its last execution, the events the broker
took, and the last report it took.

*At most once* would be too much to say of executions: the cache is bounded and a
lease is redelivered with every response until a result arrives, so a command whose
results are lost again and again is executed a second time once
`MaxCachedResults` others have pushed it out. `RepeatedOnlyInVain` says what the code
does achieve: between two executions of a command at least `MaxCachedResults` other
commands were executed, and no caller received the result of any of them.

`ActsAsBroker` and `LinkImplementsCommandLeases` state the composition itself:
between two restarts the system makes only steps of `StudioBridge`, and with the
restarts it implements `CommandLeases!RestartableSpec`. Both are proved and in no
run; before the proofs TLC explored an instance with two commands and one restart
(2.4 million states) without a violation.

### EditorDocument and EditorNative

`EditorDocument` holds no state: each method of `Document` is an operator from a
document to a result `[doc, ok]`, and a refused call also says what it left
behind. `EditorNative` is the handle and the table: one action per exported
function, which takes the editor's lock, runs one operation and sets the error.

| Code | Model |
|---|---|
| `Document` | a record: text, revision, clean revision, selection, cached hash, undo and redo entries |
| `apply_transaction` | `ApplyTransaction` over `EditRope`, the loop in descending order of start |
| insert, delete backward and forward, `move_caret`, `undo`, `redo`, `mark_clean` | `InsertText`, `DeleteBackward`, `DeleteForward`, `MoveCaret`, `Undo`, `Redo`, `MarkClean` |
| `Editor.documents`, a poisoned mutex, `EditorHandle.last_error` | `docs`, `poisoned`, `lastError` |
| `lattice_editor_*` | `Open`, `Close`, `ApplyEdit`, `InsertTextAt`, ..., `Snapshot`, `MarkCleanAt`, `TakeError`, `Recreate` |
| the core's own transactions of several edits | `LibraryTransaction` |

A text is a sequence of bytes over a small alphabet in which `Lead Cont` is one
character, so an offset can fall inside a character and a line can end in LF, CR
LF or CR. A content hash is the text it was computed from. `MaxUsize` stands for
`usize::MAX`: a selection beyond the text is accepted by `apply_edit`, and
`start + inserted_length` then overflows, which panics in a checked build
(`OverflowChecks`) with the lock held, and wraps in another. `trail`, `views`,
`saved`, `opened` and `torn` are history variables: the texts the caller saw at
each point of the history, its last snapshot, the saved text, how often the id was
opened, and whether a transaction of several edits stopped half way. `saved` keeps
both the text the caller saved and the text that was marked clean for it: they are
the same within one opening, and `CleanIsSaved` says what remains when the caller
marks a revision it saw in an earlier one, which the code accepts if the number is
equal. A caller edits or saves with the revision of its latest snapshot.

### WorkspaceIngest

One process opens a workspace, ingests and searches, while the user writes
sources, the index directory is deleted and objects rot. Every write to a store
is a step: `PutObject` (object store), `RecordSource` (the transaction of
`record_source`), `IndexSource` (`upsert` with its commit and the in-memory
graph). `Crash` is possible anywhere, `ReadFails`, `OpenFails` and `IngestFails`
are the error returns. A content hash is the content. A source over
`MAX_SOURCE_BYTES` (`Oversized`) is left out at discovery and nowhere else: one that
grew between the discovery and its turn is read, stored and indexed. `interrupted` is history: since the index
was last empty, an ingest was cut short, or rebuilt it while a catalogued source
was missing.

### ToolCatalog and ConnectionBroker

`ToolCatalog` has the catalog's operations as operators on catalog records:
`RefreshProvider` (with the schemas a refused import has registered already),
`ActiveTools`, `ValidInput`, `Route`. An identifier, a schema revision and a
catalog revision are hashes; each is modelled by what it hashes.

`ConnectionBroker` runs several tasks. No lock is held across two statements of
the broker, so every lock section and every await is a step:

| Code | Model |
|---|---|
| `register` | `Register`, `InsertSlot` |
| `connect` | `StartConnect`, `Announce`, `Open` or `OpenFails`, `Store`, `Publish`, `RefreshAfterConnect` |
| `refresh_catalog` | `StartRefresh`, `ListTools` or `ListFails`, `Import`, `Report` |
| `disconnect` | `StartDisconnect`, `Close` or `CloseFails`, `Clear`, `Retract` |
| `call` | `StartCall`, `FindConnection`, `AcquireGlobal`, `AcquireProvider`, `Dispatch`, `Finish`; `Cancel` |

A provider's operation takes effect in one step, its own mutex being held until it
is done. A future dropped by a timeout leaves the provider as it was, or without
its child if that was already taken out of the state. `torn` and `raced` are
history: lifecycle operations of one provider that overlapped or failed half way,
and imports whose report another operation overtook.

### StudioResolver and StudioMonitor

`StudioResolver` is `PlatformResolver::inspect` on a host whose processes start,
exit and reuse pids and whose installation changes: `Detect` takes the process
snapshot and finds the candidates, `Resolve` one candidate per step from a new
snapshot, `Conclude` ends the call, `Selected` is the choice. A path is a pair of
its owner (a runtime, a Wine user, an override) and its role, a program what the
resolver reads of its command line and environment, the paths it mentions included.
The start time of a process is in whole seconds (`second`), so two that use the same
pid within a second look like one; `birth`, `given` and `reused` are history and tell
them apart.

`StudioMonitor` extends it with the daemon's start and `run_connection`:
`monitor.pc` is the point the task is at (inspecting, binding, launching,
negotiating, waiting for Studio, verifying, listing, disconnecting), `children`
counts the StudioMCP processes of the daemon, `backend` is the state the bridge
publishes. StudioMCP is the environment (`ProviderNext`): what it speaks and lists
changes at any time; an unhealthy one fails to start, fails calls, times out or dies.

### DaemonEndpoint, Pairing, BackgroundJobs, StudioPull

- `DaemonEndpoint`: a step per file operation of `bind` and `drop`; a file is the
  daemon that wrote it; `Exit` is a crash, or the exit after a failed bind, and
  removes nothing. The check of `bind` takes a daemon for dead when no connection
  to it is possible, and may do so with a live one, which did not answer within 250 ms
  (`Check`). `overlapped` and `missed` are history: some bind or drop ran while another
  one did; some bind took a live daemon for dead.
- `Pairing`: the challenge and token tables. A handler reads the clock before it
  waits for the lock, so a request is applied with any time up to `MaxLag` old.
- `BackgroundJobs`: `spawn`, `cancel`, the wait for a permit, the check of the
  token, the end, or a panic, which releases the permit and reports no end;
  `Receive` is `recv` on a broadcast channel that drops the oldest events.
- `StudioPull`: the search, the reads, the comparisons and the writes, each a
  step that may fail or be the last, while somebody edits the place and somebody
  the files. `wrote` and `lost` are history: the files the pull has written, and those
  a pull without `--force` replaced although the content it had found in them was not
  Studio's. Scripts are read by their path,
  so of several that share one any may answer, those beyond the limits of the
  listing included.

## 4. The runs

| Run | Instance | Shows |
|---|---|---|
| `bridge_commands` | 2 sessions over 2 external ids, 3 commands, 2 bindings, 1 lease per response, 2 pending commands, sequences 0..2 | ownership of commands, replay, limits, counts, answers, and refinement of `CommandLeases` |
| `bridge_sessions` | 3 session ids and 3 external ids for 2 places, ring of 2, at most 2 events per report and 4 in all, no commands | session index, event ring, identity |
| `link_safety` | 2 plugins, 3 session ids, 3 events, event queue of 2, reports of 2, 1 restart, sequences 1..3, no commands and no bindings | at-most-once, in-order ingestion; a repeated sequence is the same report |
| `link_execution` | 1 plugin, 2 session ids, 2 commands in one response, result cache of 1, sequences 1..3, no events, no restart | answered implies executed; repeated only after a cache's worth of executions in vain |
| `link_recovery` | 1 plugin alone, 1 command, 1 restart, no events | every uncertain report ends unless the session was swept, and every call ends |
| `link_expiry` | 2 plugins, no command | **violated**: a swept session is never registered again |
| `link_backlog` | 1 plugin, queue of 2 events, reports of 1 | **violated**: an oversized report is repeated for ever |
| `editor` | 1 document of at most 4 bytes, `usize::MAX` 7, revisions to 3, opened twice | exact histories, revisions name texts, unmodified means opened or marked clean with this text, failed calls change nothing |
| `workspace` | 2 sources, 2 contents, one of them too large to be discovered, and a file that is not UTF-8, 3 revisions | objects before rows, complete history, truthful search, complete index without interruption |
| `workspaceCrash` | the same | **violated**: a crash between catalog and index leaves a source unsearchable for good |
| `tools` | 1 provider, 2 tasks, 2 tools, 5 listings, 2 global permits and 1 of the provider, 3 connections | catalog, registry, admission and routing under interleaved calls |
| `host` | one part per behaviour, see below | inspection, monitor, endpoint, pairing, jobs, pull |

Why these bounds. A lost-response scenario takes a report, its repetition and a
later report, hence three sequence values (0..2 in the broker, 1..3 in the link,
where the counter is incremented before it is used). Three commands with two
places and one lease give a queued, a leased and a refused command at once, and
a second command to be leased while the first is timing out. The two per-session
limits differ (1 and 2), so confusing them shows. Three external ids for two
places exercise refusal, and three session ids let a swept plugin come back under
a new identity. Four events through a ring of two with reports of two make one
report overflow the ring by two. In `link_execution` both commands come with one
response into a cache of one, so that the second pushes out the first while its
result is still on the way; three sequences are the report that fetches them, the one
that carries the results, and a third after a loss (with default limits the plugin caches
256 results and is sent at most 32 commands at a time). The restarts that this run
leaves out are in `link_safety` and in the proofs. One restart is
enough for the plugin to meet a daemon that knows nothing of it (a second one
repeats the situation), and forgotten tokens are not bounded at all. `link_safety`
has no bindings, because nobody binds a session without commands to send, and
`link_recovery` no events: whether a report carries any decides about its size only,
which is the subject of `link_backlog`. `link_execution` does not tell states apart by
`taken` (`VIEW`), which its property does not mention.

In `editor` three revisions are an edit, its undo and a new edit that clears the
redo stack, or two edits and an undo between them; four bytes hold a two-byte
character, an insertion and a line end, and the texts end lines in LF and CR LF.
Offset 7 is beyond every text, as a caret from an unvalidated selection can be. A
second opening shows what a revision of the first one still names. The histories
of torn, poisoned or reopened documents are cut at one revision (`Bound`, which is
a constraint on exploration only).

In `workspace` two sources let an ingest stop after the first; three revisions are
two of one source and one of the other, or a content that comes back. The second
content is over the size limit, which loses no history of two ordinary ones: the user
may make the file any of them between its discovery and its turn. In `tools`
the listings replace a schema, remove a tool and offer it again, and are refused
for a bad output schema, a blank name and a repeated one, each after a tool that
was registered already; three connections are one that is lost, one that is
opened over it and one after that; two tasks are enough for any two steps to
overlap, and one permit less at the provider than globally separates the levels.

`host` explores in each behaviour one of six parts that share no state, so one
state space is the sum of six. Their instances: two pids and two process starts in
the same second or in different ones (a pid is reused, two Studios run), five installations (none, Flatpak, upgraded,
native, Windows with a batch launcher) and four configurations, each with the
installations of its platform, for the resolver; one
Studio, two installations and nine behaviours of StudioMCP with two places for the
monitor; two daemons; challenges that live for 1 and tokens for 2 units, two of each at
once, a lag of 1 and a clock to 4, so that an eviction, an expiry and a late request
coincide; two jobs, one permit and a channel of two events, which a slow
subscriber overflows; a place of a module, its child `init`, a module and a script
that share a path, with texts that `extract_script_source` changes, for the pull.

Identifiers of a kind are interchangeable in `StudioBridge` and `CompanionLink`, so
their safety runs use symmetry; the runs with liveness properties do not. In
`MCCompanionLink` commands may be permuted because the controller runs those of a
response in the order of their random ids, which in the model is any order.

Deadlock checking is on in every run but `host`, whose parts stop where their bounds
(starts, clock, edits) are used up.

Every property is paired in `PROJECT.json` with a mutant of the code it breaks
under: a timeout that leaves the command in the queue, a pull that forgets to look
at changed files, a hint compared by pid without the start time, and so on.

### Fairness

`LinkFairSpec` assumes: the plugin's coroutine is scheduled (weak fairness of
`Pair`, `SendRegister`, `SendReport`) and every `RequestAsync` returns
(`RequestFails`); a request that is sent again and again is handled again and
again, and its response is received again and again (strong fairness of
`HandleAwaited` and the two receive actions: a loopback network that loses some
messages but not all); tokio's timers fire and the woken caller gets the lock
(weak fairness of `CommandTimeout` and `RemoveCommand`). Nothing is assumed of
losses, restarts, forgotten tokens, other plugins or the user; in particular
nobody presses Retry.

The `host` run assumes weak fairness of `MonitorNext`: the monitor is one tokio task
that the runtime keeps running, its sleeps and timeouts end, and a healthy provider
answers. Nothing is assumed of the host, the provider or the other parts.
`MonitorConnects` promises a connection only when what stands in its way is gone
for good (`Settled` from some point on).

### What the violations say

Two concern `ReportsRecover`: a pending report is acknowledged or given up, without
the exception that `RecoversUnlessSwept` makes. The
bridge marks every refusal `recoverable`, and `docs/STUDIO_COMPANION_BRIDGE.md`
(79-83) describes retries that succeed.

- `link_expiry`: a plugin is silent for longer than the session TTL (60 s: a
  suspended machine, a blocked Studio) and another plugin's registration sweeps
  its session. The token is still good, so its next report is answered 404; the
  controller reacts only to 401, keeps session id and pending report, and repeats
  both for as long as the token is honoured. It takes no second plugin: a copy of the
  plugin's own registration that arrives after the silence sweeps the session as well.
- `link_backlog`: the controller queues up to 2048 events while the daemon is
  away but a report may carry 512. The report built afterwards is refused with
  400 and repeated unchanged.

Both end when the user presses Retry or the 12-hour token runs out.

- `workspaceCrash`: `ingest` commits the catalog row and then updates the index
  for a row that changed (`lattice-core/src/lib.rs:109`). After a kill or an index
  error between the two, the next ingest finds the row unchanged and skips the
  index: it reports success, and the source cannot be found, or is found with its
  old content, until it is edited or the index directory is deleted. The README of
  the repository (16) says the index is updated incrementally.
  `IngestIndexesUninterrupted` states what does hold, and is checked and proved.

## 5. The proofs

Every theorem holds for all values of the constants, under the assumptions
named. None of the properties is inductive by itself; the invariants that are:

**`StudioBridgeProofs`** (`LimitsAssumption`: the limits are natural numbers,
identifiers are finitely many; `NoneAssumption`: the absent value is no
identifier). `TypeCorrect`, `IndexCorrect`, `LeasesConserved`, `LeasesRecovered`,
`UnboundIdle`, `AnswersCorrect` and `LimitsCorrect` prove `TypeOK`,
`SessionIndexConsistent`, `LeaseConservation`, `ReplayRecoversLeases`,
`UnboundHoldsNothing`, `AnswersComeFromHome` and `LimitsRespected` from
`BridgeInvariant`, that is `TypeOK /\ IndexInv /\ WorkInv`. `IndexInv` adds
`IdsFresh` to the index: live ids were issued and an id that is not live has an
empty record, or a registration could take over somebody's session. `WorkInv`
adds to `LeaseConservation` that what has been delivered to a plugin is never in a
queue and never belongs to a new command: a result for a *queued* command would
remove its responder and leave the command behind without one, and only the fact
that plugins learn of a command when it is leased excludes that. It also contains
the lease limit, because the cached response carries *all* leases only if no more
are leased than a response may carry, and that an unbound session holds nothing.
`WorkOK` states what concerns one record, so that the proof splits into lemmas on
what one operation does to one record (`CalledWork`, `RemovedWork`,
`IngestedWork`) and lemmas that other records and calls are undisturbed
(`WorkUntouched`, `PhaseChange`).

**`BridgeContractProofs`** (the same assumptions). `BrokerImplementsContract`
proves the refinement `ImplementsCommandLeases`: the mapped stage of a command is
computed from the caller and the one record of its home session, so `BridgeInv`
(a command has one holder) is what makes a removal or a lease in a record one step
of the promise; the sweep, which forgets all commands of a session, is the step
that loses them. `CountsCorrect` and `EventsAccounted` follow from
`AccountInvariant` (the counts are the lengths, ring and loss counter account for
the ingested events, `AccountedExactly`), and `IdentityKept` proves the action property
`IdentityStable`.

**`CompanionLinkProofs`** (`LinkAssumption`: this plugin is one of the plugins, its
queue and cache hold something; and the assumptions of `StudioBridge`). The
inductive invariant `LinkInv` (`LinkInvariant`) is the broker's `BridgeInv` and

- `ShapeInv`: the point the coroutine is at says which request it waits for;
- `UsedInv`: a session that the plugin, a report under way or a response names was
  issued, and is this plugin's while it lives (a fresh id is never an old one);
- `SequenceInv`, `EventInv`: of the reports that may still arrive none is ahead of
  the plugin's counter, equal sequences mean equal reports, and event numbers grow
  from what was ingested over what is under way, in the order of its sequences, to
  what is queued;
- `ExecutionInv`: results are of executed commands, executed commands were delivered;
- `CacheInv`: a cached command was followed by those behind it in the cache, and one
  that has left it by `MaxCachedResults` others;
- `QuietInv`, `CoverInv`, `JointInv`, `VainInv`: while the plugin executes the
  commands of a response, no report the broker would take is under way; every lease is
  among those executions and their results; a report that answers one of the leased
  commands answers every one that was executed before it; hence neither a leased
  command nor anything executed since has been answered;
- `TakenInv`: a report of the live session under its last sequence, wherever it is, is
  the report the broker took, in every part.

A step of the link is one of seven kinds (`StepKinds`: idle, replay, take, event, build,
acknowledge, execute), each with what it may change; the parts of the invariant are
proved from the kinds, not from the actions. `LinkTypeCorrect`, `SequencesCorrect`,
`IngestedInOrder` and `ExecutionCorrect` follow. The last is where the proof corrected the
claim: "no command is executed twice" is true of a run whose commands come one at
a time, and false in general.

`LinkIsBroker` proves `ActsAsBroker`, that is, discharges what `StudioBridge` assumes
of plugins: results are of delivered commands (`ExecutionInv`), and the events a session
accepts are bounded because they are numbered (`AcceptedInv`: as many as were ingested;
increasing numbers up to `EventBound` are at most that many, `IncreasingLength`). So
`StudioBridge`'s invariants hold of the composition (`BrokerWithinLink`), restarts
included, because an empty broker satisfies them, and `LinkImplementsContract` proves
`LinkImplementsCommandLeases`: steps of the broker map as in `BridgeContractProofs`,
a restart is `Crash` (`RestartCrashes`).

**`WorkspaceIngestProofs`** (`WorkspaceAssumption`: paths are finitely many numbers,
the special contents are distinct). `WorkspaceTypes`, `ObjectsBeforeRows`,
`HistoryComplete`, `SearchEvidence`, `IndexComplete`. `ObjectInHand` carries the
object over the point between its write and the row, `RowsCounted` bounds the
revisions by the workspace's, `SyncInv` says which sources a running ingest
still has to index (`Pending`): during a rebuild all it has not reached, otherwise
the changed one it has recorded. That the next path in order exists needs the
least element of a finite set, proved by well-founded choice.

**`ConnectionBrokerProofs`** (`CatalogAssumption`, `BrokerAssumption`: permits are
positive, tasks finitely many, listings sequences of tools). `BrokerTypes`,
`CatalogCorrect` (the catalog of any sequence of accepted and refused imports),
`AdmissionCorrect` (a task holds its permits from acquisition to its end, and a
checked call stays checked because schemas are only added), `ConnectionsShown`
and `RoutesCallable` from `LifeInv`, stated per provider: as long as no operations
overlapped, there is one task in a lifecycle, and where it is determines which of
slot, registry and child it has set (`Stage`, `Reporting`). `LifeApart` is the
frame lemma that leaves the other providers alone.

**`EditorNativeProofs`** (`EditorAssumption`: opened and inserted texts do not begin
inside a character, the calls' arguments have their types). `EditorTypes`,
`UndoExact`, `RevisionsNameTexts`, `CleanDocuments`, `FailedCallsHarmless`, all
of `AbiSpec`, the calls of the C interface. `EditorInv` holds per document: each
history entry, cut out of one text and spliced in, gives the next one and back
(`Linked`, from `SpliceUndone`), the view names
the text of its revision (`Named`), the clean revision names the text that was marked,
which is the saved one if that was seen in the present opening (`CleanSaved`). Only well-formed documents occur (`Doc`), which is why the replay
inside `undo` and `redo` cannot fail although the entry is popped first. The
core's transactions of several edits are folds over data and remain
model-checked.

**`StudioMonitorProofs`** (`NoProcessAssumption`, `ResolverAssumption`,
`MonitorAssumption`, `ProviderAssumption`: the absent value is no process, runtime or
place, and contexts, installations, programs and providers have their types).
`MonitorTheorem`: at each place of `run_connection` the health set last is known
(`HealthAt`), a path is known exactly in a connection (`PathKnown`), and the child
count is determined by the place (`ChildOwned`), for any provider and host.
`ResolverTheorem` proves `InspectionSound` of a host that changes at any time:
what is found and what is still to be resolved are, as long as no process has
started or exited, exactly the candidates of the Studios that run (`StudiosListed`);
`FoundOnce` says that an environment names its candidate's process or none, and `Traced`
that a process with a candidate's identity ran at the detection unless the identity was
given twice. A
changing installation can therefore spoil paths but not the choice.
`MonitorTypes` extends both to the monitor, which inspects again for every
connection. The proof of the choice found a case the property had to name: a Studio
whose arguments mention both Vinegar runtimes matches both, is found twice and is not
selected, so `OnlyStudioSelected` speaks of a Studio that matches one (`OnlyMatch`).

**`HostProofs`** (the assumptions of the parts: `NoFileAssumption`; `PairingAssumption`:
the limits are positive, the lifetimes natural numbers; `PermitsPositive`;
`PullAssumption`: a script of a listed class has a file; and `InstanceAssumption`: the
installations and the Studio that the composition names are among the given ones).

- `EndpointTheorem`: unless binds or drops overlapped, at most one daemon is busy
  (`AloneBusy`), a daemon owns the files it has written so far (`OwnsFiles`) and no bind
  has failed; and unless a check missed a live daemon, nobody serves while one is past
  its check (`Unserved`) and whoever serves owns the socket (`ServingOwns`).
- `PairingTheorem`: challenge numbers are fresh and a redeemed one was pending
  (`ChallengesKnown`, `TokensKnown`), so no two tokens share a challenge; a token that
  is gone and not expired at the latest time any request was applied with was
  evicted, and whatever was kept then still outlives it (`LostToRivals`), although
  requests apply with times out of order.
- `JobsTheorem`: where a task is says what was published of it (`LifeReported`), so a
  publication always goes forward (`PublishKeeps`); what the subscriber read lies
  before its position (`SeenPublished`), so skipping cannot reorder; and the jobs that
  hold a permit are finitely many, whatever the number of jobs (`PermitsHeld`).
- `PullTheorem`: while nobody edits, the nodes, the files and the writes each account
  for every script (`Gathered`); whoever edits, a pull that writes without
  `--force` found nothing in its way (`NothingInTheWay`), and nothing is written before
  that is known (`WritesAllowed`). The induction failed for a
  script whose path is shared with one beyond the listing's limits: `script_read`
  may answer with that one's source, which `Alone` now excludes.
- `HostTheorem`: the parts side by side, with the monitor, keep `HostTypeOK` and all
  the safety properties of the `host` run (`HostInv`): each step of the composition
  is a step of one part and a stutter of the others.

Model-checked only: the liveness properties `RecoversUnlessSwept`, `CallsSettle` and
`MonitorConnects` (liveness under fairness is outside this prover), and
`LibraryTransaction`, a fold over the edits of a transaction (induction over data is
outside it too: the theorems about the editor are about `AbiSpec`, whose transactions have one
edit, and the run adds the others). Every safety property of every passing run is
stated by a theorem.

## 6. Not modelled

Whole components: the Studio session manager (`lattice-studio`), which no binary
creates; the plugin's cockpit and the desktop application (display; their effects
on the link and the daemon are actions of `CompanionLink` and `DaemonEndpoint`);
value types, graph and Luau analysis (no behaviour over time); the vendored cache
(third-party code).

Parts of modelled components: body-size and JSON errors, which reject a request
before any state is read; the session listing of the HTTP front end; the JSON-RPC
server of `lattice-mcp`, a stateless translation; change sets, which no binary uses;
ranking of tool and source searches; path translation between host and Wine and the
parsing of process tables; the Windows pipe endpoint; CLI commands that make one call and
print its answer.

Hazards no property covers, because the code promises nothing that could be
checked (each has its entry in `PROJECT.json`):

- daemons that bind or drop at the same time remove each other's files and share one
  temporary file. `DaemonEndpoint` has the interleavings; its property is about the
  others;
- `_clearPairing` drops a report whose delivery is uncertain;
- sources deleted from disk stay in catalog and index;
- a call waiting for its provider's permit holds a global one, so a slow provider can
  starve the others;
- a file edited between the comparison and the write of a pull is overwritten;
- an external provider may reconnect between the listing and the call of a tool.

What the code lets happen, and the properties therefore name as an exception:

- a live daemon that does not answer within 250 ms loses its socket to the next one,
  and both serve (`EndpointNamesLiveDaemon` after `missed`);
- a process that takes over the pid of an exited one within the same second is
  correlated with the environment of the other (`ProcessCorrelated`, `reused`);
- a file that grows past the size limit after its discovery is ingested;
- a document that is marked clean with a revision seen in an earlier opening is clean
  with a text nobody saved (`CleanIsSaved`);
- a library transaction that fails half way leaves its document torn: the text changed,
  the histories no longer fitting (`FailedCallChangesNothing`; the other properties of
  the editor leave torn documents out);
- a swept session whose token is still good stays lost (`RecoversUnlessSwept`);
- overlapping lifecycle calls leave a connection in whatever state the last of them
  wrote (`ConnectionHonest` outside `torn` and `raced`), and a call may be dispatched over
  availability and a connection that have changed since they were checked.

Known limits of what the properties say: `JobsOrderly` says that a task that returns is
reported to end exactly once, not whether a cancellation wins over success; `PullSound`
leaves out scripts below the
listing's limits (depth 10, 5000 instances) and scripts that share a path or a file
name after sanitising; a revision names a text only until the document is closed,
as a reopened one starts at 0; the selection of `apply_edit` is not validated and
the model follows the code in that.
