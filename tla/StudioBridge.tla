---------------------------- MODULE StudioBridge ----------------------------
(***************************************************************************)
(* The companion-bridge broker of lattice-studio-bridge: one Mutex around  *)
(* BrokerState, HTTP handlers that take it (register, report, sessions),   *)
(* host-side calls that take it (bind_session, call, drain_events), and    *)
(* the part of call that runs with the lock released, where a result, a    *)
(* closed channel, the 15 s timer and the caller's own cancellation race.  *)
(* Every action is one critical section of that Mutex, or one event of a   *)
(* waiting call.                                                           *)
(*                                                                         *)
(* Time is abstracted to the only thing the code asks of it: whether a     *)
(* session has been silent for longer than session_ttl (`overdue`).        *)
(***************************************************************************)
EXTENDS Integers, FiniteSets, SequencesExt

CONSTANTS
  SessionIds,           \* StudioBridgeSessionId values; a fresh one per registration
  Externals,            \* external_session_id values the plugins choose
  Commands,             \* StudioBridgeCommandId values; a fresh one per call
  Bindings,             \* StudioBridgeBinding values
  Backends,             \* StudioBridgeBackendState values
  None,                 \* the absent value
  MaxSessions,          \* limits.max_sessions
  MaxPending,           \* limits.max_pending_commands_per_session
  MaxEvents,            \* limits.max_events_per_session
  MaxEventsPerReport,   \* limits.max_events_per_report
  MaxResultsPerReport,  \* limits.max_command_results_per_report
  MaxCommandsPerReport, \* limits.max_commands_per_report
  SequenceBound,        \* bound: the largest report_sequence a plugin sends
  EventBound            \* bound: events one session ever ingests

ASSUME LimitsAssumption ==
  /\ IsFiniteSet(Commands) /\ IsFiniteSet(SessionIds)
  /\ {MaxSessions, MaxPending, MaxEvents, MaxEventsPerReport,
      MaxResultsPerReport, MaxCommandsPerReport,
      SequenceBound, EventBound} \subseteq Nat

ASSUME NoneAssumption == None \notin SessionIds \cup Externals \cup Bindings

VARIABLES
  live,       \* the keys of BrokerState.sessions
  record,     \* BrokerState.sessions: SessionRecord of every live session
  external,   \* BrokerState.external_sessions
  backend,    \* BrokerState.backend
  call,       \* phase of the `call` future that owns each command id
  home,       \* the session each call was addressed to
  answeredBy, \* history: the session whose report answered the call
  issued,     \* history: session ids already handed out (UUIDv7, never reused)
  delivered   \* history: command ids some report response has carried

vars == <<live, record, external, backend, call, home, answeredBy, issued, delivered>>

NoReport == -1   \* last_report_sequence = None

Counts == [queued: Nat, inFlight: Nat, retained: Nat]
NoResponse == [sequence |-> NoReport, commands |-> {}, dropped |-> 0, backend |-> None]

EmptyRecord ==
  [external |-> None, state |-> "Unbound", binding |-> None, overdue |-> FALSE,
   lastSequence |-> NoReport, lastResponse |-> NoResponse,
   queued |-> <<>>, inFlight |-> {}, responders |-> {},
   events |-> <<>>, dropped |-> 0, accepted |-> 0, drained |-> 0,
   counts |-> [queued |-> 0, inFlight |-> 0, retained |-> 0]]

Init ==
  /\ live = {}
  /\ record = [s \in SessionIds |-> EmptyRecord]
  /\ external = [e \in Externals |-> None]
  /\ backend \in Backends
  /\ call = [c \in Commands |-> "new"]
  /\ home = [c \in Commands |-> None]
  /\ answeredBy = [c \in Commands |-> None]
  /\ issued = {}
  /\ delivered = {}

----------------------------------------------------------------------------
(* Session lifecycle                                                       *)

\* expire_sessions: who is dropped, and what dropping a record does to the
\* calls whose oneshot sender it held.
Expired == {s \in live : record[s].overdue}
Orphans == UNION {record[s].responders : s \in Expired}
KeptExternalsStale == external
KeptExternals == [e \in Externals |-> IF external[e] \in Expired THEN None ELSE external[e]]
AfterExpiry ==
  [live |-> live \ Expired,
   record |-> [s \in SessionIds |-> IF s \in Expired THEN EmptyRecord ELSE record[s]],
   external |-> KeptExternals,
   call |-> [c \in Commands |->
               IF c \in Orphans /\ call[c] = "waiting" THEN "closed" ELSE call[c]]]

FreshState(r) == IF r.binding = None THEN "Unbound" ELSE "Bound"

RefreshedUnbinds(r) == [r EXCEPT !.overdue = FALSE, !.state = "Unbound", !.binding = None]
Refreshed(r) == [r EXCEPT !.overdue = FALSE, !.state = FreshState(r)]

\* register, external_session_id already known: refresh the same session.
RegisterKnown(e) ==
  LET kept == AfterExpiry
      s == kept.external[e]
  IN /\ s # None
     /\ live' = kept.live
     /\ record' = [kept.record EXCEPT ![s] = Refreshed(@)]
     /\ external' = kept.external
     /\ call' = kept.call
     /\ UNCHANGED <<backend, home, answeredBy, issued, delivered>>

\* register, unknown external_session_id, room for one more session.
RegisterNew(e, s) ==
  LET kept == AfterExpiry
  IN /\ kept.external[e] = None
     /\ Cardinality(kept.live) < MaxSessions
     /\ s \notin issued
     /\ live' = kept.live \cup {s}
     /\ record' = [kept.record EXCEPT ![s] = [EmptyRecord EXCEPT !.external = e]]
     /\ external' = [kept.external EXCEPT ![e] = s]
     /\ call' = kept.call
     /\ issued' = issued \cup {s}
     /\ UNCHANGED <<backend, home, answeredBy, delivered>>

\* register, unknown external_session_id, no room: SessionCapacityExceeded,
\* but the expiry sweep has already run.
RegisterRefused(e) ==
  LET kept == AfterExpiry
  IN /\ kept.external[e] = None
     /\ Cardinality(kept.live) >= MaxSessions
     /\ live' = kept.live
     /\ record' = kept.record
     /\ external' = kept.external
     /\ call' = kept.call
     /\ UNCHANGED <<backend, home, answeredBy, issued, delivered>>

AcceptsAnyBinding(r, b) == TRUE
AcceptsBinding(r, b) == r.binding \in {None, b}

\* bind_session: only a first or an identical binding is accepted.
BindSession(s, b) ==
  /\ s \in live
  /\ AcceptsBinding(record[s], b)
  /\ record' = [record EXCEPT ![s].binding = b, ![s].state = "Bound"]
  /\ UNCHANGED <<live, external, backend, call, home, answeredBy, issued, delivered>>

\* mark_stale_sessions
MarkedStale ==
  [s \in SessionIds |->
     IF s \in Expired THEN [record[s] EXCEPT !.state = "Stale"] ELSE record[s]]

\* sessions: mark_stale_sessions runs before the snapshots are copied.
ListSessions ==
  /\ record' = MarkedStale
  /\ UNCHANGED <<live, external, backend, call, home, answeredBy, issued, delivered>>

\* set_backend_state
SetBackendState(b) ==
  /\ backend' = b
  /\ UNCHANGED <<live, record, external, call, home, answeredBy, issued, delivered>>

\* The clock passes last_seen + session_ttl of a session nobody refreshed.
SessionGoesQuiet(s) ==
  /\ s \in live
  /\ record' = [record EXCEPT ![s].overdue = TRUE]
  /\ UNCHANGED <<live, external, backend, call, home, answeredBy, issued, delivered>>

----------------------------------------------------------------------------
(* Reports                                                                 *)

Least(a, b) == IF a < b THEN a ELSE b
Monus(a, b) == IF a < b THEN 0 ELSE a - b   \* usize::saturating_sub
DropFirst(q, n) == SubSeq(q, n + 1, Len(q))

IngestCountingReports(r, n) ==
  LET all == r.events \o [i \in 1..n |-> r.accepted + i]
      over == Monus(Len(all), MaxEvents)
  IN [events |-> DropFirst(all, over), dropped |-> r.dropped + Least(over, 1)]
\* The event loop of report in closed form: push every event, and whatever
\* exceeds the ring is popped from the front and counted. An event is named
\* by its ordinal among the events the session ingested.
Ingest(r, n) ==
  LET all == r.events \o [i \in 1..n |-> r.accepted + i]
      over == Monus(Len(all), MaxEvents)
  IN [events |-> DropFirst(all, over), dropped |-> r.dropped + over]

LeaseCountIgnoringLeases(r, results) == Least(MaxCommandsPerReport, Len(r.queued))
\* How many queued commands a report may lease once `results` are settled.
LeaseCount(r, results) ==
  Least(Monus(MaxCommandsPerReport, Cardinality(r.inFlight \ results)), Len(r.queued))

\* in_flight_commands.values().take(max): everything, unless more is leased
\* than a response may carry.
Leased(r) ==
  {T \in SUBSET r.inFlight :
     Cardinality(T) = Least(Cardinality(r.inFlight), MaxCommandsPerReport)}

\* A fresh report's effect on the results, events and commands of its session.
Ingested(r, results, n) ==
  LET ring == Ingest(r, n)
      k == LeaseCount(r, results)
  IN [Refreshed(r) EXCEPT
               !.inFlight = (r.inFlight \ results) \cup {r.queued[i] : i \in 1..k},
               !.queued = DropFirst(r.queued, k),
               !.responders = r.responders \ results,
               !.events = ring.events,
               !.dropped = ring.dropped,
               !.accepted = r.accepted + n]

CountsOf(r) ==
  [queued |-> Len(r.queued), inFlight |-> Cardinality(r.inFlight), retained |-> Len(r.events)]

SettledAnywhere(s, results) == results
Settled(s, results) == results \cap record[s].responders

\* report with a sequence above the last one. A waiting call whose responder
\* the report settles is answered; one that has already timed out is not.
Report(s, q, results, n) ==
  LET r == Ingested(record[s], results, n)
      settled == Settled(s, results)
  IN /\ s \in live
     /\ n <= MaxEventsPerReport
     /\ Cardinality(results) <= MaxResultsPerReport
     /\ q > record[s].lastSequence
     /\ \E commands \in Leased(r) :
          /\ record' = [record EXCEPT ![s] =
               [r EXCEPT !.lastSequence = q,
                         !.counts = CountsOf(r),
                         !.lastResponse = [sequence |-> q, commands |-> commands,
                                           dropped |-> r.dropped, backend |-> backend]]]
          /\ delivered' = delivered \cup commands
     /\ call' = [c \in Commands |->
                   IF c \in settled /\ call[c] = "waiting" THEN "answered" ELSE call[c]]
     /\ answeredBy' = [c \in Commands |->
                   IF c \in settled /\ call[c] = "waiting" THEN s ELSE answeredBy[c]]
     /\ UNCHANGED <<live, external, backend, home, issued>>

\* report with the last sequence again: the cached response, nothing else.
ReportReplay(s) ==
  /\ s \in live
  /\ record[s].lastSequence # NoReport
  /\ delivered' = delivered \cup record[s].lastResponse.commands
  /\ UNCHANGED <<live, record, external, backend, call, home, answeredBy, issued>>

----------------------------------------------------------------------------
(* Calls                                                                   *)

HasQueueRoom(r) == Len(r.queued) < MaxPending
HasRoom(r) == Len(r.queued) + Cardinality(r.inFlight) < MaxPending

\* call, first critical section.
Call(c, s) ==
  /\ call[c] = "new"
  /\ s \in live
  /\ record[s].binding # None
  /\ HasRoom(record[s])
  /\ record' = [record EXCEPT ![s].queued = Append(@, c),
                              ![s].responders = @ \cup {c},
                              ![s].counts.queued = Len(record[s].queued) + 1]
  /\ call' = [call EXCEPT ![c] = "waiting"]
  /\ home' = [home EXCEPT ![c] = s]
  /\ UNCHANGED <<live, external, backend, answeredBy, issued, delivered>>

\* tokio::time::timeout elapses; the lock has not been taken yet.
CommandTimeout(c) ==
  /\ call[c] = "waiting"
  /\ call' = [call EXCEPT ![c] = "timedOut"]
  /\ UNCHANGED <<live, record, external, backend, home, answeredBy, issued, delivered>>

\* The two wake-ups after which call runs remove_command.
WokenByTimerOnly == {"timedOut"}
Woken == {"timedOut", "closed"}

\* The caller drops the call future at one of its awaits (the result, or the
\* lock of remove_command): no clean-up code runs.
CallerGone(c) ==
  /\ call[c] \in {"waiting"} \cup Woken
  /\ call' = [call EXCEPT ![c] = "abandoned"]
  /\ UNCHANGED <<live, record, external, backend, home, answeredBy, issued, delivered>>

KeptInQueue(q, c) == q
\* The queue without c. A command id is queued at most once (LeaseConservation),
\* so retain(|command| command.id != c) drops at most one position.
Without(q, c) ==
  IF \E i \in DOMAIN q : q[i] = c
  THEN RemoveAt(q, CHOOSE i \in DOMAIN q : q[i] = c)
  ELSE q

RemovedFromQueueOnly(r, c) ==
  LET q == Without(r.queued, c)
  IN [r EXCEPT !.queued = q, !.responders = @ \ {c}, !.counts.queued = Len(q)]
RemovedByDecrement(r, c) ==
  [r EXCEPT !.queued = Without(r.queued, c), !.inFlight = @ \ {c}, !.responders = @ \ {c},
            !.counts.queued = @ - 1, !.counts.inFlight = Cardinality(r.inFlight \ {c})]
RemovedUncounted(r, c) ==
  LET q == Without(r.queued, c)
  IN [r EXCEPT !.queued = q, !.inFlight = @ \ {c}, !.responders = @ \ {c},
               !.counts.queued = Len(q)]
Removed(r, c) ==
  LET q == Without(r.queued, c)
  IN [r EXCEPT !.queued = q, !.inFlight = @ \ {c}, !.responders = @ \ {c},
               !.counts.queued = Len(q),
               !.counts.inFlight = Cardinality(r.inFlight \ {c})]

\* remove_command, then CommandTimedOut or CommandChannelClosed.
RemoveCommand(c) ==
  /\ call[c] \in Woken
  /\ record' = IF home[c] \in live
               THEN [record EXCEPT ![home[c]] = Removed(@, c)]
               ELSE record
  /\ call' = [call EXCEPT ![c] = "failed"]
  /\ UNCHANGED <<live, external, backend, home, answeredBy, issued, delivered>>

\* drain_events
DrainEvents(s, limit) ==
  LET n == Least(limit, Len(record[s].events))
  IN /\ s \in live
     /\ record' = [record EXCEPT ![s].events = DropFirst(@, n),
                                 ![s].drained = @ + n,
                                 ![s].counts.retained = Len(record[s].events) - n]
     /\ UNCHANGED <<live, external, backend, call, home, answeredBy, issued, delivered>>

----------------------------------------------------------------------------

\* A plugin reports results only for command ids it has been sent.
PluginReports ==
  \E s \in SessionIds, q \in 0..SequenceBound, results \in SUBSET delivered,
     n \in 0..MaxEventsPerReport :
       /\ record[s].accepted + n <= EventBound
       /\ Report(s, q, results, n)

Next ==
  \/ \E e \in Externals : RegisterKnown(e)
  \/ \E e \in Externals, s \in SessionIds : RegisterNew(e, s)
  \/ \E e \in Externals : RegisterRefused(e)
  \/ \E s \in SessionIds, b \in Bindings : BindSession(s, b)
  \/ ListSessions
  \/ \E b \in Backends : SetBackendState(b)
  \/ \E s \in SessionIds : SessionGoesQuiet(s)
  \/ PluginReports
  \/ \E s \in SessionIds : ReportReplay(s)
  \/ \E c \in Commands, s \in SessionIds : Call(c, s)
  \/ \E c \in Commands : CommandTimeout(c)
  \/ \E c \in Commands : CallerGone(c)
  \/ \E c \in Commands : RemoveCommand(c)
  \/ \E s \in SessionIds, limit \in 1..MaxEvents : DrainEvents(s, limit)

Spec == Init /\ [][Next]_vars

----------------------------------------------------------------------------
(* Properties                                                              *)

Phases == {"new", "waiting", "answered", "timedOut", "closed", "failed", "abandoned"}

Responses ==
  [sequence: Nat \cup {NoReport}, commands: SUBSET Commands, dropped: Nat,
   backend: Backends \cup {None}]

SessionRecords ==
  [external: Externals \cup {None}, state: {"Unbound", "Bound", "Stale"},
   binding: Bindings \cup {None}, overdue: BOOLEAN,
   lastSequence: Nat \cup {NoReport}, lastResponse: Responses,
   queued: Seq(Commands), inFlight: SUBSET Commands, responders: SUBSET Commands,
   events: Seq(Nat), dropped: Nat, accepted: Nat, drained: Nat, counts: Counts]

TypeOK ==
  /\ live \subseteq SessionIds
  /\ record \in [SessionIds -> SessionRecords]
  /\ external \in [Externals -> SessionIds \cup {None}]
  /\ backend \in Backends
  /\ call \in [Commands -> Phases]
  /\ home \in [Commands -> SessionIds \cup {None}]
  /\ answeredBy \in [Commands -> SessionIds \cup {None}]
  /\ issued \subseteq SessionIds
  /\ delivered \subseteq Commands

Queued(s) == ToSet(record[s].queued)
Held(s) == Queued(s) \cup record[s].inFlight

\* A command the broker holds is in exactly one place, once: in the queue or
\* leased, in the session it was addressed to, with a responder; and its call
\* has not been settled. A call that still waits is held: neither the timer,
\* the expiry sweep nor a result of another session ever leaves a caller
\* waiting on a responder nobody can reach, or a command nobody waits for.
LeaseConservation ==
  /\ \A s \in SessionIds :
       /\ \A i, j \in DOMAIN record[s].queued :
            record[s].queued[i] = record[s].queued[j] => i = j
       /\ Queued(s) \cap record[s].inFlight = {}
       /\ record[s].responders = Held(s)
       /\ \A c \in Held(s) : home[c] = s /\ call[c] \in {"waiting", "timedOut", "abandoned"}
  /\ \A c \in Commands :
       call[c] = "waiting" => home[c] \in live /\ c \in record[home[c]].responders

\* Dispatched commands remain leased until a result arrives, so that a lost
\* response can be replayed (lib.rs:626): everything leased is in the cached
\* response, which answers exactly the last accepted sequence. In particular
\* DuplicateReportUnavailable cannot happen.
ReplayRecoversLeases ==
  \A s \in SessionIds :
    /\ record[s].inFlight \subseteq record[s].lastResponse.commands
    /\ record[s].lastResponse.sequence = record[s].lastSequence

\* external_sessions and sessions describe the same sessions: looking an
\* external id up never finds a missing session (the SessionNotFound of
\* register is unreachable), and no live session is unreachable by its id.
SessionIndexConsistent ==
  /\ \A e \in Externals : external[e] # None =>
       external[e] \in live /\ record[external[e]].external = e
  /\ \A s \in live : record[s].external \in Externals /\ external[record[s].external] = s

\* The bridge never holds work for a plugin that no host-side correlator has
\* bound to a Studio, whatever re-registrations and expiries happen.
UnboundHoldsNothing ==
  \A s \in SessionIds : record[s].binding = None => Held(s) = {} /\ record[s].responders = {}

\* No limit is exceeded after any interleaving of calls, reports and timeouts:
\* the two command limits are enforced by different operations.
LimitsRespected ==
  /\ Cardinality(live) <= MaxSessions
  /\ \A s \in SessionIds :
       /\ Cardinality(record[s].inFlight) <= MaxCommandsPerReport
       /\ Len(record[s].queued) + Cardinality(record[s].inFlight) <= MaxPending
       /\ Len(record[s].events) <= MaxEvents

\* The counts GET /sessions shows are the real ones although five operations
\* maintain them separately from the collections they count.
SnapshotCountsExact == \A s \in SessionIds : record[s].counts = CountsOf(record[s])

\* The ring retains the newest undrained events in order, and every ingested
\* event is retained, drained or counted as dropped.
EventRingAccounting ==
  \A s \in SessionIds :
    LET r == record[s]
    IN /\ r.accepted = r.drained + r.dropped + Len(r.events)
       /\ r.events = [i \in 1..Len(r.events) |-> r.accepted - Len(r.events) + i]

\* Commands never cross Studio sessions: an answer comes from a report of the
\* session the call named.
AnswersComeFromHome ==
  \A c \in Commands : answeredBy[c] = IF call[c] = "answered" THEN home[c] ELSE None

\* A session heard from within the TTL keeps its external identity, and a
\* binding never changes or disappears while its session is registered.
IdentityStable ==
  [][/\ \A e \in Externals :
          external[e] # None /\ ~record[external[e]].overdue => external'[e] = external[e]
     /\ \A s \in live \cap live' :
          record[s].binding # None => record'[s].binding = record[s].binding]_vars

\* What the callers of `call` are promised.
Contract == INSTANCE CommandLeases WITH
    stage <- [c \in Commands |->
                IF call[c] = "new" THEN "new"
                ELSE IF c \in Queued(home[c]) THEN "queued"
                ELSE IF c \in record[home[c]].inFlight THEN "leased" ELSE "out"],
    verdict <- [c \in Commands |->
                CASE call[c] = "answered" -> "result"
                  [] call[c] \in {"failed", "abandoned"} -> call[c]
                  [] OTHER -> "none"]

ImplementsCommandLeases == Contract!Spec

=============================================================================
