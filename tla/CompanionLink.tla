---------------------------- MODULE CompanionLink ----------------------------
(***************************************************************************)
(* One Studio plugin (plugin/LatticeCompanion, BridgeController) talking   *)
(* to the broker of StudioBridge over loopback HTTP that may lose, delay   *)
(* or duplicate requests and lose responses, with a daemon that may        *)
(* restart and other Studio windows that register with the same daemon.    *)
(*                                                                         *)
(* The controller is one coroutine: it yields only inside an HTTP request  *)
(* and in task.wait. The Retry button and the selection, recorder and      *)
(* studio controllers run while it yields.                                 *)
(***************************************************************************)
EXTENDS StudioBridge

CONSTANTS
  Self,              \* this plugin's external_session_id
  MaxQueuedEvents,   \* MAX_EVENTS of the controller
  MaxCachedResults,  \* MAX_RESULTS of the controller
  RestartBound       \* bound: how often the daemon restarts

ASSUME LinkAssumption ==
  /\ Self \in Externals
  /\ {MaxQueuedEvents, MaxCachedResults} \subseteq Nat \ {0}
  /\ RestartBound \in Nat

VARIABLES
  plugin,      \* the controller's fields and where its loop is
  inbox,       \* requests the network may still bring to the daemon
  reply,       \* the response to the request the loop waits for
  honoured,    \* does the daemon accept the plugin's session token
  restarts,    \* restarts so far
  executions,  \* history: how often each command was executed in Studio
  since,       \* history: the commands executed since each one's last execution
  ingested,    \* history: plugin event numbers in the order the broker took them
  taken        \* history: the last report the daemon took from this plugin

linkVars == <<plugin, inbox, reply, honoured, restarts, executions, since, ingested, taken>>
allVars == <<vars, linkVars>>

Reports == [session: SessionIds, sequence: 1..SequenceBound,
            events: Seq(1..EventBound), results: SUBSET Commands]
RegisterRequest == [session |-> None, sequence |-> 0, events |-> <<>>, results |-> {}]

\* A response: its HTTP status and the fields the controller reads.
Response(status, session, commands) ==
  [status |-> status, session |-> session, commands |-> commands]
NoReply == Response(0, None, {})

LinkInit ==
  /\ Init
  /\ plugin = [pc |-> "top", paired |-> FALSE, session |-> None, sequence |-> 0,
               pending |-> None, awaiting |-> None, events |-> <<>>, results |-> {}, todo |-> {},
               cache |-> <<>>, nextEvent |-> 1]
  /\ inbox = {}
  /\ reply = NoReply
  /\ honoured = FALSE
  /\ restarts = 0
  /\ executions = [c \in Commands |-> 0]
  /\ since = [c \in Commands |-> {}]
  /\ ingested = <<>>
  /\ taken = None

----------------------------------------------------------------------------
(* The controller                                                          *)

\* The commands of the last response are executed before anything else runs.
AtTop == plugin.pc = "top" /\ plugin.todo = {}
Yielding == AtTop \/ plugin.pc \in {"registering", "reporting"}

ClearedKeepingPending(p) == [p EXCEPT !.paired = FALSE, !.session = None]
\* _clearPairing. The report sequence and the external id are kept.
Cleared(p) == [p EXCEPT !.paired = FALSE, !.session = None, !.pending = None]

EnqueuedTrimmingFirst(p) ==
  IF p.nextEvent > EventBound THEN p
  ELSE [p EXCEPT !.events = Append(DropFirst(@, Monus(Len(@), MaxQueuedEvents)), p.nextEvent),
                 !.nextEvent = @ + 1]
\* boundedInsert of an event, which drops the oldest. EventBound ends the
\* numbering, so that the model is finite.
Enqueued(p) ==
  IF p.nextEvent > EventBound THEN p
  ELSE LET all == Append(p.events, p.nextEvent)
       IN [p EXCEPT !.events = DropFirst(all, Monus(Len(all), MaxQueuedEvents)),
                    !.nextEvent = @ + 1]

\* The Retry button, or a token about to expire at the top of the loop.
Retry ==
  /\ Yielding
  /\ plugin.paired
  /\ plugin' = Cleared(plugin)
  /\ UNCHANGED <<vars, inbox, reply, honoured, restarts, executions, since, ingested, taken>>

\* Another controller enqueues an event while the loop yields.
StudioEvent ==
  /\ Yielding
  /\ plugin' = Enqueued(plugin)
  /\ UNCHANGED <<vars, inbox, reply, honoured, restarts, executions, since, ingested, taken>>

\* discover and pair, both answered. (One that fails leaves everything as it is.)
\* What is still under way with a token the daemon has forgotten will be
\* refused with no effect and no one waiting: it is as good as lost.
Pair ==
  /\ AtTop
  /\ ~plugin.paired
  /\ plugin' = [Cleared(plugin) EXCEPT !.paired = TRUE]
  /\ honoured' = TRUE
  /\ inbox' = IF honoured THEN inbox ELSE {}
  /\ UNCHANGED <<vars, reply, restarts, executions, since, ingested, taken>>

SendRegister ==
  /\ AtTop
  /\ plugin.paired
  /\ plugin.session = None
  /\ plugin' = [plugin EXCEPT !.pc = "registering", !.awaiting = RegisterRequest]
  /\ inbox' = inbox \cup {RegisterRequest}
  /\ UNCHANGED <<vars, reply, honoured, restarts, executions, since, ingested, taken>>

\* What _request does with a refusal: only 401 changes the pairing.
AfterRefusal(p) == IF reply.status = 401 THEN Cleared(p) ELSE p

ReceiveRegistration ==
  /\ plugin.pc = "registering"
  /\ reply # NoReply
  /\ plugin' = IF reply.status = 200
               THEN [plugin EXCEPT !.pc = "ready", !.session = reply.session]
               ELSE [AfterRefusal(plugin) EXCEPT !.pc = "top"]
  /\ reply' = NoReply
  /\ UNCHANGED <<vars, inbox, honoured, restarts, executions, since, ingested, taken>>

BuiltKeepingEvents(p) ==
  IF p.pending # None THEN p
  ELSE [p EXCEPT !.sequence = @ + 1,
                 !.pending = [session |-> p.session, sequence |-> p.sequence + 1,
                              events |-> p.events, results |-> p.results],
                 !.results = {}]
BuiltAnew(p) ==       \* the same sequence, with what is queued by now
  [p EXCEPT !.sequence = IF p.pending = None THEN @ + 1 ELSE @,
            !.pending = [session |-> p.session,
                         sequence |-> IF p.pending = None THEN p.sequence + 1 ELSE p.sequence,
                         events |-> p.events, results |-> p.results],
            !.events = <<>>, !.results = {}]
\* _buildReport: an unanswered report is sent again as it was, otherwise the
\* queued events and results become a report with the next sequence.
Built(p) ==
  IF p.pending # None THEN p
  ELSE [p EXCEPT !.sequence = @ + 1,
                 !.pending = [session |-> p.session, sequence |-> p.sequence + 1,
                              events |-> p.events, results |-> p.results],
                 !.events = <<>>, !.results = {}]

\* The heartbeat and _report up to its request. If Retry struck during the
\* registration there is no token: nothing is sent, and the next turn of the
\* loop discards the report it built.
SendReport ==
  LET built == Built(Enqueued(plugin))
  IN /\ \/ plugin.pc = "ready"
        \/ AtTop /\ plugin.paired /\ plugin.session # None
     /\ built.sequence <= SequenceBound
     /\ plugin' = IF built.paired
                  THEN [built EXCEPT !.pc = "reporting", !.awaiting = built.pending]
                  ELSE [built EXCEPT !.pc = "top"]
     /\ inbox' = IF built.paired THEN inbox \cup {built.pending} ELSE inbox
     /\ UNCHANGED <<vars, reply, honoured, restarts, executions, since, ingested, taken>>

\* _executeCommand: a cached result is reused, the cache is bounded in
\* insertion order.
ExecuteUncached(done, c) ==
  [cache |-> done.cache, executions |-> [done.executions EXCEPT ![c] = @ + 1]]
Execute(done, c) ==
  IF Contains(done.cache, c) THEN done
  ELSE LET all == Append(done.cache, c)
       IN [cache |-> DropFirst(all, Monus(Len(all), MaxCachedResults)),
           executions |-> [done.executions EXCEPT ![c] = @ + 1]]

\* _report, once _request has returned: an answer acknowledges the report and
\* its commands are to be executed.
ReceiveReportResponse ==
  /\ plugin.pc = "reporting"
  /\ reply # NoReply
  /\ plugin' = IF reply.status = 200
               THEN [plugin EXCEPT !.pc = "top", !.pending = None, !.todo = reply.commands]
               ELSE [AfterRefusal(plugin) EXCEPT !.pc = "top"]
  /\ reply' = NoReply
  /\ UNCHANGED <<vars, inbox, honoured, restarts, executions, since, ingested, taken>>

\* One turn of the loop of _report over the commands, which does not yield.
\* They come in the order of their random ids.
ExecuteCommand(c) ==
  LET done == Execute([cache |-> plugin.cache, executions |-> executions], c)
  IN /\ c \in plugin.todo
     /\ plugin' = [plugin EXCEPT !.todo = @ \ {c}, !.results = @ \cup {c}, !.cache = done.cache]
     /\ executions' = done.executions
     /\ since' = IF done.executions = executions THEN since
                 ELSE [x \in Commands |->
                         IF x = c \/ executions[x] = 0 THEN {} ELSE since[x] \cup {c}]
     /\ UNCHANGED <<vars, inbox, reply, honoured, restarts, ingested, taken>>

\* RequestAsync fails: the request is lost, or its response is, or it takes
\* too long; then the request may still reach the daemon later.
RequestFails ==
  /\ plugin.pc \in {"registering", "reporting"}
  /\ plugin' = [plugin EXCEPT !.pc = "top"]
  /\ inbox' \in {inbox, inbox \ {plugin.awaiting}}
  /\ reply' = NoReply
  /\ UNCHANGED <<vars, honoured, restarts, executions, since, ingested, taken>>

----------------------------------------------------------------------------
(* The network and the daemon's HTTP handlers                              *)

Awaited(m) == plugin.pc \in {"registering", "reporting"} /\ m = plugin.awaiting

\* An earlier request that says the same as the one the loop waits for may be
\* handled before it, with a response nobody reads: that is what RequestFails
\* leaves after this.
Respond(m, status, session, commands) ==
  reply' = IF Awaited(m) /\ reply = NoReply THEN Response(status, session, commands) ELSE reply

HandledOnce == UNCHANGED <<plugin, honoured, restarts, executions, since>>

\* authenticate fails.
HandleUnauthorized(m) ==
  /\ m \in inbox
  /\ ~honoured
  /\ inbox' = inbox \ {m}
  /\ Respond(m, 401, None, {})
  /\ HandledOnce
  /\ UNCHANGED <<vars, ingested, taken>>

\* Every registration of the plugin says the same, so the one handled may be
\* an earlier one, and others may be under way still.
HandleRegister ==
  /\ RegisterRequest \in inbox
  /\ honoured
  /\ inbox' \in {inbox, inbox \ {RegisterRequest}}
  /\ \/ RegisterKnown(Self) \/ \E s \in SessionIds : RegisterNew(Self, s)
     \/ RegisterRefused(Self)
  /\ Respond(RegisterRequest, IF external'[Self] = None THEN 429 ELSE 200, external'[Self], {})
  /\ HandledOnce
  /\ UNCHANGED <<ingested, taken>>

\* A report the broker accepts: a fresh one or the last one again. The
\* request may be a copy, so it may stay in the network.
HandleReport(m) ==
  /\ m \in inbox \ {RegisterRequest}
  /\ honoured
  /\ inbox' \in {inbox, inbox \ {m}}
  /\ \/ /\ Report(m.session, m.sequence, m.results, Len(m.events))
        /\ ingested' = ingested \o m.events /\ taken' = m
     \/ /\ record[m.session].lastSequence = m.sequence
        /\ Len(m.events) <= MaxEventsPerReport
        /\ Cardinality(m.results) <= MaxResultsPerReport
        /\ ReportReplay(m.session)
        /\ UNCHANGED <<ingested, taken>>
  /\ Respond(m, 200, None, record'[m.session].lastResponse.commands)
  /\ HandledOnce

Refusal(m) ==
  IF Len(m.events) > MaxEventsPerReport \/ Cardinality(m.results) > MaxResultsPerReport THEN 400
  ELSE IF m.session \notin live THEN 404
  ELSE IF m.sequence < record[m.session].lastSequence THEN 409
  ELSE 200

HandleRefused(m) ==
  /\ m \in inbox \ {RegisterRequest}
  /\ honoured
  /\ Refusal(m) # 200
  /\ inbox' = inbox \ {m}
  /\ Respond(m, Refusal(m), None, {})
  /\ HandledOnce
  /\ UNCHANGED <<vars, ingested, taken>>

\* The daemon dies and starts again: the broker and its pairing state are in
\* memory only, connections break, callers inside the process are gone.
Restart ==
  /\ restarts < RestartBound
  /\ restarts' = restarts + 1
  /\ live' = {}
  /\ record' = [s \in SessionIds |-> EmptyRecord]
  /\ external' = [e \in Externals |-> None]
  /\ call' = [c \in Commands |-> IF call[c] \in {"waiting", "timedOut", "closed"}
                                 THEN "abandoned" ELSE call[c]]
  /\ honoured' = FALSE
  /\ inbox' = {}
  /\ reply' = NoReply
  /\ taken' = None
  /\ UNCHANGED <<backend, home, answeredBy, issued, delivered, plugin, executions, since, ingested>>

\* The daemon forgets the token: 12 hours passed, or 128 newer pairings.
TokenForgotten ==
  /\ honoured' = FALSE
  /\ UNCHANGED <<vars, plugin, inbox, reply, restarts, executions, since, ingested, taken>>

\* Everything else that happens at the broker: other Studio windows
\* registering, the host binding and calling, callers timing out or giving up.
OtherStudio(e) ==
  \/ RegisterKnown(e)
  \/ \E s \in SessionIds : RegisterNew(e, s)
  \/ RegisterRefused(e)

Host ==
  \/ \E e \in Externals \ {Self} : OtherStudio(e)
  \/ \E s \in SessionIds, b \in Bindings : BindSession(s, b)
  \/ \E s \in SessionIds : SessionGoesQuiet(s)
  \/ \E c \in Commands, s \in SessionIds : Call(c, s)
  \/ \E c \in Commands : CommandTimeout(c)
  \/ \E c \in Commands : CallerGone(c)
  \/ \E c \in Commands : RemoveCommand(c)
HostStep == Host /\ UNCHANGED linkVars

PluginStep ==
  \/ Pair
  \/ SendRegister
  \/ ReceiveRegistration
  \/ SendReport
  \/ ReceiveReportResponse
  \/ \E c \in Commands : ExecuteCommand(c)

HandleAwaited ==
  \/ Awaited(RegisterRequest) /\ HandleRegister
  \/ \E m \in inbox : Awaited(m) /\ (HandleUnauthorized(m) \/ HandleReport(m) \/ HandleRefused(m))

LinkNext ==
  \/ PluginStep
  \/ Retry
  \/ StudioEvent
  \/ RequestFails
  \/ HandleRegister
  \/ \E m \in inbox : HandleUnauthorized(m)
  \/ \E m \in inbox : HandleReport(m)
  \/ \E m \in inbox : HandleRefused(m)
  \/ Restart
  \/ TokenForgotten
  \/ HostStep

LinkSpec == LinkInit /\ [][LinkNext]_allVars

\* The coroutine is scheduled and RequestAsync returns; a request that is
\* tried again and again is eventually handled and its response received;
\* tokio's timers fire. The network may otherwise fail as it likes, and
\* nobody has to press Retry.
LinkFairness ==
  /\ WF_allVars(Pair) /\ WF_allVars(SendRegister) /\ WF_allVars(SendReport)
  /\ WF_allVars(RequestFails) /\ SF_allVars(HandleAwaited)
  /\ SF_allVars(ReceiveRegistration) /\ SF_allVars(ReceiveReportResponse)
  /\ WF_allVars(\E c \in Commands : ExecuteCommand(c))
  /\ \A c \in Commands :
       /\ WF_allVars(CommandTimeout(c) /\ UNCHANGED linkVars)
       /\ WF_allVars(RemoveCommand(c) /\ UNCHANGED linkVars)

LinkFairSpec == LinkSpec /\ LinkFairness

----------------------------------------------------------------------------
(* Properties                                                              *)

PendingIn(s) == plugin.pending # None /\ plugin.pending.session = s

Plugins ==
  [pc: {"top", "registering", "ready", "reporting"}, paired: BOOLEAN,
   session: SessionIds \cup {None}, sequence: 0..SequenceBound,
   pending: Reports \cup {None}, awaiting: Reports \cup {None, RegisterRequest},
   events: Seq(1..EventBound), results: SUBSET Commands, todo: SUBSET Commands,
   cache: Seq(Commands), nextEvent: 1..(EventBound + 1)]

Replies ==
  [status: {0, 200, 400, 401, 404, 409, 429}, session: SessionIds \cup {None},
   commands: SUBSET Commands]

LinkTypeOK ==
  /\ TypeOK
  /\ plugin \in Plugins
  /\ Len(plugin.events) <= MaxQueuedEvents
  /\ Len(plugin.cache) <= MaxCachedResults
  /\ inbox \subseteq Reports \cup {RegisterRequest}
  /\ reply \in Replies
  /\ honoured \in BOOLEAN
  /\ restarts \in 0..RestartBound
  /\ executions \in [Commands -> Nat]
  /\ since \in [Commands -> SUBSET Commands]
  /\ ingested \in Seq(1..EventBound)
  /\ taken \in Reports \cup {None}

\* An answered call was executed in Studio, by the session it named.
AnsweredWasExecuted == \A c \in Commands : call[c] = "answered" => executions[c] >= 1

\* The plugin caches results by command id "preventing duplicate execution
\* after a lost response" (STUDIO_COMPANION_BRIDGE.md:82), although leases are
\* redelivered by every response until a result arrives. The cache is bounded,
\* so this cannot be for ever: a command is executed again only when as many
\* others as the cache holds have been executed since, every one of them in
\* vain, because no caller has received its result.
RepeatedOnlyInVain ==
  [][\A c \in Commands : executions[c] >= 1 /\ executions'[c] # executions[c] =>
       /\ Cardinality(since[c]) >= MaxCachedResults
       /\ \A d \in since[c] : call[d] # "answered"]_allVars

\* Both: a call is answered only if its command was executed, and the command
\* is executed again only if nothing came of MaxCachedResults others.
ExecutedExactly == []AnsweredWasExecuted /\ RepeatedOnlyInVain

\* The broker takes every plugin event at most once and in the order the
\* plugin produced them, over retransmissions, late copies, re-registrations
\* and restarts (STUDIO_COMPANION_BRIDGE.md:80 "without ingesting events or
\* command results twice").
IngestedOnceInOrder ==
  \A i, j \in DOMAIN ingested : i < j => ingested[i] < ingested[j]

\* The plugin is never behind its own session: the report it will send next
\* cannot be refused as out of order. And one that repeats the last accepted
\* sequence, so that the broker answers it unread, is the report the broker took
\* last, event for event and result for result: nothing it carries is missed.
SequencesAgree ==
  \A s \in live : record[s].external = Self =>
    /\ record[s].lastSequence <= plugin.sequence
    /\ PendingIn(s) => plugin.pending.sequence >= record[s].lastSequence
    /\ \A m \in (inbox \ {RegisterRequest}) \cup ({plugin.pending} \ {None}) :
         m.session = s /\ m.sequence = record[s].lastSequence => m = taken

\* Between two restarts the daemon does what StudioBridge says a broker does:
\* in particular this plugin sends it nothing that the plugins of StudioBridge
\* do not send, such as a result of a command it was never sent.
ActsAsBroker == [][restarts' = restarts => [Next]_vars]_allVars

\* And what the callers of `call` are promised holds of the whole system: a
\* restart withdraws every command and ends every caller at once.
LinkImplementsCommandLeases == Contract!RestartableSpec

\* An uncertain report does not stay uncertain: it is acknowledged, or given
\* up with its token, unless the daemon has swept the session the plugin
\* reports to and still accepts its token.
Swept == honoured /\ plugin.session # None /\ plugin.session \notin live
RecoversUnlessSwept == (plugin.pending # None) ~> (plugin.pending = None \/ Swept)

\* The same with no exception: it is acknowledged or given up. Every refusal of
\* the bridge says it is recoverable (lib.rs:1116). That the token expires 12
\* hours later is no recovery: TokenForgotten and Retry have no fairness.
ReportsRecover == (plugin.pending # None) ~> (plugin.pending = None)

\* A caller never waits for ever: it is answered, told of the failure, or gone.
CallsSettle ==
  \A c \in Commands : call[c] = "waiting" ~> call[c] \in {"answered", "failed", "abandoned"}

=============================================================================
