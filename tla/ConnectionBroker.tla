--------------------------- MODULE ConnectionBroker ---------------------------
(***************************************************************************)
(* ConnectionBroker of crates/lattice-connections/src/lib.rs over the tool *)
(* catalog, with providers that behave as ExternalMcpProvider of           *)
(* crates/lattice-mcp/src/external_provider.rs.                            *)
(*                                                                         *)
(* No lock is held across two statements of the broker, so every lock      *)
(* section and every awaited provider operation is a step of its own and   *)
(* the calls of several tasks interleave.  A provider operation takes its  *)
(* effect in one step: the provider's own mutex is held until it is done.  *)
(* A future dropped by a timeout leaves the provider as it was, or with    *)
(* its child gone if the child had been taken out of the state.            *)
(*                                                                         *)
(* A call that returns without having changed anything is no step.         *)
(***************************************************************************)
EXTENDS ToolCatalog

CONSTANTS
    Tasks,          \* tasks that call the broker
    Listings,       \* what list_tools may answer
    Inputs,         \* arguments of a call
    Policy,         \* the tools PolicyEnforcer::authorize allows
    GlobalLimit,    \* permits of global_concurrency
    ProviderLimit,  \* permits of a slot's concurrency
    MaxConnections  \* bound on the connections opened

ASSUME BrokerAssumption ==
    /\ \A l \in Listings : l \in Seq(Tool)
    /\ Policy \subseteq Providers \X Names
    /\ IsFiniteSet(Tasks)
    /\ GlobalLimit \in Nat \ {0} /\ ProviderLimit \in Nat \ {0}
    /\ MaxConnections \in Nat

VARIABLES
    registry,   \* ProviderRegistry: the health of every provider
    slot,       \* slots: whether there is one, and its connection, 0 for None
    live,       \* ExternalMcpProvider.state: the connection of the child, or 0
    opened,     \* connections opened so far
    catalog,    \* ToolCatalog
    task,       \* what every task is doing
    cancelled,  \* tasks whose OperationCancellation was triggered
    torn,       \* providers whose last connect or disconnect overlapped
                \* another lifecycle operation or failed halfway
    raced       \* providers whose last import may not be the last reported

provs == <<registry, slot, live, opened>>
vars == <<provs, catalog, task, cancelled, torn, raced>>

Idle == [pc |-> "idle"]

\* The connection is announced, opened, stored and published, the tools are
\* listed, imported and reported; a connection is closed, cleared, retracted.
LifecyclePc == {"announce", "open", "store", "publish", "refresh", "list", "import", "report",
                "close", "clear", "retract"}
CallPc == {"checked", "waitGlobal", "waitProvider", "admitted", "dispatched"}

Health == [state: {"absent", "configured", "connecting", "connected", "disconnected"},
           healthy: BOOLEAN, revision: SUBSET Descriptor, toolCount: Nat]

Init == /\ registry = [p \in Providers |-> [state |-> "absent", healthy |-> FALSE,
                                            revision |-> {}, toolCount |-> 0]]
        /\ slot = [p \in Providers |-> [present |-> FALSE, conn |-> 0]]
        /\ live = [p \in Providers |-> 0]
        /\ opened = 0
        /\ catalog = EmptyCatalog
        /\ task = [t \in Tasks |-> Idle]
        /\ cancelled = {}
        /\ torn = {}
        /\ raced = {}

Lifecycle(p) == {t \in Tasks : task[t].pc \in LifecyclePc /\ task[t].provider = p}
Quiescent(p) == Lifecycle(p) = {}

At(t, pc) == task[t].pc = pc
Goto(t, pc) == task' = [task EXCEPT ![t].pc = pc]
Return(t) == task' = [task EXCEPT ![t] = Idle]
Tear(p) == torn' = torn \union {p}
SetHealth(p, state, healthy) ==
    registry' = [registry EXCEPT ![p].state = state, ![p].healthy = healthy]

(***************************************************************************)
(* register: the descriptor, then the slot.                                *)
(***************************************************************************)
Register(t, p) ==
    /\ At(t, "idle") /\ registry[p].state = "absent"
    /\ SetHealth(p, "configured", FALSE)
    /\ task' = [task EXCEPT ![t] = [pc |-> "insert", provider |-> p]]
    /\ UNCHANGED <<slot, live, opened, catalog, cancelled, torn, raced>>

InsertSlot(t) ==
    /\ At(t, "insert")
    /\ slot' = [slot EXCEPT ![task[t].provider] = [present |-> TRUE, conn |-> 0]]
    /\ Return(t)
    /\ UNCHANGED <<registry, live, opened, catalog, cancelled, torn, raced>>

(***************************************************************************)
(* connect, disconnect and refresh_catalog.  A lifecycle operation that    *)
(* starts while another one is under way disturbs both.                    *)
(***************************************************************************)
Start(t, p, pc) ==
    /\ At(t, "idle") /\ slot[p].present
    /\ task' = [task EXCEPT ![t] = [pc |-> pc, provider |-> p]]
    /\ raced' = IF Quiescent(p) THEN raced ELSE raced \union {p}
    /\ UNCHANGED <<provs, catalog, cancelled>>

\* connect returns the existing connection if there is one.
StartConnect(t, p) ==
    /\ slot[p].conn = 0
    /\ Start(t, p, "announce")
    /\ torn' = IF Quiescent(p) THEN torn \ {p} ELSE torn \union {p}

StartDisconnect(t, p) ==
    /\ Start(t, p, "close")
    /\ torn' = IF Quiescent(p) THEN torn \ {p} ELSE torn \union {p}

StartRefresh(t, p) ==
    /\ slot[p].conn # 0
    /\ Start(t, p, "list")
    /\ torn' = IF Quiescent(p) THEN torn ELSE torn \union {p}

Announce(t) ==
    /\ At(t, "announce")
    /\ registry' = [registry EXCEPT ![task[t].provider].state = "connecting"]
    /\ Goto(t, "open")
    /\ UNCHANGED <<slot, live, opened, catalog, cancelled, torn, raced>>

\* ToolProvider::connect.  MaxConnections bounds the model.
Open(t) ==
    LET p == task[t].provider
    IN  /\ At(t, "open") /\ live[p] = 0 /\ opened < MaxConnections
        /\ opened' = opened + 1
        /\ live' = [live EXCEPT ![p] = opened']
        /\ task' = [task EXCEPT ![t] = [pc |-> "store", provider |-> p, conn |-> opened']]
        /\ UNCHANGED <<registry, slot, catalog, cancelled, torn, raced>>

\* An error, a timeout, or "provider is already connected": connect returns and
\* the provider stays in Connecting.
OpenFails(t) ==
    /\ At(t, "open")
    /\ Tear(task[t].provider)
    /\ Return(t)
    /\ UNCHANGED <<provs, catalog, cancelled, raced>>

StoreForgotten(t) ==                 \* the connection is not kept
    /\ At(t, "store")
    /\ Goto(t, "publish")
    /\ UNCHANGED <<provs, catalog, cancelled, torn, raced>>

Store(t) ==
    /\ At(t, "store")
    /\ slot' = [slot EXCEPT ![task[t].provider].conn = task[t].conn]
    /\ Goto(t, "publish")
    /\ UNCHANGED <<registry, live, opened, catalog, cancelled, torn, raced>>

\* update_descriptor, which keeps the health, and set_connection_state.
Publish(t) ==
    /\ At(t, "publish")
    /\ SetHealth(task[t].provider, "connected", TRUE)
    /\ Goto(t, "refresh")
    /\ UNCHANGED <<slot, live, opened, catalog, cancelled, torn, raced>>

\* connect goes on with refresh_catalog, which looks at the slot again.
RefreshAfterConnect(t) ==
    /\ At(t, "refresh")
    /\ IF slot[task[t].provider].conn = 0 THEN Return(t) ELSE Goto(t, "list")
    /\ UNCHANGED <<provs, catalog, cancelled, torn, raced>>

ListTools(t, listing) ==
    LET p == task[t].provider
    IN  /\ At(t, "list") /\ live[p] # 0
        /\ task' = [task EXCEPT ![t] = [pc |-> "import", provider |-> p, listing |-> listing]]
        /\ UNCHANGED <<provs, catalog, cancelled, torn, raced>>

ListFails(t) ==
    /\ At(t, "list")
    /\ Return(t)
    /\ UNCHANGED <<provs, catalog, cancelled, torn, raced>>

\* ToolCatalog::refresh_provider under the catalog's lock.
Import(t) ==
    LET p == task[t].provider
    IN  /\ At(t, "import")
        /\ catalog' = RefreshProvider(catalog, p, task[t].listing)
        /\ IF AcceptsListing(task[t].listing)
           THEN /\ Goto(t, "report")
                /\ raced' = IF Lifecycle(p) = {t} THEN raced \ {p} ELSE raced
           ELSE /\ Return(t)
                /\ UNCHANGED raced
        /\ UNCHANGED <<provs, cancelled, torn>>

Report(t) ==
    LET p == task[t].provider
    IN  /\ At(t, "report")
        /\ registry' = [registry EXCEPT
                           ![p].revision = Revision(task[t].listing),
                           ![p].toolCount = Cardinality(Offered(task[t].listing))]
        /\ Return(t)
        /\ UNCHANGED <<slot, live, opened, catalog, cancelled, torn, raced>>

\* ToolProvider::disconnect takes the child out of the state first.
Close(t) ==
    /\ At(t, "close")
    /\ live' = [live EXCEPT ![task[t].provider] = 0]
    /\ Goto(t, "clear")
    /\ UNCHANGED <<registry, slot, opened, catalog, cancelled, torn, raced>>

CloseFails(t) ==
    LET p == task[t].provider
    IN  /\ At(t, "close")
        /\ live' \in {live, [live EXCEPT ![p] = 0]}
        /\ Tear(p)
        /\ Return(t)
        /\ UNCHANGED <<registry, slot, opened, catalog, cancelled, raced>>

Clear(t) ==
    /\ At(t, "clear")
    /\ slot' = [slot EXCEPT ![task[t].provider].conn = 0]
    /\ Goto(t, "retract")
    /\ UNCHANGED <<registry, live, opened, catalog, cancelled, torn, raced>>

Retract(t) ==
    /\ At(t, "retract")
    /\ SetHealth(task[t].provider, "disconnected", FALSE)
    /\ Return(t)
    /\ UNCHANGED <<slot, live, opened, catalog, cancelled, torn, raced>>

(***************************************************************************)
(* call.  Validation, availability and policy come before the slot and the *)
(* permits; the deadline starts, and a cancellation is seen, after them.   *)
(***************************************************************************)
Admissible(id, input) ==
    LET tool == catalog.tools[id]
    IN  /\ tool.availability = "available"
        /\ tool.input \in catalog.schemas
        /\ ValidInput(tool.input, input)
        /\ id \in Policy

StartCall(t, id, input) ==
    /\ At(t, "idle") /\ Admissible(id, input)
    /\ task' = [task EXCEPT ![t] = [pc |-> "checked", provider |-> id[1], tool |-> id,
                                    schema |-> catalog.tools[id].input, input |-> input]]
    /\ cancelled' = cancelled \ {t}
    /\ UNCHANGED <<provs, catalog, torn, raced>>

FindConnection(t) ==
    /\ At(t, "checked")
    /\ IF slot[task[t].provider].conn = 0 THEN Return(t) ELSE Goto(t, "waitGlobal")
    /\ UNCHANGED <<provs, catalog, cancelled, torn, raced>>

HoldsGlobal == {t \in Tasks : task[t].pc \in {"waitProvider", "admitted", "dispatched"}}
HoldsProvider(p) == {t \in Tasks : task[t].pc \in {"admitted", "dispatched"} /\ task[t].provider = p}

AcquireGlobal(t) ==
    /\ At(t, "waitGlobal") /\ Cardinality(HoldsGlobal) < GlobalLimit
    /\ Goto(t, "waitProvider")
    /\ UNCHANGED <<provs, catalog, cancelled, torn, raced>>

AcquireProviderUncounted(t) ==       \* the provider's semaphore forgotten
    /\ At(t, "waitProvider")
    /\ Goto(t, "admitted")
    /\ UNCHANGED <<provs, catalog, cancelled, torn, raced>>

AcquireProvider(t) ==
    /\ At(t, "waitProvider") /\ Cardinality(HoldsProvider(task[t].provider)) < ProviderLimit
    /\ Goto(t, "admitted")
    /\ UNCHANGED <<provs, catalog, cancelled, torn, raced>>

Cancel(t) ==
    /\ task[t].pc \in CallPc /\ t \notin cancelled
    /\ cancelled' = cancelled \union {t}
    /\ UNCHANGED <<provs, catalog, task, torn, raced>>

Dispatch(t) ==
    /\ At(t, "admitted")
    /\ IF t \in cancelled THEN Return(t) ELSE Goto(t, "dispatched")
    /\ UNCHANGED <<provs, catalog, cancelled, torn, raced>>

\* The provider answered, failed or ran into the deadline, or the cancellation
\* won the select: one terminal result, and both permits are released.
Finish(t) ==
    /\ At(t, "dispatched")
    /\ Return(t)
    /\ UNCHANGED <<provs, catalog, cancelled, torn, raced>>

Connecting(t) == \/ \E p \in Providers : StartConnect(t, p)
                 \/ Announce(t) \/ Open(t) \/ OpenFails(t) \/ Store(t) \/ Publish(t)
                 \/ RefreshAfterConnect(t)

Refreshing(t) == \/ \E p \in Providers : StartRefresh(t, p)
                 \/ \E l \in Listings : ListTools(t, l)
                 \/ ListFails(t) \/ Import(t) \/ Report(t)

Disconnecting(t) == \/ \E p \in Providers : StartDisconnect(t, p)
                    \/ Close(t) \/ CloseFails(t) \/ Clear(t) \/ Retract(t)

Calling(t) == \/ \E id \in Providers \X Names, input \in Inputs : StartCall(t, id, input)
              \/ FindConnection(t) \/ AcquireGlobal(t) \/ AcquireProvider(t) \/ Cancel(t)
              \/ Dispatch(t) \/ Finish(t)

Next == \E t \in Tasks : \/ \E p \in Providers : Register(t, p)
                         \/ InsertSlot(t)
                         \/ Connecting(t) \/ Refreshing(t) \/ Disconnecting(t) \/ Calling(t)

Spec == Init /\ [][Next]_vars

(***************************************************************************)
(* Properties.                                                             *)
(***************************************************************************)
TaskType ==
    {Idle}
    \union [pc: (LifecyclePc \ {"store", "import", "report"}) \union {"insert"}, provider: Providers]
    \union [pc: {"store", "publish", "refresh", "list"}, provider: Providers, conn: 1..MaxConnections]
    \union [pc: {"import", "report"}, provider: Providers, listing: Listings]
    \union [pc: CallPc, provider: Providers, tool: Providers \X Names, schema: Schemas,
            input: Inputs]

\* The broker's state and every task's are of their types.
BrokerTypeOK ==
    /\ registry \in [Providers -> Health]
    /\ slot \in [Providers -> [present: BOOLEAN, conn: 0..MaxConnections]]
    /\ live \in [Providers -> 0..MaxConnections]
    /\ opened \in 0..MaxConnections
    /\ catalog \in Catalog
    /\ task \in [Tasks -> TaskType]
    /\ cancelled \subseteq Tasks
    /\ torn \subseteq Providers /\ raced \subseteq Providers

\* A search lists exactly what the providers last offered, whichever imports
\* were refused, removed tools or were overtaken by another task's.
CatalogConsistent == CatalogSound(catalog)

\* While no lifecycle operation is under way, a provider whose last connect or
\* disconnect ran alone and to its end is shown as it is: the connection in its
\* slot is the one its child serves, and the registry says connected exactly if
\* there is one.
ConnectionShown ==
    \A p \in Providers \ torn :
        slot[p].present /\ Quiescent(p) =>
            /\ slot[p].conn = live[p]
            /\ registry[p].healthy = (live[p] # 0)
            /\ IF live[p] = 0 THEN registry[p].state \in {"configured", "disconnected"}
                              ELSE registry[p].state = "connected"

\* And the health of a provider reports the catalog revision and the number of
\* tools of the last import, unless another operation overlapped that one.
RevisionShown ==
    \A p \in Providers \ raced :
        Quiescent(p) => /\ registry[p].revision = catalog.revision[p]
                        /\ registry[p].toolCount = Cardinality(catalog.offered[p])

ConnectionHonest == ConnectionShown /\ RevisionShown

\* The calls at the providers stay within the permits, and each was validated,
\* against a schema that can still be looked up whatever was imported since,
\* and allowed.
CallsAdmitted ==
    LET dispatched == {t \in Tasks : At(t, "dispatched")}
    IN  /\ Cardinality(dispatched) <= GlobalLimit
        /\ \A p \in Providers :
              Cardinality({t \in dispatched : task[t].provider = p}) <= ProviderLimit
        /\ \A t \in dispatched : /\ task[t].schema \in catalog.schemas
                                 /\ ValidInput(task[t].schema, task[t].input)
                                 /\ task[t].tool \in Policy

\* A capability routes to a tool whose provider has a live connection, unless
\* its lifecycle was disturbed, and that the last accepted listing offered.
RoutedIsCallable ==
    LET connected == {p \in Providers : registry[p].state = "connected"}
    IN  \A preferred \in Providers \union {NoPreference} :
            LET id == Route(catalog, connected, preferred)
            IN  id # NoTool =>
                    /\ id[2] \in catalog.offered[id[1]] \intersect Semantic
                    /\ Quiescent(id[1]) /\ id[1] \notin torn => slot[id[1]].conn = live[id[1]]
                                                               /\ live[id[1]] # 0
=============================================================================
