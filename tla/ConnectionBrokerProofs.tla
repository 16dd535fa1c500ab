----------------------- MODULE ConnectionBrokerProofs -----------------------
(***************************************************************************)
(* Proofs about ConnectionBroker, and the catalog it refreshes, for every  *)
(* number of providers, tools, tasks and connections.                      *)
(***************************************************************************)
EXTENDS ConnectionBroker, FiniteSetTheorems, TLAPS

----------------------------------------------------------------------------
(* The catalog                                                             *)

\* What an accepted listing offers is named, and its schemas are good.
LEMMA AcceptedTools ==
  ASSUME NEW listing \in Seq(Tool), AcceptsListing(listing), NEW i \in DOMAIN listing
  PROVE  /\ listing[i] \in Descriptor
         /\ listing[i] = [name |-> listing[i].name, input |-> listing[i].input,
                          output |-> listing[i].output]
         /\ {listing[i].input, listing[i].output} \ {NoSchema} \subseteq Registered(listing)
  <1>1. listing[i] \in Tool /\ DOMAIN listing \subseteq Nat
    OBVIOUS
  <1>2. ~Refused(listing, i)
    BY DEF AcceptsListing
  <1>3. listing[i] \in Descriptor
    BY <1>1, <1>2, CatalogAssumption DEF Refused, RefusedName, Tool, Descriptor
  <1>4. \A j \in 1..i-1 : j \in DOMAIN listing
    OBVIOUS
  <1>5. i \in {k \in DOMAIN listing : /\ \A j \in 1..k-1 : ~Refused(listing, j)
                                      /\ ~RefusedName(listing, k)
                                      /\ listing[k].input # BadSchema}
    BY <1>2, <1>4 DEF AcceptsListing, Refused
  <1>6. {listing[i].input, listing[i].output} \ {BadSchema, NoSchema} \subseteq Registered(listing)
    BY <1>5 DEF Registered
  <1>7. BadSchema \notin {listing[i].input, listing[i].output}
    BY <1>2 DEF Refused
  <1> QED BY <1>1, <1>3, <1>6, <1>7 DEF Tool

LEMMA RegisteredType ==
  ASSUME NEW listing \in Seq(Tool)
  PROVE  Registered(listing) \in SUBSET Schemas
  <1>1. \A i \in DOMAIN listing :
          {listing[i].input, listing[i].output} \ {BadSchema, NoSchema} \subseteq Schemas
    <2>1. \A i \in DOMAIN listing : listing[i] \in Tool
      OBVIOUS
    <2>2. \A tool \in Tool : {tool.input, tool.output} \ {BadSchema, NoSchema} \subseteq Schemas
      BY DEF Tool
    <2> QED BY <2>1, <2>2
  <1> QED BY <1>1 DEF Registered

\* The listed tool a name is imported from.
LEMMA OfferedFrom ==
  ASSUME NEW listing \in Seq(Tool), AcceptsListing(listing), NEW name \in Offered(listing),
         NEW i, i = CHOOSE k \in DOMAIN listing : listing[k].name = name
  PROVE  /\ i \in DOMAIN listing /\ listing[i].name = name
         /\ listing[i] \in Descriptor
         /\ [name |-> name, input |-> listing[i].input, output |-> listing[i].output]
              \in Revision(listing)
         /\ {listing[i].input, listing[i].output} \ {NoSchema} \subseteq Registered(listing)
  <1>1. i \in DOMAIN listing /\ listing[i].name = name
    BY DEF Offered
  <1>2. listing[i] \in Revision(listing)
    BY <1>1 DEF Revision
  <1> QED BY <1>1, <1>2, AcceptedTools


LEMMA RefreshedType ==
  ASSUME NEW c \in Catalog, CatalogSound(c), NEW p \in Providers,
         NEW listing \in Seq(Tool), AcceptsListing(listing), NEW id \in Providers \X Names
  PROVE  LET tool == RefreshedTools(c, p, listing)[id]
             again == id[1] = p /\ id[2] \in Offered(listing)
         IN  /\ tool \in {Unknown} \union [input: Schemas, output: Schemas \union {NoSchema},
                                           availability: {"available", "unavailable"}]
             /\ tool.availability = "available" <=>
                  again \/ (id[1] # p /\ c.tools[id].availability = "available")
             /\ again => /\ [name |-> id[2], input |-> tool.input, output |-> tool.output]
                              \in Revision(listing)
                         /\ {tool.input, tool.output} \ {NoSchema} \subseteq Registered(listing)
             /\ ~again => /\ tool.input = c.tools[id].input /\ tool.output = c.tools[id].output
                          /\ tool # Unknown => c.tools[id] # Unknown
  <1> DEFINE tool == RefreshedTools(c, p, listing)[id]
             old == c.tools[id]
             k == CHOOSE i \in DOMAIN listing : listing[i].name = id[2]
             offeredThen == id[1] = p /\ id[2] \in c.offered[p]
  <1>1. /\ DOMAIN c.tools = Providers \X Names
        /\ old \in {Unknown} \union [input: Schemas, output: Schemas \union {NoSchema},
                                     availability: {"available", "unavailable"}]
        /\ c.offered[id[1]] \subseteq Names
    BY DEF Catalog
  <1>2. old.availability = "available" <=> id[2] \in c.offered[id[1]]
    BY <1>1 DEF CatalogSound, ActiveTools
  <1>3. CASE id[1] = p /\ id[2] \in Offered(listing)
    <2>1. tool = [input |-> listing[k].input, output |-> listing[k].output,
                  availability |-> "available"]
      BY <1>1, <1>3 DEF RefreshedTools
    <2>2. /\ listing[k] \in Descriptor
          /\ [name |-> id[2], input |-> listing[k].input, output |-> listing[k].output]
               \in Revision(listing)
          /\ {listing[k].input, listing[k].output} \ {NoSchema} \subseteq Registered(listing)
      BY <1>3, OfferedFrom
    <2> HIDE DEF tool, k
    <2>3. tool \in [input: Schemas, output: Schemas \union {NoSchema},
                    availability: {"available", "unavailable"}]
      BY <2>1, <2>2 DEF Descriptor
    <2> QED BY <1>3, <2>1, <2>2, <2>3 DEF tool
  <1>4. CASE /\ id[1] = p /\ id[2] \notin Offered(listing) /\ id[2] \in c.offered[p]
    <2>1. tool = [old EXCEPT !.availability = "unavailable"]
      BY <1>1, <1>4 DEF RefreshedTools
    <2>2. old \in [input: Schemas, output: Schemas \union {NoSchema},
                   availability: {"available", "unavailable"}]
      BY <1>1, <1>2, <1>4 DEF Unknown
    <2>3. old # Unknown
      BY <1>2, <1>4 DEF Unknown
    <2> HIDE DEF tool, old
    <2>4. /\ tool \in [input: Schemas, output: Schemas \union {NoSchema},
                       availability: {"available", "unavailable"}]
          /\ tool.availability = "unavailable" /\ tool.input = old.input /\ tool.output = old.output
      BY <2>1, <2>2
    <2> QED BY <1>4, <2>3, <2>4 DEF tool, old
  <1>5. CASE ~(id[1] = p /\ id[2] \in Offered(listing)) /\ ~(id[1] = p /\ id[2] \in c.offered[p])
    <2>1. tool = old
      BY <1>1, <1>5 DEF RefreshedTools
    <2> HIDE DEF tool, old
    <2> QED BY <1>1, <1>2, <1>5, <2>1 DEF tool, old
  <1> QED BY <1>3, <1>4, <1>5

\* An import keeps the catalog sound, accepted or refused.
LEMMA RefreshSound ==
  ASSUME NEW c \in Catalog, CatalogSound(c), NEW p \in Providers, NEW listing \in Seq(Tool)
  PROVE  /\ RefreshProvider(c, p, listing) \in Catalog
         /\ CatalogSound(RefreshProvider(c, p, listing))
         /\ c.schemas \subseteq RefreshProvider(c, p, listing).schemas
  <1> DEFINE d == RefreshProvider(c, p, listing)
  <1>0. Registered(listing) \in SUBSET Schemas
    BY RegisteredType
  <1>1. CASE ~AcceptsListing(listing)
    <2>1. d = [c EXCEPT !.schemas = @ \union Registered(listing)]
      BY <1>1 DEF RefreshProvider
    <2> HIDE DEF d
    <2>2. /\ d.tools = c.tools /\ d.offered = c.offered /\ d.revision = c.revision
          /\ d.schemas = c.schemas \union Registered(listing)
          /\ d \in Catalog
      BY <1>0, <2>1 DEF Catalog
    <2>3. CatalogSound(d)
      BY <2>2 DEF CatalogSound, ActiveTools, Known
    <2> QED BY <2>2, <2>3 DEF d
  <1>2. CASE AcceptsListing(listing)
    <2>1. /\ d = [tools |-> RefreshedTools(c, p, listing),
                  offered |-> [c.offered EXCEPT ![p] = Offered(listing)],
                  schemas |-> c.schemas \union Registered(listing),
                  revision |-> [c.revision EXCEPT ![p] = Revision(listing)]]
      BY <1>2 DEF RefreshProvider
    <2>2. Offered(listing) \subseteq Names /\ Revision(listing) \subseteq Descriptor
      <3>1. \A i \in DOMAIN listing : listing[i] \in Descriptor
        BY <1>2, AcceptedTools
      <3> QED BY <3>1 DEF Offered, Revision, Descriptor
    <2>3. DOMAIN c.tools = Providers \X Names /\ DOMAIN d.tools = Providers \X Names
      BY <2>1 DEF Catalog, RefreshedTools
    <2>4. /\ c.offered \in [Providers -> SUBSET Names]
          /\ c.revision \in [Providers -> SUBSET Descriptor]
          /\ c.schemas \in SUBSET Schemas
      BY DEF Catalog
    <2> HIDE DEF d
    <2>5. d.tools \in [Providers \X Names ->
                         {Unknown} \union [input: Schemas, output: Schemas \union {NoSchema},
                                           availability: {"available", "unavailable"}]]
      <3>1. \A id \in Providers \X Names : d.tools[id] \in
              {Unknown} \union [input: Schemas, output: Schemas \union {NoSchema},
                                availability: {"available", "unavailable"}]
        BY <1>2, <2>1, RefreshedType
      <3>2. d.tools = [id \in Providers \X Names |-> d.tools[id]]
        BY <2>1, <2>3 DEF RefreshedTools
      <3> QED BY <3>1, <3>2
    <2>6. d \in Catalog
      BY <1>0, <2>1, <2>2, <2>4, <2>5 DEF Catalog
    <2> DEFINE again(id) == id[1] = p /\ id[2] \in Offered(listing)
    <2>again. ASSUME NEW id \in Providers \X Names
          PROVE  /\ d.tools[id].availability = "available" <=>
                      again(id) \/ (id[1] # p /\ c.tools[id].availability = "available")
                 /\ again(id) =>
                      /\ [name |-> id[2], input |-> d.tools[id].input, output |-> d.tools[id].output]
                           \in Revision(listing)
                      /\ {d.tools[id].input, d.tools[id].output} \ {NoSchema}
                           \subseteq Registered(listing)
                 /\ ~again(id) =>
                      /\ d.tools[id].input = c.tools[id].input
                      /\ d.tools[id].output = c.tools[id].output
                      /\ d.tools[id] # Unknown => c.tools[id] # Unknown
      <3>1. d.tools[id] = RefreshedTools(c, p, listing)[id]
        BY <2>1
      <3> QED BY <1>2, <3>1, RefreshedType
    <2>7. ActiveTools(d) = {id \in Providers \X Names : id[2] \in d.offered[id[1]]}
      <3>1. ASSUME NEW id \in Providers \X Names
            PROVE  d.tools[id].availability = "available" <=> id[2] \in d.offered[id[1]]
        <4>1. d.tools[id].availability = "available" <=>
                (id[1] = p /\ id[2] \in Offered(listing))
                  \/ (id[1] # p /\ c.tools[id].availability = "available")
          BY <2>again
        <4>2. c.tools[id].availability = "available" <=> id[2] \in c.offered[id[1]]
          BY <2>3 DEF CatalogSound, ActiveTools
        <4>3. d.offered[id[1]] = IF id[1] = p THEN Offered(listing) ELSE c.offered[id[1]]
          BY <2>1, <2>4
        <4> QED BY <4>1, <4>2, <4>3
      <3> QED BY <2>3, <3>1 DEF ActiveTools
    <2>8. ASSUME NEW id \in ActiveTools(d)
          PROVE  [name |-> id[2], input |-> d.tools[id].input, output |-> d.tools[id].output]
                   \in d.revision[id[1]]
      <3>1. id \in Providers \X Names /\ d.tools[id].availability = "available"
        BY <2>3 DEF ActiveTools
      <3>2. CASE id[1] = p /\ id[2] \in Offered(listing)
        <4>1. d.revision[id[1]] = Revision(listing)
          BY <2>1, <2>4, <3>2
        <4> QED BY <2>again, <3>1, <3>2, <4>1
      <3>3. CASE ~(id[1] = p /\ id[2] \in Offered(listing))
        <4>1. /\ id[1] # p /\ c.tools[id].availability = "available"
              /\ d.tools[id].input = c.tools[id].input /\ d.tools[id].output = c.tools[id].output
          BY <2>again, <3>1, <3>3
        <4>2. id \in ActiveTools(c)
          BY <2>3, <3>1, <4>1 DEF ActiveTools
        <4>3. d.revision[id[1]] = c.revision[id[1]]
          BY <2>1, <2>4, <3>1, <4>1
        <4> QED BY <4>1, <4>2, <4>3 DEF CatalogSound
      <3> QED BY <3>2, <3>3
    <2>9. ASSUME NEW id \in DOMAIN d.tools, Known(d, id)
          PROVE  {d.tools[id].input, d.tools[id].output} \ {NoSchema} \subseteq d.schemas
      <3>1. id \in Providers \X Names /\ d.tools[id] # Unknown
        BY <2>3, <2>9 DEF Known
      <3>2. CASE id[1] = p /\ id[2] \in Offered(listing)
        <4>1. {d.tools[id].input, d.tools[id].output} \ {NoSchema} \subseteq Registered(listing)
          BY <2>again, <3>1, <3>2
        <4> QED BY <2>1, <4>1
      <3>3. CASE ~(id[1] = p /\ id[2] \in Offered(listing))
        <4>1. /\ c.tools[id] # Unknown
              /\ d.tools[id].input = c.tools[id].input /\ d.tools[id].output = c.tools[id].output
          BY <2>again, <3>1, <3>3
        <4>2. {c.tools[id].input, c.tools[id].output} \ {NoSchema} \subseteq c.schemas
          BY <2>3, <3>1, <4>1 DEF CatalogSound, Known
        <4> QED BY <2>1, <4>1, <4>2
      <3> QED BY <3>2, <3>3
    <2>10. CatalogSound(d)
      BY <2>7, <2>8, <2>9 DEF CatalogSound
    <2>11. c.schemas \subseteq d.schemas
      BY <2>1
    <2> QED BY <2>6, <2>10, <2>11 DEF d
  <1> QED BY <1>1, <1>2

----------------------------------------------------------------------------
(* Types                                                                   *)

\* What the pc of a task says about its fields.
LEMMA TaskShape ==
  ASSUME NEW x \in TaskType
  PROVE  /\ x.pc \in LifecyclePc \union {"insert"} => x.provider \in Providers
         /\ x.pc = "store" => x.conn \in 1..MaxConnections
         /\ x.pc \in {"import", "report"} =>
              x \in [pc: {"import", "report"}, provider: Providers, listing: Listings]
         /\ x.pc \in CallPc =>
              x \in [pc: CallPc, provider: Providers, tool: Providers \X Names, schema: Schemas,
                     input: Inputs]
         /\ x.pc \in {"idle", "insert"} \union LifecyclePc \union CallPc
  BY DEF TaskType, Idle, LifecyclePc, CallPc

LEMMA GotoType ==
  ASSUME NEW x \in TaskType, NEW pc,
         \/ x.pc \in {"announce", "publish", "refresh", "close", "clear"}
              /\ pc \in {"open", "refresh", "list", "clear", "retract"}
         \/ x.pc = "store" /\ pc = "publish"
         \/ x.pc = "import" /\ pc = "report"
         \/ x.pc \in CallPc /\ pc \in CallPc,
         x.pc = "announce" => pc = "open", x.pc = "publish" => pc = "refresh",
         x.pc = "refresh" => pc = "list", x.pc = "close" => pc = "clear",
         x.pc = "clear" => pc = "retract"
  PROVE  [x EXCEPT !.pc = pc] \in TaskType
  <1>1. CASE x = Idle
    BY <1>1 DEF Idle, CallPc
  <1>2. CASE x \in [pc: (LifecyclePc \ {"store", "import", "report"}) \union {"insert"},
                    provider: Providers]
    BY <1>2 DEF TaskType, LifecyclePc, CallPc
  <1>3. CASE x \in [pc: {"store", "publish", "refresh", "list"}, provider: Providers,
                    conn: 1..MaxConnections]
    BY <1>3 DEF TaskType, CallPc
  <1>4. CASE x \in [pc: {"import", "report"}, provider: Providers, listing: Listings]
    BY <1>4 DEF TaskType, CallPc
  <1>5. CASE x \in [pc: CallPc, provider: Providers, tool: Providers \X Names, schema: Schemas,
                    input: Inputs]
    BY <1>5 DEF TaskType, CallPc
  <1> QED BY <1>1, <1>2, <1>3, <1>4, <1>5 DEF TaskType

\* The tasks an action starts.
LEMMA StartedType ==
  ASSUME NEW p \in Providers
  PROVE  /\ Idle \in TaskType
         /\ \A pc \in {"insert", "announce", "close", "list"} :
              [pc |-> pc, provider |-> p] \in TaskType
         /\ \A n \in 1..MaxConnections : [pc |-> "store", provider |-> p, conn |-> n] \in TaskType
         /\ \A l \in Listings : [pc |-> "import", provider |-> p, listing |-> l] \in TaskType
         /\ \A id \in Providers \X Names, s \in Schemas, i \in Inputs :
              [pc |-> "checked", provider |-> id[1], tool |-> id, schema |-> s, input |-> i]
                \in TaskType
  BY DEF TaskType, LifecyclePc, CallPc

\* The type invariant, with what the import needs of the catalog.
TypeInv ==
  /\ BrokerTypeOK
  /\ CatalogSound(catalog)
  /\ \A t \in Tasks : task[t].pc = "report" => AcceptsListing(task[t].listing)

LEMMA BrokerInit == Init => TypeInv
  <1> SUFFICES ASSUME Init PROVE TypeInv
    OBVIOUS
  <1>1. EmptyCatalog \in Catalog
    BY DEF EmptyCatalog, Catalog
  <1>2. CatalogSound(EmptyCatalog)
    BY DEF CatalogSound, EmptyCatalog, ActiveTools, Known, Unknown
  <1>3. MaxConnections \in Nat
    BY BrokerAssumption
  <1>4. registry \in [Providers -> Health]
    BY DEF Init, Health
  <1> QED BY <1>1, <1>2, <1>3, <1>4 DEF Init, TypeInv, BrokerTypeOK, TaskType, Idle

LEMMA HealthType ==
  ASSUME NEW h \in Health
  PROVE  /\ \A state \in {"absent", "configured", "connecting", "connected", "disconnected"},
               healthy \in BOOLEAN :
              /\ [h EXCEPT !.state = state, !.healthy = healthy] \in Health
              /\ [h EXCEPT !.state = state] \in Health
         /\ \A revision \in SUBSET Descriptor, n \in Nat :
              [h EXCEPT !.revision = revision, !.toolCount = n] \in Health
  BY DEF Health

\* The updates of a slot and of the live connections.
LEMMA SlotType ==
  ASSUME NEW f \in [Providers -> [present: BOOLEAN, conn: 0..MaxConnections]],
         NEW g \in [Providers -> 0..MaxConnections], NEW p, NEW n \in 0..MaxConnections
  PROVE  /\ [f EXCEPT ![p].conn = n] \in [Providers -> [present: BOOLEAN, conn: 0..MaxConnections]]
         /\ [f EXCEPT ![p] = [present |-> TRUE, conn |-> n]]
              \in [Providers -> [present: BOOLEAN, conn: 0..MaxConnections]]
         /\ [g EXCEPT ![p] = n] \in [Providers -> 0..MaxConnections]
  OBVIOUS

\* What an accepted listing reports.
LEMMA ReportedType ==
  ASSUME NEW listing \in Seq(Tool)
  PROVE  Cardinality(Offered(listing)) \in Nat
  <1>1. DOMAIN listing = 1..Len(listing) /\ Len(listing) \in Nat
    OBVIOUS
  <1>2. IsFiniteSet(1..Len(listing))
    BY <1>1, FS_Interval
  <1> DEFINE f == [i \in 1..Len(listing) |-> listing[i].name]
  <1>3. f \in Surjection(1..Len(listing), Offered(listing))
    BY <1>1 DEF Surjection, Offered
  <1>4. IsFiniteSet(Offered(listing))
    BY <1>2, <1>3, FS_Surjection
  <1> QED BY <1>4, FS_CardinalityType


\* A step that moves one task and leaves the catalog alone.
LEMMA TaskMoves ==
  ASSUME TypeInv, NEW t \in Tasks, NEW x \in TaskType, x.pc # "report",
         task' = [task EXCEPT ![t] = x], catalog' = catalog,
         registry' \in [Providers -> Health],
         slot' \in [Providers -> [present: BOOLEAN, conn: 0..MaxConnections]],
         live' \in [Providers -> 0..MaxConnections], opened' \in 0..MaxConnections,
         cancelled' \subseteq Tasks, torn' \subseteq Providers, raced' \subseteq Providers
  PROVE  TypeInv'
  BY DEF TypeInv, BrokerTypeOK

LEMMA BrokerStep ==
  ASSUME TypeInv, [Next]_vars
  PROVE  TypeInv' /\ catalog.schemas \subseteq catalog'.schemas
  <1>0. /\ registry \in [Providers -> Health]
        /\ slot \in [Providers -> [present: BOOLEAN, conn: 0..MaxConnections]]
        /\ live \in [Providers -> 0..MaxConnections]
        /\ opened \in 0..MaxConnections /\ MaxConnections \in Nat
        /\ catalog \in Catalog /\ CatalogSound(catalog)
        /\ task \in [Tasks -> TaskType]
        /\ cancelled \subseteq Tasks /\ torn \subseteq Providers /\ raced \subseteq Providers
        /\ Idle \in TaskType /\ Idle.pc # "report"
        /\ 0 \in 0..MaxConnections /\ \A n \in 1..MaxConnections : n \in 0..MaxConnections
    BY BrokerAssumption DEF TypeInv, BrokerTypeOK, TaskType, Idle
  <1>shape. ASSUME NEW t \in Tasks
            PROVE  /\ task[t].pc \in LifecyclePc \union {"insert"} => task[t].provider \in Providers
                   /\ task[t].pc = "store" => task[t].conn \in 1..MaxConnections
                   /\ task[t].pc \in {"import", "report"} => task[t].listing \in Listings
    BY <1>0, TaskShape
  <1>1. ASSUME NEW t \in Tasks, NEW p \in Providers, Register(t, p) PROVE TypeInv'
    <2> DEFINE x == [pc |-> "insert", provider |-> p]
    <2>1. x \in TaskType /\ x.pc # "report"
      BY StartedType
    <2>2. registry' \in [Providers -> Health]
      BY <1>0, <1>1, HealthType DEF Register, SetHealth
    <2>3. task' = [task EXCEPT ![t] = x] /\ catalog' = catalog
      BY <1>1 DEF Register
    <2> HIDE DEF x
    <2> QED BY <1>0, <1>1, <2>1, <2>2, <2>3, TaskMoves DEF Register
  <1>2. ASSUME NEW t \in Tasks, InsertSlot(t) PROVE TypeInv'
    <2>1. slot' \in [Providers -> [present: BOOLEAN, conn: 0..MaxConnections]]
      BY <1>0, <1>2, SlotType DEF InsertSlot
    <2> QED BY <1>0, <1>2, <2>1, TaskMoves DEF InsertSlot, Return
  <1>3. ASSUME NEW t \in Tasks, NEW p \in Providers, NEW pc \in {"announce", "close", "list"},
               Start(t, p, pc), torn' \subseteq Providers
        PROVE  TypeInv'
    <2> DEFINE x == [pc |-> pc, provider |-> p]
    <2>1. x \in TaskType /\ x.pc # "report"
      BY StartedType
    <2>2. task' = [task EXCEPT ![t] = x]
      BY <1>3 DEF Start
    <2> HIDE DEF x
    <2> QED BY <1>0, <1>3, <2>1, <2>2, TaskMoves DEF Start, provs
  <1>4. ASSUME NEW t \in Tasks,
               \E p \in Providers : StartConnect(t, p) \/ StartDisconnect(t, p) \/ StartRefresh(t, p)
        PROVE  TypeInv'
    BY <1>0, <1>3, <1>4 DEF StartConnect, StartDisconnect, StartRefresh
  <1>5. ASSUME NEW t \in Tasks, NEW pc \in {"open", "refresh", "list", "clear", "retract", "publish"}
                                  \union CallPc,
               Goto(t, pc), [task[t] EXCEPT !.pc = pc] \in TaskType, catalog' = catalog,
               registry' \in [Providers -> Health],
               slot' \in [Providers -> [present: BOOLEAN, conn: 0..MaxConnections]],
               live' \in [Providers -> 0..MaxConnections], UNCHANGED <<opened, cancelled, torn, raced>>
        PROVE  TypeInv'
    <2> DEFINE x == [task[t] EXCEPT !.pc = pc]
    <2>1. x.pc = pc
      BY <1>0 DEF TaskType, Idle
    <2>2. task' = [task EXCEPT ![t] = x]
      BY <1>0, <1>5 DEF Goto
    <2> HIDE DEF x
    <2> QED BY <1>0, <1>5, <2>1, <2>2, TaskMoves DEF x, CallPc
  <1>6. ASSUME NEW t \in Tasks, Announce(t) PROVE TypeInv'
    <2>1. registry' \in [Providers -> Health]
      BY <1>0, <1>6, HealthType DEF Announce
    <2>2. [task[t] EXCEPT !.pc = "open"] \in TaskType
      BY <1>0, <1>6, GotoType DEF Announce, At
    <2> QED BY <1>0, <1>5, <1>6, <2>1, <2>2 DEF Announce
  <1>7. ASSUME NEW t \in Tasks, Open(t) PROVE TypeInv'
    <2> DEFINE x == [pc |-> "store", provider |-> task[t].provider, conn |-> opened']
    <2>1. task[t].provider \in Providers
      BY <1>7, <1>shape DEF Open, At, LifecyclePc
    <2>2. opened' \in 1..MaxConnections
      BY <1>0, <1>7 DEF Open
    <2>3. x \in TaskType /\ x.pc # "report"
      BY <2>1, <2>2, StartedType
    <2>4. live' \in [Providers -> 0..MaxConnections] /\ opened' \in 0..MaxConnections
      BY <1>0, <1>7, <2>2, SlotType DEF Open
    <2>5. task' = [task EXCEPT ![t] = x] /\ UNCHANGED <<registry, slot, catalog, cancelled, torn, raced>>
      BY <1>7 DEF Open
    <2> HIDE DEF x
    <2> QED BY <1>0, <2>3, <2>4, <2>5 DEF TypeInv, BrokerTypeOK
  <1>8. ASSUME NEW t \in Tasks, Return(t), UNCHANGED <<opened, catalog, cancelled, raced>>,
               registry' \in [Providers -> Health],
               slot' \in [Providers -> [present: BOOLEAN, conn: 0..MaxConnections]],
               live' \in [Providers -> 0..MaxConnections], torn' \subseteq Providers
        PROVE  TypeInv'
    BY <1>0, <1>8, TaskMoves DEF Return
  <1>9. ASSUME NEW t \in Tasks, OpenFails(t) PROVE TypeInv'
    BY <1>0, <1>8, <1>9, <1>shape DEF OpenFails, Tear, At, LifecyclePc, provs
  <1>10. ASSUME NEW t \in Tasks, Store(t) PROVE TypeInv'
    <2>1. task[t].conn \in 1..MaxConnections
      BY <1>10, <1>shape DEF Store, At
    <2>2. slot' \in [Providers -> [present: BOOLEAN, conn: 0..MaxConnections]]
      BY <1>0, <1>10, <2>1, SlotType DEF Store
    <2>3. [task[t] EXCEPT !.pc = "publish"] \in TaskType
      BY <1>0, <1>10, GotoType DEF Store, At
    <2> QED BY <1>0, <1>5, <1>10, <2>2, <2>3 DEF Store
  <1>11. ASSUME NEW t \in Tasks, Publish(t) PROVE TypeInv'
    <2>1. registry' \in [Providers -> Health]
      BY <1>0, <1>11, HealthType DEF Publish, SetHealth
    <2>2. [task[t] EXCEPT !.pc = "refresh"] \in TaskType
      BY <1>0, <1>11, GotoType DEF Publish, At
    <2> QED BY <1>0, <1>5, <1>11, <2>1, <2>2 DEF Publish
  <1>12. ASSUME NEW t \in Tasks, RefreshAfterConnect(t) PROVE TypeInv'
    <2>1. [task[t] EXCEPT !.pc = "list"] \in TaskType
      BY <1>0, <1>12, GotoType DEF RefreshAfterConnect, At
    <2>2. CASE Goto(t, "list")
      BY <1>0, <1>5, <1>12, <2>1, <2>2 DEF RefreshAfterConnect, provs
    <2>3. CASE Return(t)
      BY <1>0, <1>8, <1>12, <2>3 DEF RefreshAfterConnect, provs
    <2> QED BY <1>12, <2>2, <2>3 DEF RefreshAfterConnect
  <1>13. ASSUME NEW t \in Tasks, NEW l \in Listings, ListTools(t, l) PROVE TypeInv'
    <2> DEFINE x == [pc |-> "import", provider |-> task[t].provider, listing |-> l]
    <2>1. task[t].provider \in Providers
      BY <1>13, <1>shape DEF ListTools, At, LifecyclePc
    <2>2. x \in TaskType /\ x.pc # "report"
      BY <2>1, StartedType
    <2>3. task' = [task EXCEPT ![t] = x]
      BY <1>13 DEF ListTools
    <2> HIDE DEF x
    <2> QED BY <1>0, <1>13, <2>2, <2>3 DEF ListTools, provs, TypeInv, BrokerTypeOK
  <1>14. ASSUME NEW t \in Tasks, ListFails(t) PROVE TypeInv'
    BY <1>0, <1>8, <1>14 DEF ListFails, provs
  <1>15. ASSUME NEW t \in Tasks, Import(t)
         PROVE  TypeInv' /\ catalog.schemas \subseteq catalog'.schemas
    <2> DEFINE p == task[t].provider
               l == task[t].listing
    <2>1. p \in Providers /\ l \in Listings /\ l \in Seq(Tool)
      BY <1>15, <1>shape, BrokerAssumption DEF Import, At, LifecyclePc
    <2>2. catalog' = RefreshProvider(catalog, p, l)
      BY <1>15 DEF Import
    <2> HIDE DEF p, l
    <2>3. /\ catalog' \in Catalog /\ CatalogSound(catalog')
          /\ catalog.schemas \subseteq catalog'.schemas
      BY <1>0, <2>1, <2>2, RefreshSound
    <2>4. \E x \in TaskType : /\ task' = [task EXCEPT ![t] = x]
                              /\ x.pc = "report" => AcceptsListing(x.listing)
      <3>1. CASE AcceptsListing(l)
        <4> DEFINE x == [task[t] EXCEPT !.pc = "report"]
        <4>1. x \in TaskType
          BY <1>0, <1>15, GotoType DEF Import, At
        <4>2. x.listing = l
          BY <1>0, <1>15, TaskShape DEF Import, At, l
        <4>3. task' = [task EXCEPT ![t] = x]
          BY <1>0, <1>15, <3>1 DEF Import, Goto, l
        <4> HIDE DEF x
        <4> QED BY <3>1, <4>1, <4>2, <4>3
      <3>2. CASE ~AcceptsListing(l)
        BY <1>0, <1>15, <3>2 DEF Import, Return, l
      <3> QED BY <3>1, <3>2
    <2>5. raced' \subseteq Providers /\ UNCHANGED <<registry, slot, live, opened, cancelled, torn>>
      BY <1>0, <1>15 DEF Import, provs
    <2> QED BY <1>0, <2>3, <2>4, <2>5 DEF TypeInv, BrokerTypeOK
  <1>16. ASSUME NEW t \in Tasks, Report(t) PROVE TypeInv'
    <2> DEFINE l == task[t].listing
               p == task[t].provider
    <2>1. l \in Seq(Tool) /\ AcceptsListing(l) /\ p \in Providers
      BY <1>16, <1>shape, BrokerAssumption DEF Report, At, TypeInv, LifecyclePc
    <2>2. registry' = [registry EXCEPT ![p] = [registry[p] EXCEPT
                         !.revision = Revision(l), !.toolCount = Cardinality(Offered(l))]]
      BY <1>0, <1>16, <2>1 DEF Report
    <2> HIDE DEF l, p
    <2>3. Revision(l) \in SUBSET Descriptor /\ Cardinality(Offered(l)) \in Nat
      BY <2>1, AcceptedTools, ReportedType DEF Revision
    <2>4. registry' \in [Providers -> Health]
      BY <1>0, <2>1, <2>2, <2>3, HealthType
    <2> QED BY <1>0, <1>8, <1>16, <2>4 DEF Report
  <1>17. ASSUME NEW t \in Tasks, Close(t) PROVE TypeInv'
    <2>1. live' \in [Providers -> 0..MaxConnections]
      BY <1>0, <1>17, SlotType DEF Close
    <2>2. [task[t] EXCEPT !.pc = "clear"] \in TaskType
      BY <1>0, <1>17, GotoType DEF Close, At
    <2> QED BY <1>0, <1>5, <1>17, <2>1, <2>2 DEF Close
  <1>18. ASSUME NEW t \in Tasks, CloseFails(t) PROVE TypeInv'
    <2>1. live' \in [Providers -> 0..MaxConnections] /\ torn' \subseteq Providers
      BY <1>0, <1>18, <1>shape DEF CloseFails, Tear, At, LifecyclePc
    <2> QED BY <1>0, <1>8, <1>18, <2>1 DEF CloseFails
  <1>19. ASSUME NEW t \in Tasks, Clear(t) PROVE TypeInv'
    <2>1. slot' \in [Providers -> [present: BOOLEAN, conn: 0..MaxConnections]]
      BY <1>0, <1>19, SlotType DEF Clear
    <2>2. [task[t] EXCEPT !.pc = "retract"] \in TaskType
      BY <1>0, <1>19, GotoType DEF Clear, At
    <2> QED BY <1>0, <1>5, <1>19, <2>1, <2>2 DEF Clear
  <1>20. ASSUME NEW t \in Tasks, Retract(t) PROVE TypeInv'
    <2>1. registry' \in [Providers -> Health]
      BY <1>0, <1>20, HealthType DEF Retract, SetHealth
    <2> QED BY <1>0, <1>8, <1>20, <2>1 DEF Retract
  <1>21. ASSUME NEW t \in Tasks, NEW id \in Providers \X Names, NEW input \in Inputs,
                StartCall(t, id, input)
         PROVE  TypeInv'
    <2> DEFINE x == [pc |-> "checked", provider |-> id[1], tool |-> id,
                     schema |-> catalog.tools[id].input, input |-> input]
    <2>1. catalog.tools[id].input \in Schemas
      BY <1>0, <1>21 DEF StartCall, Admissible, Catalog
    <2>2. x \in TaskType /\ x.pc # "report"
      BY <2>1, StartedType
    <2>3. task' = [task EXCEPT ![t] = x]
      BY <1>21 DEF StartCall
    <2> HIDE DEF x
    <2> QED BY <1>0, <1>21, <2>2, <2>3, TaskMoves DEF StartCall, provs
  <1>22. ASSUME NEW t \in Tasks, FindConnection(t) \/ AcquireGlobal(t) \/ AcquireProvider(t)
                                   \/ Dispatch(t) \/ Finish(t)
         PROVE  TypeInv'
    <2>1. task[t].pc \in CallPc
      BY <1>22 DEF FindConnection, AcquireGlobal, AcquireProvider, Dispatch, Finish, At, CallPc
    <2>2. \A pc \in CallPc : [task[t] EXCEPT !.pc = pc] \in TaskType
      BY <1>0, <2>1, GotoType DEF CallPc
    <2>3. UNCHANGED <<registry, slot, live, opened, catalog, cancelled, torn, raced>>
      BY <1>22 DEF FindConnection, AcquireGlobal, AcquireProvider, Dispatch, Finish, provs
    <2>4. Return(t) \/ \E pc \in CallPc : Goto(t, pc)
      BY <1>22 DEF FindConnection, AcquireGlobal, AcquireProvider, Dispatch, Finish, CallPc
    <2> QED BY <1>0, <1>5, <1>8, <2>2, <2>3, <2>4
  <1>23. ASSUME NEW t \in Tasks, Cancel(t) PROVE TypeInv'
    BY <1>23 DEF Cancel, provs, TypeInv, BrokerTypeOK
  <1>24. ASSUME UNCHANGED vars PROVE TypeInv'
    BY <1>24 DEF vars, provs, TypeInv, BrokerTypeOK
  <1>25. TypeInv'
    BY <1>1, <1>2, <1>4, <1>6, <1>7, <1>9, <1>10, <1>11, <1>12, <1>13, <1>14, <1>15, <1>16, <1>17,
       <1>18, <1>19, <1>20, <1>21, <1>22, <1>23, <1>24
       DEF Next, Connecting, Refreshing, Disconnecting, Calling
  <1>26. (\E t \in Tasks : Import(t)) \/ catalog' = catalog
    BY DEF Next, Connecting, Refreshing, Disconnecting, Calling, vars, provs, Register, InsertSlot,
           StartConnect, StartDisconnect, StartRefresh, Start, Announce, Open, OpenFails, Store,
           Publish, RefreshAfterConnect, ListTools, ListFails, Report, Close, CloseFails, Clear,
           Retract, StartCall, FindConnection, AcquireGlobal, AcquireProvider, Cancel, Dispatch, Finish
  <1> QED BY <1>15, <1>25, <1>26

\* The broker's state and every task keep their types.
THEOREM BrokerTypes == Spec => []BrokerTypeOK
  <1>1. TypeInv /\ [Next]_vars => TypeInv'
    BY BrokerStep
  <1>2. TypeInv => BrokerTypeOK
    BY DEF TypeInv
  <1> QED BY BrokerInit, <1>1, <1>2, PTL DEF Spec

\* Whatever is imported, refused, removed and offered again, by however many
\* tasks at once: a search lists exactly what the providers last offered.
THEOREM CatalogCorrect == Spec => []CatalogConsistent
  <1>1. TypeInv /\ [Next]_vars => TypeInv'
    BY BrokerStep
  <1>2. TypeInv => CatalogConsistent
    BY DEF TypeInv, CatalogConsistent
  <1> QED BY BrokerInit, <1>1, <1>2, PTL DEF Spec

----------------------------------------------------------------------------
(* Calls                                                                   *)

GlobalPc == {"waitProvider", "admitted", "dispatched"}
ProviderPc == {"admitted", "dispatched"}

\* The inductive invariant: a permit is held from its acquisition on, and what
\* was checked before stays true while the call is under way.
Checked(x) ==
  /\ x.schema \in catalog.schemas
  /\ ValidInput(x.schema, x.input)
  /\ x.tool \in Policy

CallInv ==
  /\ Cardinality(HoldsGlobal) <= GlobalLimit
  /\ \A p \in Providers : Cardinality(HoldsProvider(p)) <= ProviderLimit
  /\ \A t \in Tasks : task[t].pc \in CallPc => Checked(task[t])

LEMMA TaskSets ==
  ASSUME NEW S \in SUBSET Tasks
  PROVE  IsFiniteSet(S) /\ Cardinality(S) \in Nat
  BY BrokerAssumption, FS_Subset, FS_CardinalityType

\* One more task among the holders keeps the limit it was admitted under.
LEMMA OneMore ==
  ASSUME NEW S \in SUBSET Tasks, NEW T \in SUBSET Tasks, NEW t \in Tasks, NEW limit \in Nat,
         T \subseteq S \union {t}, Cardinality(S) <= limit,
         t \in T \ S => Cardinality(S) < limit
  PROVE  Cardinality(T) <= limit
  <1>1. IsFiniteSet(S) /\ Cardinality(S) \in Nat /\ Cardinality(T) \in Nat
    BY TaskSets
  <1>2. CASE T \subseteq S
    BY <1>1, <1>2, FS_Subset
  <1>3. CASE ~(T \subseteq S)
    <2>1. t \in T \ S
      BY <1>3
    <2>2. IsFiniteSet(S \union {t}) /\ Cardinality(S \union {t}) = Cardinality(S) + 1
      BY <1>1, <2>1, FS_AddElement
    <2>3. Cardinality(T) <= Cardinality(S) + 1
      BY <2>2, FS_Subset
    <2> QED BY <1>1, <2>1, <2>3
  <1> QED BY <1>2, <1>3

LEMMA CallMoves ==
  ASSUME TypeInv, CallInv, catalog.schemas \subseteq catalog'.schemas,
         NEW t \in Tasks, NEW x, task' = [task EXCEPT ![t] = x],
         x.pc \in GlobalPc => task[t].pc \in GlobalPc \/ Cardinality(HoldsGlobal) < GlobalLimit,
         x.pc \in ProviderPc => \/ task[t].pc \in ProviderPc /\ task[t].provider = x.provider
                                \/ Cardinality(HoldsProvider(x.provider)) < ProviderLimit,
         x.pc \in CallPc => Checked(x)
  PROVE  CallInv'
  <1>0. /\ \A u \in Tasks : task'[u] = IF u = t THEN x ELSE task[u]
        /\ GlobalLimit \in Nat /\ ProviderLimit \in Nat
        /\ HoldsGlobal \in SUBSET Tasks
        /\ \A p \in Providers : HoldsProvider(p) \in SUBSET Tasks
    BY BrokerAssumption DEF TypeInv, BrokerTypeOK, HoldsGlobal, HoldsProvider
  <1>1. Cardinality(HoldsGlobal') <= GlobalLimit
    <2> DEFINE H == {u \in Tasks : task'[u].pc \in GlobalPc}
    <2>1. HoldsGlobal' = H /\ H \in SUBSET Tasks
      BY DEF HoldsGlobal, GlobalPc
    <2>2. H \subseteq HoldsGlobal \union {t} /\ (t \in H \ HoldsGlobal => Cardinality(HoldsGlobal) < GlobalLimit)
      BY <1>0 DEF HoldsGlobal, GlobalPc
    <2> HIDE DEF H
    <2>3. Cardinality(H) <= GlobalLimit
      BY <1>0, <2>1, <2>2, OneMore DEF CallInv
    <2> QED BY <2>1, <2>3
  <1>2. ASSUME NEW p \in Providers
        PROVE  Cardinality(HoldsProvider(p)') <= ProviderLimit
    <2> DEFINE H == {u \in Tasks : task'[u].pc \in ProviderPc /\ task'[u].provider = p}
    <2>1. HoldsProvider(p)' = H /\ H \in SUBSET Tasks
      BY DEF HoldsProvider, ProviderPc
    <2>2. \A u \in Tasks : u \in HoldsProvider(p) <=> task[u].pc \in ProviderPc /\ task[u].provider = p
      BY DEF HoldsProvider, ProviderPc
    <2>3. t \in H => x.pc \in ProviderPc /\ x.provider = p
      BY <1>0
    <2>4. /\ H \subseteq HoldsProvider(p) \union {t}
          /\ t \in H \ HoldsProvider(p) => Cardinality(HoldsProvider(p)) < ProviderLimit
      <3>1. H \subseteq HoldsProvider(p) \union {t}
        BY <1>0, <2>2
      <3>2. ASSUME t \in H, t \notin HoldsProvider(p)
            PROVE  Cardinality(HoldsProvider(p)) < ProviderLimit
        BY <2>2, <2>3, <3>2
      <3> QED BY <3>1, <3>2
    <2> HIDE DEF H
    <2>5. Cardinality(H) <= ProviderLimit
      BY <1>0, <2>1, <2>4, OneMore DEF CallInv
    <2> QED BY <2>1, <2>5
  <1>3. \A u \in Tasks : task'[u].pc \in CallPc => Checked(task[u])'
    BY <1>0 DEF CallInv, Checked
  <1> QED BY <1>1, <1>2, <1>3 DEF CallInv

LEMMA CallStep ==
  ASSUME TypeInv, CallInv, [Next]_vars
  PROVE  CallInv'
  <1>0. /\ task \in [Tasks -> TaskType] /\ catalog.schemas \subseteq catalog'.schemas
        /\ Idle.pc \notin CallPc /\ GlobalPc \subseteq CallPc /\ ProviderPc \subseteq GlobalPc
    BY BrokerStep DEF TypeInv, BrokerTypeOK, Idle, CallPc, GlobalPc, ProviderPc
  <1>1. ASSUME NEW t \in Tasks, NEW x, task' = [task EXCEPT ![t] = x], x.pc \notin CallPc
        PROVE  CallInv'
    BY <1>0, <1>1, CallMoves
  <1>2. ASSUME NEW t \in Tasks, NEW pc, Goto(t, pc), pc \notin CallPc PROVE CallInv'
    <2>1. [task[t] EXCEPT !.pc = pc].pc = pc \/ task[t] = Idle
      BY <1>0 DEF TaskType
    <2>2. CASE task[t] = Idle
      <3>1. [task[t] EXCEPT !.pc = pc].pc = pc
        BY <2>2 DEF Idle
      <3> QED BY <1>0, <1>1, <1>2, <3>1 DEF Goto
    <2>3. CASE task[t] # Idle
      BY <1>0, <1>1, <1>2, <2>1, <2>3 DEF Goto
    <2> QED BY <2>2, <2>3
  <1>3. ASSUME NEW t \in Tasks, Return(t) PROVE CallInv'
    BY <1>0, <1>1, <1>3 DEF Return
  <1>4. ASSUME NEW t \in Tasks, NEW p \in Providers, NEW pc, pc \notin CallPc,
               task' = [task EXCEPT ![t] = [pc |-> pc, provider |-> p]]
        PROVE  CallInv'
    <2>1. [pc |-> pc, provider |-> p].pc \notin CallPc
      BY <1>4
    <2> QED BY <1>1, <1>4, <2>1
  <1>5. ASSUME NEW t \in Tasks, \E p \in Providers : Register(t, p) \/ StartConnect(t, p)
                                  \/ StartDisconnect(t, p) \/ StartRefresh(t, p)
        PROVE  CallInv'
    BY <1>4, <1>5 DEF Register, StartConnect, StartDisconnect, StartRefresh, Start, CallPc
  <1>6. ASSUME NEW t \in Tasks, Open(t) \/ \E l \in Listings : ListTools(t, l)
        PROVE  CallInv'
    <2>1. \E x : task' = [task EXCEPT ![t] = x] /\ x.pc \notin CallPc
      <3>1. /\ \A p, n : [pc |-> "store", provider |-> p, conn |-> n].pc \notin CallPc
            /\ \A p, l : [pc |-> "import", provider |-> p, listing |-> l].pc \notin CallPc
        BY DEF CallPc
      <3> QED BY <1>6, <3>1 DEF Open, ListTools
    <2> QED BY <1>1, <2>1
  <1>7. ASSUME NEW t \in Tasks,
               Announce(t) \/ Store(t) \/ Publish(t) \/ Close(t) \/ Clear(t)
                 \/ RefreshAfterConnect(t) \/ Import(t)
        PROVE  CallInv'
    BY <1>2, <1>3, <1>7
       DEF Announce, Store, Publish, Close, Clear, RefreshAfterConnect, Import, CallPc
  <1>8. ASSUME NEW t \in Tasks,
               InsertSlot(t) \/ OpenFails(t) \/ ListFails(t) \/ Report(t) \/ CloseFails(t)
                 \/ Retract(t) \/ Finish(t)
        PROVE  CallInv'
    BY <1>3, <1>8 DEF InsertSlot, OpenFails, ListFails, Report, CloseFails, Retract, Finish
  <1>9. ASSUME NEW t \in Tasks, NEW id \in Providers \X Names, NEW input \in Inputs,
               StartCall(t, id, input)
        PROVE  CallInv'
    <2> DEFINE x == [pc |-> "checked", provider |-> id[1], tool |-> id,
                     schema |-> catalog.tools[id].input, input |-> input]
    <2>1. Checked(x) /\ x.pc \notin GlobalPc /\ x.pc \notin ProviderPc
      BY <1>9 DEF StartCall, Admissible, Checked, GlobalPc, ProviderPc
    <2>2. task' = [task EXCEPT ![t] = x]
      BY <1>9 DEF StartCall
    <2> HIDE DEF x
    <2> QED BY <1>0, <2>1, <2>2, CallMoves
  <1>10. ASSUME NEW t \in Tasks, NEW pc \in CallPc, task[t].pc \in CallPc, Goto(t, pc),
                pc \in GlobalPc =>
                  task[t].pc \in GlobalPc \/ Cardinality(HoldsGlobal) < GlobalLimit,
                pc \in ProviderPc =>
                  task[t].pc \in ProviderPc
                    \/ Cardinality(HoldsProvider(task[t].provider)) < ProviderLimit
         PROVE  CallInv'
    <2> DEFINE x == [task[t] EXCEPT !.pc = pc]
    <2>1. /\ x.pc = pc /\ x.provider = task[t].provider /\ x.schema = task[t].schema
          /\ x.input = task[t].input /\ x.tool = task[t].tool
      BY <1>0, <1>10, TaskShape
    <2>2. Checked(task[t]) /\ task' = [task EXCEPT ![t] = x]
      BY <1>0, <1>10 DEF CallInv, Goto
    <2> HIDE DEF x
    <2>3. Checked(x)
      BY <2>1, <2>2 DEF Checked
    <2> QED BY <1>0, <1>10, <2>1, <2>2, <2>3, CallMoves
  <1>11. ASSUME NEW t \in Tasks, FindConnection(t) \/ AcquireGlobal(t) \/ AcquireProvider(t) \/ Dispatch(t)
         PROVE  CallInv'
    BY <1>3, <1>10, <1>11
       DEF FindConnection, AcquireGlobal, AcquireProvider, Dispatch, At, CallPc, GlobalPc, ProviderPc
  <1>12. ASSUME UNCHANGED <<task, catalog>> PROVE CallInv'
    BY <1>12 DEF CallInv, HoldsGlobal, HoldsProvider, Checked
  <1> QED BY <1>5, <1>6, <1>7, <1>8, <1>9, <1>11, <1>12
          DEF Next, Connecting, Refreshing, Disconnecting, Calling, Cancel, vars

\* However the calls of the tasks interleave with imports and cancellations,
\* the calls at the providers stay within the permits, and each was checked
\* against a schema that is still registered, and allowed.
THEOREM AdmissionCorrect == Spec => []CallsAdmitted
  <1>1. Init => CallInv
    <2> SUFFICES ASSUME Init PROVE CallInv
      OBVIOUS
    <2>1. HoldsGlobal = {} /\ \A p \in Providers : HoldsProvider(p) = {}
      BY DEF Init, HoldsGlobal, HoldsProvider, Idle
    <2>2. Cardinality({}) = 0 /\ GlobalLimit \in Nat /\ ProviderLimit \in Nat
      BY FS_EmptySet, BrokerAssumption
    <2>3. \A t \in Tasks : task[t].pc \notin CallPc
      BY DEF Init, Idle, CallPc
    <2>4. Cardinality(HoldsGlobal) <= GlobalLimit
      BY <2>1, <2>2
    <2>5. \A p \in Providers : Cardinality(HoldsProvider(p)) <= ProviderLimit
      BY <2>1, <2>2
    <2> QED BY <2>3, <2>4, <2>5 DEF CallInv
  <1>2. TypeInv /\ [Next]_vars => TypeInv'
    BY BrokerStep
  <1>3. TypeInv /\ CallInv /\ [Next]_vars => CallInv'
    BY CallStep
  <1>4. TypeInv /\ CallInv => CallsAdmitted
    <2> SUFFICES ASSUME TypeInv, CallInv PROVE CallsAdmitted
      OBVIOUS
    <2> DEFINE D == {t \in Tasks : At(t, "dispatched")}
               Of(p) == {t \in D : task[t].provider = p}
    <2>1. HoldsGlobal \in SUBSET Tasks /\ D \in SUBSET HoldsGlobal
      BY DEF HoldsGlobal, At
    <2>2. ASSUME NEW p \in Providers
          PROVE  Cardinality({t \in D : task[t].provider = p}) <= ProviderLimit
      <3>1. HoldsProvider(p) \in SUBSET Tasks /\ Of(p) \in SUBSET HoldsProvider(p)
        BY DEF HoldsProvider, At
      <3> HIDE DEF D
      <3>2. Cardinality(Of(p)) <= Cardinality(HoldsProvider(p)) /\ Cardinality(Of(p)) \in Nat
            /\ Cardinality(HoldsProvider(p)) \in Nat /\ ProviderLimit \in Nat
        BY <3>1, TaskSets, FS_Subset, BrokerAssumption
      <3> QED BY <3>2 DEF CallInv
    <2>3. \A t \in D : task[t].pc \in CallPc /\ t \in Tasks
      BY DEF At, CallPc
    <2> HIDE DEF D
    <2>4. Cardinality(D) <= Cardinality(HoldsGlobal) /\ Cardinality(D) \in Nat
          /\ Cardinality(HoldsGlobal) \in Nat /\ GlobalLimit \in Nat
      BY <2>1, TaskSets, FS_Subset, BrokerAssumption
    <2>5. Cardinality(D) <= GlobalLimit
      BY <2>4 DEF CallInv
    <2>6. \A t \in D : Checked(task[t])
      BY <2>3 DEF CallInv
    <2> QED BY <2>2, <2>5, <2>6 DEF CallsAdmitted, Checked, D
  <1> QED BY BrokerInit, <1>1, <1>2, <1>3, <1>4, PTL DEF Spec

----------------------------------------------------------------------------
(* Lifecycles                                                              *)

Shown(p) ==
  /\ slot[p].conn = live[p]
  /\ registry[p].healthy = (live[p] # 0)
  /\ IF live[p] = 0 THEN registry[p].state \in {"configured", "disconnected"}
                    ELSE registry[p].state = "connected"

Reported(p) ==
  /\ registry[p].revision = catalog.revision[p]
  /\ registry[p].toolCount = Cardinality(catalog.offered[p])

\* What is true of a provider while its only lifecycle operation is at x.
Stage(p, x) ==
  /\ x.pc = "store" => live[p] = x.conn /\ live[p] # 0
  /\ x.pc = "publish" => slot[p].conn = live[p] /\ live[p] # 0
  /\ x.pc \in {"refresh", "list", "import", "report"} => Shown(p)
  /\ x.pc = "clear" => live[p] = 0
  /\ x.pc = "retract" => live[p] = 0 /\ slot[p].conn = 0

Reporting(p, x) ==
  IF x.pc = "report" THEN /\ catalog.revision[p] = Revision(x.listing)
                          /\ catalog.offered[p] = Offered(x.listing)
                     ELSE Reported(p)

Inserting(p) == {t \in Tasks : task[t].pc = "insert" /\ task[t].provider = p}
Alone(S) == \A t, u \in S : t = u

\* The inductive invariant of one provider.  A provider without a slot has
\* never been touched; without an overlap there is one operation, and where it
\* is determines how much of the state it has already set.
LifeInv(p) ==
  /\ ~slot[p].present => /\ slot[p].conn = 0 /\ live[p] = 0 /\ ~registry[p].healthy
                         /\ registry[p].state \in {"absent", "configured"}
                         /\ Quiescent(p)
  /\ Alone(Inserting(p))
  /\ Inserting(p) # {} => ~slot[p].present /\ registry[p].state # "absent"
  /\ registry[p].state = "absent" => ~slot[p].present
  /\ p \notin torn => /\ Alone(Lifecycle(p))
                      /\ slot[p].present /\ Quiescent(p) => Shown(p)
                      /\ \A t \in Lifecycle(p) : Stage(p, task[t])
  /\ p \notin raced => /\ Alone(Lifecycle(p))
                       /\ Quiescent(p) => Reported(p)
                       /\ \A t \in Lifecycle(p) : Reporting(p, task[t])

BusyPc == LifecyclePc \union {"insert"}

\* A step that is not about q.
Apart(q) ==
  /\ registry'[q] = registry[q] /\ slot'[q] = slot[q] /\ live'[q] = live[q]
  /\ catalog'.revision[q] = catalog.revision[q] /\ catalog'.offered[q] = catalog.offered[q]
  /\ q \in torn' <=> q \in torn
  /\ q \in raced' <=> q \in raced

LEMMA LifeApart ==
  ASSUME NEW q \in Providers, LifeInv(q), Apart(q), task \in [Tasks -> TaskType],
         NEW t \in Tasks, NEW x, task' = [task EXCEPT ![t] = x],
         task[t].pc \in BusyPc => task[t].provider # q,
         x.pc \in BusyPc => x.provider # q
  PROVE  LifeInv(q)'
  <1>1. \A u \in Tasks : task'[u] = IF u = t THEN x ELSE task[u]
    OBVIOUS
  <1>2. Lifecycle(q)' = Lifecycle(q) /\ t \notin Lifecycle(q)
    BY <1>1 DEF Lifecycle, BusyPc
  <1>3. Inserting(q)' = Inserting(q)
    BY <1>1 DEF Inserting, BusyPc
  <1>4. \A u \in Lifecycle(q) : task'[u] = task[u]
    BY <1>1, <1>2 DEF Lifecycle
  <1>5. Quiescent(q)' <=> Quiescent(q)
    BY <1>2 DEF Quiescent
  <1>6. Shown(q)' <=> Shown(q)
    BY DEF Shown, Apart
  <1>7. Reported(q)' <=> Reported(q)
    BY DEF Reported, Apart
  <1>8. q \notin torn' => \A u \in Lifecycle(q)' : Stage(q, task[u])'
    <2>1. \A u \in Lifecycle(q) : Stage(q, task[u])' <=> Stage(q, task[u])
      BY <1>4, <1>6 DEF Stage, Apart
    <2> QED BY <1>2, <2>1 DEF LifeInv, Apart
  <1>9. q \notin raced' => \A u \in Lifecycle(q)' : Reporting(q, task[u])'
    <2>1. \A u \in Lifecycle(q) : Reporting(q, task[u])' <=> Reporting(q, task[u])
      BY <1>4, <1>7 DEF Reporting, Apart
    <2> QED BY <1>2, <2>1 DEF LifeInv, Apart
  <1> QED BY <1>2, <1>3, <1>5, <1>6, <1>7, <1>8, <1>9 DEF LifeInv, Apart, Alone

\* An operation on p moves on.
LEMMA LifeMoves ==
  ASSUME NEW p \in Providers, LifeInv(p), task \in [Tasks -> TaskType],
         NEW t \in Lifecycle(p), NEW x, task' = [task EXCEPT ![t] = x],
         x.pc \in LifecyclePc, x.provider = p,
         slot'[p].present = slot[p].present, torn' = torn, registry'[p].state # "absent",
         p \notin torn /\ Stage(p, task[t]) => Stage(p, x)',
         p \notin raced' => /\ p \notin raced \/ Lifecycle(p) = {t}
                            /\ Lifecycle(p) = {t} => Reporting(p, x)'
  PROVE  LifeInv(p)'
  <1>1. t \in Tasks /\ \A u \in Tasks : task'[u] = IF u = t THEN x ELSE task[u]
    BY DEF Lifecycle
  <1>2. Lifecycle(p)' = Lifecycle(p) /\ ~Quiescent(p) /\ ~Quiescent(p)' /\ slot[p].present
    BY <1>1 DEF Lifecycle, LifeInv, Quiescent
  <1>3. Inserting(p)' = Inserting(p) /\ Inserting(p) = {}
    BY <1>1, <1>2 DEF Inserting, Lifecycle, LifecyclePc, LifeInv
  <1>4. ASSUME p \notin torn' PROVE Alone(Lifecycle(p))' /\ \A u \in Lifecycle(p)' : Stage(p, task[u])'
    <2>1. \A u \in Lifecycle(p) : u = t
      BY <1>4 DEF LifeInv, Alone
    <2>2. Stage(p, x)'
      BY <1>4 DEF LifeInv
    <2>3. Stage(p, task[t])'
      BY <1>1, <2>2 DEF Stage, Shown
    <2> QED BY <1>2, <2>1, <2>3 DEF Alone
  <1>5. ASSUME p \notin raced'
        PROVE  Alone(Lifecycle(p))' /\ \A u \in Lifecycle(p)' : Reporting(p, task[u])'
    <2>1. Lifecycle(p) = {t}
      BY <1>5 DEF LifeInv, Alone
    <2>2. Reporting(p, x)'
      BY <1>5, <2>1
    <2>3. Reporting(p, task[t])'
      BY <1>1, <2>2 DEF Reporting, Reported
    <2> QED BY <1>2, <2>1, <2>3 DEF Alone
  <1> QED BY <1>2, <1>3, <1>4, <1>5 DEF LifeInv, Alone

\* An operation on p ends.
LEMMA LifeEnds ==
  ASSUME NEW p \in Providers, LifeInv(p), task \in [Tasks -> TaskType],
         NEW t \in Lifecycle(p), task' = [task EXCEPT ![t] = Idle],
         slot'[p].present = slot[p].present, torn \subseteq torn', registry'[p].state # "absent",
         p \notin torn' /\ Stage(p, task[t]) => Shown(p)',
         raced' = raced, catalog.revision[p] = catalog'.revision[p],
         catalog.offered[p] = catalog'.offered[p],
         p \notin raced /\ Reporting(p, task[t]) => Reported(p)'
  PROVE  LifeInv(p)'
  <1>1. t \in Tasks /\ \A u \in Tasks : task'[u] = IF u = t THEN Idle ELSE task[u]
    BY DEF Lifecycle
  <1>2. Lifecycle(p)' = Lifecycle(p) \ {t} /\ slot[p].present
    BY <1>1 DEF Lifecycle, LifeInv, Quiescent, Idle, LifecyclePc
  <1>3. Inserting(p)' = Inserting(p) /\ Inserting(p) = {}
    BY <1>1, <1>2 DEF Inserting, Lifecycle, LifecyclePc, LifeInv, Idle
  <1>4. p \notin torn' => Lifecycle(p)' = {} /\ Shown(p)'
    BY <1>2 DEF LifeInv, Alone
  <1>5. p \notin raced' => Lifecycle(p)' = {} /\ Reported(p)'
    BY <1>2 DEF LifeInv, Alone
  <1> QED BY <1>2, <1>3, <1>4, <1>5 DEF LifeInv, Alone

\* An operation on p starts.
LEMMA LifeStarts ==
  ASSUME NEW p \in Providers, LifeInv(p), task \in [Tasks -> TaskType],
         NEW t \in Tasks, task[t].pc = "idle",
         NEW pc \in {"announce", "close", "list"},
         task' = [task EXCEPT ![t] = [pc |-> pc, provider |-> p]],
         slot[p].present, UNCHANGED <<provs, catalog>>,
         p \notin torn' => Quiescent(p) /\ (pc = "list" => p \notin torn),
         p \notin raced' => Quiescent(p) /\ p \notin raced
  PROVE  LifeInv(p)'
  <1> DEFINE x == [pc |-> pc, provider |-> p]
  <1>1. \A u \in Tasks : task'[u] = IF u = t THEN x ELSE task[u]
    OBVIOUS
  <1>2. x.pc = pc /\ x.provider = p /\ pc \in LifecyclePc /\ "insert" \notin {pc, "idle"}
    BY DEF LifecyclePc
  <1> HIDE DEF x
  <1>3. Lifecycle(p)' = Lifecycle(p) \union {t}
    BY <1>1, <1>2 DEF Lifecycle
  <1>4. Inserting(p)' = Inserting(p)
    BY <1>1, <1>2 DEF Inserting
  <1>5. (Shown(p)' <=> Shown(p)) /\ (Reported(p)' <=> Reported(p))
    BY DEF Shown, Reported, provs
  <1>6. ASSUME p \notin torn' PROVE Alone(Lifecycle(p))' /\ \A u \in Lifecycle(p)' : Stage(p, task[u])'
    <2>1. Lifecycle(p)' = {t}
      BY <1>3, <1>6 DEF Quiescent
    <2>2. pc = "list" => Shown(p)
      BY <1>6 DEF LifeInv
    <2>3. Stage(p, task[t])'
      BY <1>1, <1>2, <1>5, <2>2 DEF Stage
    <2> QED BY <2>1, <2>3 DEF Alone
  <1>7. ASSUME p \notin raced'
        PROVE  Alone(Lifecycle(p))' /\ \A u \in Lifecycle(p)' : Reporting(p, task[u])'
    <2>1. Lifecycle(p)' = {t}
      BY <1>3, <1>7 DEF Quiescent
    <2>2. Reporting(p, task[t])'
      BY <1>1, <1>2, <1>5, <1>7 DEF Reporting, LifeInv
    <2> QED BY <2>1, <2>2 DEF Alone
  <1>8. ~Quiescent(p)'
    BY <1>3 DEF Quiescent
  <1> QED BY <1>4, <1>6, <1>7, <1>8 DEF LifeInv, Alone, provs

\* Registering a provider, and inserting its slot.
LEMMA LifeRegisters ==
  ASSUME NEW p \in Providers, LifeInv(p), task \in [Tasks -> TaskType],
         NEW t \in Tasks, Register(t, p), registry \in [Providers -> Health]
  PROVE  LifeInv(p)'
  <1> DEFINE x == [pc |-> "insert", provider |-> p]
  <1>1. \A u \in Tasks : task'[u] = IF u = t THEN x ELSE task[u]
    BY DEF Register
  <1>2. x.pc = "insert" /\ x.provider = p /\ task[t].pc = "idle" /\ "insert" \notin LifecyclePc
        /\ "idle" \notin LifecyclePc
    BY DEF Register, At, LifecyclePc
  <1> HIDE DEF x
  <1>3. Inserting(p) = {} /\ Quiescent(p) /\ ~slot[p].present
    BY DEF Register, LifeInv
  <1>4. Inserting(p)' = {t}
    BY <1>1, <1>2, <1>3 DEF Inserting
  <1>5. Lifecycle(p)' = {}
    BY <1>1, <1>2, <1>3 DEF Lifecycle, Quiescent
  <1>6. /\ registry'[p].state = "configured" /\ registry'[p].healthy = FALSE
        /\ registry'[p].revision = registry[p].revision
        /\ registry'[p].toolCount = registry[p].toolCount
    BY DEF Register, SetHealth, Health
  <1>7. UNCHANGED <<slot, live, catalog, torn, raced>>
    BY DEF Register
  <1>8. Reported(p)' <=> Reported(p)
    BY <1>6, <1>7 DEF Reported
  <1> QED BY <1>3, <1>4, <1>5, <1>6, <1>7, <1>8 DEF LifeInv, Alone, Quiescent

LEMMA LifeInserts ==
  ASSUME NEW p \in Providers, LifeInv(p), task \in [Tasks -> TaskType],
         NEW t \in Tasks, InsertSlot(t), task[t].provider = p,
         registry \in [Providers -> Health],
         slot \in [Providers -> [present: BOOLEAN, conn: 0..MaxConnections]]
  PROVE  LifeInv(p)'
  <1>1. \A u \in Tasks : task'[u] = IF u = t THEN Idle ELSE task[u]
    BY DEF InsertSlot, Return
  <1>2. t \in Inserting(p) /\ task[t].pc = "insert" /\ "insert" \notin LifecyclePc
        /\ Idle.pc \notin LifecyclePc /\ Idle.pc # "insert"
    BY DEF InsertSlot, Inserting, At, LifecyclePc, Idle
  <1>3. Quiescent(p) /\ ~slot[p].present /\ registry[p].state = "configured"
    BY <1>2 DEF LifeInv
  <1>4. Inserting(p)' = {}
    <2>1. \A u \in Tasks : task[u].pc = "insert" /\ task[u].provider = p => u = t
      BY <1>2 DEF LifeInv, Alone, Inserting
    <2> QED BY <1>1, <1>2, <2>1 DEF Inserting
  <1>5. Lifecycle(p)' = {}
    BY <1>1, <1>2, <1>3 DEF Lifecycle, Quiescent
  <1>6. slot'[p].conn = 0 /\ slot'[p].present
    BY DEF InsertSlot
  <1>7. UNCHANGED <<registry, live, catalog, torn, raced>>
    BY DEF InsertSlot
  <1>8. Reported(p)' <=> Reported(p)
    BY <1>7 DEF Reported
  <1>9. Shown(p)'
    <2>1. registry[p].healthy \in BOOLEAN
      BY DEF Health
    <2>2. ~registry[p].healthy /\ live[p] = 0
      BY <1>3 DEF LifeInv
    <2> QED BY <1>3, <1>6, <1>7, <2>1, <2>2 DEF Shown
  <1> QED BY <1>3, <1>4, <1>5, <1>6, <1>7, <1>8, <1>9 DEF LifeInv, Alone, Quiescent

Life == \A p \in Providers : LifeInv(p)

\* A step about p is about no other provider.
LEMMA LifeOthers ==
  ASSUME TypeInv, Life, NEW p \in Providers, NEW t \in Tasks, NEW x,
         task' = [task EXCEPT ![t] = x],
         task[t].pc \in BusyPc => task[t].provider = p,
         x.pc \in BusyPc => x.provider = p,
         \A q \in Providers : q # p => Apart(q),
         LifeInv(p)'
  PROVE  Life'
  <1> SUFFICES ASSUME NEW q \in Providers, q # p PROVE LifeInv(q)'
    BY DEF Life
  <1>1. LifeInv(q) /\ Apart(q) /\ task \in [Tasks -> TaskType]
    BY DEF Life, TypeInv, BrokerTypeOK
  <1> QED BY <1>1, LifeApart

\* The task after a Goto.
LEMMA Moved ==
  ASSUME NEW x \in TaskType, x.pc \in LifecyclePc, NEW pc
  PROVE  /\ [x EXCEPT !.pc = pc].pc = pc
         /\ [x EXCEPT !.pc = pc].provider = x.provider
         /\ x.pc \in {"import", "report"} => [x EXCEPT !.pc = pc].listing = x.listing
         /\ x.pc = "store" => [x EXCEPT !.pc = pc].conn = x.conn
  BY DEF TaskType, LifecyclePc, CallPc, Idle

\* Nor does a step change anything that leaves all of this alone.
LEMMA LifeSame ==
  ASSUME Life, UNCHANGED <<provs, catalog, task, torn, raced>>
  PROVE  Life'
  <1> SUFFICES ASSUME NEW p \in Providers PROVE LifeInv(p)'
    BY DEF Life
  <1>0. UNCHANGED <<registry, slot, live, catalog, task, torn, raced>> /\ LifeInv(p)
    BY DEF provs, Life
  <1>1. Lifecycle(p)' = Lifecycle(p) /\ Inserting(p)' = Inserting(p)
    BY <1>0 DEF Lifecycle, Inserting
  <1>2. (Shown(p)' <=> Shown(p)) /\ (Reported(p)' <=> Reported(p))
    BY <1>0 DEF Shown, Reported
  <1>3. \A t \in Tasks : Stage(p, task[t])' <=> Stage(p, task[t])
    BY <1>0, <1>2 DEF Stage
  <1>4. \A t \in Tasks : Reporting(p, task[t])' <=> Reporting(p, task[t])
    BY <1>0, <1>2 DEF Reporting
  <1>5. \A t \in Lifecycle(p) : t \in Tasks
    BY DEF Lifecycle
  <1> QED BY <1>0, <1>1, <1>2, <1>3, <1>4, <1>5 DEF LifeInv, Alone, Quiescent

LEMMA LifeStep ==
  ASSUME TypeInv, Life, [Next]_vars
  PROVE  Life'
  <1>0. /\ registry \in [Providers -> Health]
        /\ slot \in [Providers -> [present: BOOLEAN, conn: 0..MaxConnections]]
        /\ live \in [Providers -> 0..MaxConnections]
        /\ opened \in 0..MaxConnections /\ MaxConnections \in Nat
        /\ catalog \in Catalog /\ task \in [Tasks -> TaskType]
    BY BrokerAssumption DEF TypeInv, BrokerTypeOK
  \* The provider a lifecycle operation is about: it has a slot.
  <1>at. ASSUME NEW t \in Tasks, task[t].pc \in LifecyclePc
         PROVE  \E p \in Providers : /\ p = task[t].provider /\ t \in Lifecycle(p) /\ LifeInv(p)
                                     /\ slot[p].present /\ registry[p].state # "absent"
    <2>1. task[t].provider \in Providers
      BY <1>0, <1>at, TaskShape
    <2> QED BY <1>at, <2>1 DEF Life, LifeInv, Lifecycle, Quiescent
  <1>1. ASSUME NEW t \in Tasks, NEW p \in Providers, Register(t, p) PROVE Life'
    <2>1. LifeInv(p)'
      BY <1>0, <1>1, LifeRegisters DEF Life
    <2>2. PICK x : x = [pc |-> "insert", provider |-> p]
      OBVIOUS
    <2>3. /\ task' = [task EXCEPT ![t] = x] /\ x.provider = p /\ task[t].pc \notin BusyPc
          /\ \A q \in Providers : q # p => Apart(q)
      BY <1>0, <1>1, <2>2 DEF Register, SetHealth, Apart, At, BusyPc, LifecyclePc
    <2> QED BY <2>1, <2>3, LifeOthers
  <1>2. ASSUME NEW t \in Tasks, InsertSlot(t) PROVE Life'
    <2>1. PICK p \in Providers : p = task[t].provider
      BY <1>0, <1>2, TaskShape DEF InsertSlot, At
    <2>2. LifeInv(p)'
      BY <1>0, <1>2, <2>1, LifeInserts DEF Life
    <2>3. /\ task' = [task EXCEPT ![t] = Idle] /\ Idle.pc \notin BusyPc
          /\ \A q \in Providers : q # p => Apart(q)
      BY <1>0, <1>2, <2>1 DEF InsertSlot, Return, Idle, BusyPc, LifecyclePc, Apart
    <2> QED BY <2>1, <2>2, <2>3, LifeOthers
  <1>3. ASSUME NEW t \in Tasks, NEW p \in Providers, NEW pc \in {"announce", "close", "list"},
               Start(t, p, pc),
               torn' \in {torn, torn \ {p}, torn \union {p}},
               p \notin torn' => Quiescent(p) /\ (pc = "list" => p \notin torn)
        PROVE  Life'
    <2>1. PICK x : x = [pc |-> pc, provider |-> p]
      OBVIOUS
    <2>2. /\ task' = [task EXCEPT ![t] = x] /\ x.provider = p
          /\ task[t].pc = "idle" /\ slot[p].present /\ UNCHANGED <<provs, catalog>>
          /\ p \notin raced' => Quiescent(p) /\ p \notin raced
      BY <1>3, <2>1 DEF Start, At
    <2>3. LifeInv(p)'
      BY <1>0, <1>3, <2>1, <2>2, LifeStarts DEF Life
    <2>4. \A q \in Providers : q # p => Apart(q)
      BY <1>3 DEF Start, Apart, provs
    <2>5. "idle" \notin BusyPc
      BY DEF BusyPc, LifecyclePc
    <2> QED BY <2>2, <2>3, <2>4, <2>5, LifeOthers
  <1>4. ASSUME NEW t \in Tasks, NEW p \in Providers,
               StartConnect(t, p) \/ StartDisconnect(t, p) \/ StartRefresh(t, p)
        PROVE  Life'
    BY <1>3, <1>4 DEF StartConnect, StartDisconnect, StartRefresh
  \* A step of an operation on p that goes on.
  <1>5. ASSUME NEW t \in Tasks, NEW p \in Providers, p = task[t].provider, t \in Lifecycle(p),
               LifeInv(p), NEW x, task' = [task EXCEPT ![t] = x], x.pc \in LifecyclePc,
               x.provider = p, slot'[p].present = slot[p].present, torn' = torn,
               registry'[p].state # "absent",
               p \notin torn /\ Stage(p, task[t]) => Stage(p, x)',
               p \notin raced' => /\ p \notin raced \/ Lifecycle(p) = {t}
                                  /\ Lifecycle(p) = {t} => Reporting(p, x)',
               \A q \in Providers : q # p => Apart(q)
        PROVE  Life'
    <2>1. LifeInv(p)'
      BY <1>0, <1>5, LifeMoves
    <2> QED BY <1>5, <2>1, LifeOthers
  <1>6. ASSUME NEW t \in Tasks, NEW p \in Providers, p = task[t].provider, t \in Lifecycle(p),
               LifeInv(p), Return(t), slot'[p].present = slot[p].present, torn \subseteq torn',
               registry'[p].state # "absent",
               p \notin torn' /\ Stage(p, task[t]) => Shown(p)',
               raced' = raced, catalog.revision[p] = catalog'.revision[p],
               catalog.offered[p] = catalog'.offered[p],
               p \notin raced /\ Reporting(p, task[t]) => Reported(p)',
               \A q \in Providers : q # p => Apart(q)
        PROVE  Life'
    <2>1. task' = [task EXCEPT ![t] = Idle]
      BY <1>6 DEF Return
    <2>2. LifeInv(p)'
      BY <1>0, <1>6, <2>1, LifeEnds
    <2>3. Idle.pc \notin BusyPc
      BY DEF Idle, BusyPc, LifecyclePc
    <2> QED BY <1>6, <2>1, <2>2, <2>3, LifeOthers
  <1>7. ASSUME NEW t \in Tasks, Announce(t) PROVE Life'
    <2>1. PICK p \in Providers : p = task[t].provider /\ t \in Lifecycle(p) /\ LifeInv(p)
                                 /\ slot[p].present /\ registry[p].state # "absent"
      BY <1>7, <1>at DEF Announce, At, LifecyclePc
    <2>2. PICK x : x = [task[t] EXCEPT !.pc = "open"]
      OBVIOUS
    <2>3. x.pc = "open" /\ x.provider = p /\ x.pc \in LifecyclePc /\ task[t].pc = "announce"
      BY <1>0, <1>7, <2>1, <2>2, Moved DEF Announce, At, LifecyclePc
    <2>4. /\ task' = [task EXCEPT ![t] = x] /\ UNCHANGED <<slot, live, catalog, torn, raced>>
          /\ registry'[p].state = "connecting"
          /\ registry'[p].revision = registry[p].revision
          /\ registry'[p].toolCount = registry[p].toolCount
          /\ \A q \in Providers : q # p => registry'[q] = registry[q]
      BY <1>0, <1>7, <2>1, <2>2 DEF Announce, Goto, Health
    <2>5. Stage(p, x)'
      BY <2>3, <2>4 DEF Stage
    <2>6. Reporting(p, task[t]) => Reporting(p, x)'
      BY <2>3, <2>4 DEF Reporting, Reported
    <2>7. \A q \in Providers : q # p => Apart(q)
      BY <2>4 DEF Apart
    <2>8. p \notin raced /\ Lifecycle(p) = {t} => Reporting(p, x)'
      BY <2>1, <2>6 DEF LifeInv
    <2>9. /\ task' = [task EXCEPT ![t] = x] /\ slot'[p].present = slot[p].present
          /\ torn' = torn /\ raced' = raced /\ registry'[p].state # "absent"
      BY <2>4
    <2> QED BY <1>5, <2>1, <2>3, <2>5, <2>7, <2>8, <2>9
  <1>8. ASSUME NEW t \in Tasks, Open(t) PROVE Life'
    <2>1. PICK p \in Providers : p = task[t].provider /\ t \in Lifecycle(p) /\ LifeInv(p)
                                 /\ slot[p].present /\ registry[p].state # "absent"
      BY <1>8, <1>at DEF Open, At, LifecyclePc
    <2>2. PICK n : n = opened + 1
      OBVIOUS
    <2>3. PICK x : x = [pc |-> "store", provider |-> p, conn |-> n]
      OBVIOUS
    <2>4. x.pc = "store" /\ x.provider = p /\ x.conn = n /\ x.pc \in LifecyclePc
          /\ task[t].pc = "open" /\ n # 0
      BY <1>0, <1>8, <2>2, <2>3 DEF Open, At, LifecyclePc
    <2>5. /\ task' = [task EXCEPT ![t] = x] /\ UNCHANGED <<registry, slot, catalog, torn, raced>>
          /\ live' = [live EXCEPT ![p] = n]
      BY <1>8, <2>1, <2>2, <2>3 DEF Open
    <2>6. live'[p] = n /\ \A q \in Providers : q # p => Apart(q)
      BY <1>0, <2>5 DEF Apart
    <2>7. Stage(p, x)'
      BY <2>4, <2>6 DEF Stage
    <2>8. p \notin raced /\ Lifecycle(p) = {t} => Reporting(p, x)'
      BY <2>1, <2>4, <2>5 DEF LifeInv, Reporting, Reported
    <2> QED BY <1>5, <2>1, <2>4, <2>5, <2>6, <2>7, <2>8
  <1>9. ASSUME NEW t \in Tasks, OpenFails(t) \/ ListFails(t) PROVE Life'
    <2>1. PICK p \in Providers : p = task[t].provider /\ t \in Lifecycle(p) /\ LifeInv(p)
                                 /\ slot[p].present /\ registry[p].state # "absent"
      BY <1>9, <1>at DEF OpenFails, ListFails, At, LifecyclePc
    <2>2. Return(t) /\ UNCHANGED <<registry, slot, live, catalog, raced>>
      BY <1>9 DEF OpenFails, ListFails, provs
    <2>3. /\ torn \subseteq torn' /\ torn' \subseteq torn \union {p}
          /\ p \notin torn' => task[t].pc = "list"
          /\ task[t].pc \in {"open", "list"}
      BY <1>9, <2>1 DEF OpenFails, ListFails, Tear, At
    <2>4. p \notin torn' /\ Stage(p, task[t]) => Shown(p)'
      BY <2>2, <2>3 DEF Stage, Shown
    <2>5. Reporting(p, task[t]) => Reported(p)'
      BY <2>2, <2>3 DEF Reporting, Reported
    <2>6. \A q \in Providers : q # p => Apart(q)
      BY <2>2, <2>3 DEF Apart
    <2> QED BY <1>6, <2>1, <2>2, <2>3, <2>4, <2>5, <2>6
  <1>10. ASSUME NEW t \in Tasks, Store(t) PROVE Life'
    <2>1. PICK p \in Providers : p = task[t].provider /\ t \in Lifecycle(p) /\ LifeInv(p)
                                 /\ slot[p].present /\ registry[p].state # "absent"
      BY <1>10, <1>at DEF Store, At, LifecyclePc
    <2>2. PICK x : x = [task[t] EXCEPT !.pc = "publish"]
      OBVIOUS
    <2>3. x.pc = "publish" /\ x.provider = p /\ x.pc \in LifecyclePc /\ task[t].pc = "store"
      BY <1>0, <1>10, <2>1, <2>2, Moved DEF Store, At, LifecyclePc
    <2>4. /\ task' = [task EXCEPT ![t] = x] /\ UNCHANGED <<registry, live, catalog, torn, raced>>
          /\ slot' = [slot EXCEPT ![p].conn = task[t].conn]
      BY <1>10, <2>1, <2>2 DEF Store, Goto
    <2>5. slot'[p].present = slot[p].present /\ slot'[p].conn = task[t].conn
          /\ \A q \in Providers : q # p => Apart(q)
      BY <1>0, <2>4 DEF Apart
    <2>6. Stage(p, task[t]) => Stage(p, x)'
      BY <2>3, <2>4, <2>5 DEF Stage
    <2>7. p \notin raced /\ Lifecycle(p) = {t} => Reporting(p, x)'
      BY <2>1, <2>3, <2>4 DEF LifeInv, Reporting, Reported
    <2> QED BY <1>5, <2>1, <2>3, <2>4, <2>5, <2>6, <2>7
  <1>11. ASSUME NEW t \in Tasks, Publish(t) PROVE Life'
    <2>1. PICK p \in Providers : p = task[t].provider /\ t \in Lifecycle(p) /\ LifeInv(p)
                                 /\ slot[p].present /\ registry[p].state # "absent"
      BY <1>11, <1>at DEF Publish, At, LifecyclePc
    <2>2. PICK x : x = [task[t] EXCEPT !.pc = "refresh"]
      OBVIOUS
    <2>3. x.pc = "refresh" /\ x.provider = p /\ x.pc \in LifecyclePc /\ task[t].pc = "publish"
      BY <1>0, <1>11, <2>1, <2>2, Moved DEF Publish, At, LifecyclePc
    <2>4. /\ task' = [task EXCEPT ![t] = x] /\ UNCHANGED <<slot, live, catalog, torn, raced>>
          /\ registry'[p].state = "connected" /\ registry'[p].healthy = TRUE
          /\ registry'[p].revision = registry[p].revision
          /\ registry'[p].toolCount = registry[p].toolCount
          /\ \A q \in Providers : q # p => registry'[q] = registry[q]
      BY <1>0, <1>11, <2>1, <2>2 DEF Publish, Goto, SetHealth, Health
    <2>5. Stage(p, task[t]) => Stage(p, x)'
      BY <2>3, <2>4 DEF Stage, Shown
    <2>6. p \notin raced /\ Lifecycle(p) = {t} => Reporting(p, x)'
      BY <2>1, <2>3, <2>4 DEF LifeInv, Reporting, Reported
    <2>7. \A q \in Providers : q # p => Apart(q)
      BY <2>4 DEF Apart
    <2>8. /\ task' = [task EXCEPT ![t] = x] /\ slot'[p].present = slot[p].present
          /\ torn' = torn /\ raced' = raced /\ registry'[p].state # "absent"
      BY <2>4
    <2> QED BY <1>5, <2>1, <2>3, <2>5, <2>6, <2>7, <2>8
  <1>12. ASSUME NEW t \in Tasks, RefreshAfterConnect(t) PROVE Life'
    <2>1. PICK p \in Providers : p = task[t].provider /\ t \in Lifecycle(p) /\ LifeInv(p)
                                 /\ slot[p].present /\ registry[p].state # "absent"
      BY <1>12, <1>at DEF RefreshAfterConnect, At, LifecyclePc
    <2>2. UNCHANGED <<registry, slot, live, catalog, torn, raced>> /\ task[t].pc = "refresh"
      BY <1>12 DEF RefreshAfterConnect, provs, At
    <2>3. \A q \in Providers : q # p => Apart(q)
      BY <2>2 DEF Apart
    <2>4. CASE Return(t)
      <3>1. Stage(p, task[t]) => Shown(p)'
        BY <2>2 DEF Stage, Shown
      <3>2. Reporting(p, task[t]) => Reported(p)'
        BY <2>2 DEF Reporting, Reported
      <3> QED BY <1>6, <2>1, <2>2, <2>3, <2>4, <3>1, <3>2
    <2>5. CASE Goto(t, "list")
      <3>1. PICK x : x = [task[t] EXCEPT !.pc = "list"]
        OBVIOUS
      <3>2. x.pc = "list" /\ x.provider = p /\ x.pc \in LifecyclePc
        BY <1>0, <2>1, <2>2, <3>1, Moved DEF LifecyclePc
      <3>3. task' = [task EXCEPT ![t] = x]
        BY <2>5, <3>1 DEF Goto
      <3>4. Stage(p, task[t]) => Stage(p, x)'
        BY <2>2, <3>2 DEF Stage, Shown
      <3>5. p \notin raced /\ Lifecycle(p) = {t} => Reporting(p, x)'
        BY <2>1, <2>2, <3>2 DEF LifeInv, Reporting, Reported
      <3> QED BY <1>5, <2>1, <2>2, <2>3, <3>2, <3>3, <3>4, <3>5
    <2> QED BY <1>12, <2>4, <2>5 DEF RefreshAfterConnect
  <1>13. ASSUME NEW t \in Tasks, NEW l \in Listings, ListTools(t, l) PROVE Life'
    <2>1. PICK p \in Providers : p = task[t].provider /\ t \in Lifecycle(p) /\ LifeInv(p)
                                 /\ slot[p].present /\ registry[p].state # "absent"
      BY <1>13, <1>at DEF ListTools, At, LifecyclePc
    <2>2. PICK x : x = [pc |-> "import", provider |-> p, listing |-> l]
      OBVIOUS
    <2>3. x.pc = "import" /\ x.provider = p /\ x.pc \in LifecyclePc /\ task[t].pc = "list"
      BY <1>13, <2>2 DEF ListTools, At, LifecyclePc
    <2>4. task' = [task EXCEPT ![t] = x] /\ UNCHANGED <<registry, slot, live, catalog, torn, raced>>
      BY <1>13, <2>1, <2>2 DEF ListTools, provs
    <2>5. \A q \in Providers : q # p => Apart(q)
      BY <2>4 DEF Apart
    <2>6. Stage(p, task[t]) => Stage(p, x)'
      BY <2>3, <2>4 DEF Stage, Shown
    <2>7. p \notin raced /\ Lifecycle(p) = {t} => Reporting(p, x)'
      BY <2>1, <2>3, <2>4 DEF LifeInv, Reporting, Reported
    <2> QED BY <1>5, <2>1, <2>3, <2>4, <2>5, <2>6, <2>7
  <1>14. ASSUME NEW t \in Tasks, Import(t) PROVE Life'
    <2>1. PICK p \in Providers : p = task[t].provider /\ t \in Lifecycle(p) /\ LifeInv(p)
                                 /\ slot[p].present /\ registry[p].state # "absent"
      BY <1>14, <1>at DEF Import, At, LifecyclePc
    <2>2. PICK l : l = task[t].listing
      OBVIOUS
    <2>3. /\ task[t].pc = "import" /\ catalog' = RefreshProvider(catalog, p, l)
          /\ UNCHANGED <<registry, slot, live, torn>>
      BY <1>14, <2>1, <2>2 DEF Import, At, provs
    <2>4. DOMAIN catalog.offered = Providers /\ DOMAIN catalog.revision = Providers
      BY <1>0 DEF Catalog
    <2>5. CASE AcceptsListing(l)
      <3>1. PICK x : x = [task[t] EXCEPT !.pc = "report"]
        OBVIOUS
      <3>2. x.pc = "report" /\ x.provider = p /\ x.listing = l /\ x.pc \in LifecyclePc
        BY <1>0, <2>1, <2>2, <2>3, <3>1, Moved DEF LifecyclePc
      <3>3. /\ task' = [task EXCEPT ![t] = x]
            /\ raced' = IF Lifecycle(p) = {t} THEN raced \ {p} ELSE raced
        BY <1>14, <2>1, <2>2, <2>5, <3>1 DEF Import, Goto
      <3>4. /\ catalog'.revision = [catalog.revision EXCEPT ![p] = Revision(l)]
            /\ catalog'.offered = [catalog.offered EXCEPT ![p] = Offered(l)]
        BY <2>3, <2>5 DEF RefreshProvider
      <3>5. Reporting(p, x)'
        BY <2>4, <3>2, <3>4 DEF Reporting
      <3>6. \A q \in Providers : q # p => Apart(q)
        BY <2>3, <2>4, <3>3, <3>4 DEF Apart
      <3>7. Stage(p, task[t]) => Stage(p, x)'
        BY <2>3, <3>2 DEF Stage, Shown
      <3>8. p \notin raced' => p \notin raced \/ Lifecycle(p) = {t}
        BY <3>3
      <3> QED BY <1>5, <2>1, <2>3, <3>2, <3>3, <3>5, <3>6, <3>7, <3>8
    <2>6. CASE ~AcceptsListing(l)
      <3>1. Return(t) /\ raced' = raced
        BY <1>14, <2>2, <2>6 DEF Import
      <3>2. catalog'.revision = catalog.revision /\ catalog'.offered = catalog.offered
        BY <1>0, <2>3, <2>6 DEF RefreshProvider, Catalog
      <3>3. Stage(p, task[t]) => Shown(p)'
        BY <2>3 DEF Stage, Shown
      <3>4. Reporting(p, task[t]) => Reported(p)'
        BY <2>3, <3>2 DEF Reporting, Reported
      <3>5. \A q \in Providers : q # p => Apart(q)
        BY <2>3, <3>1, <3>2 DEF Apart
      <3> QED BY <1>6, <2>1, <2>3, <3>1, <3>2, <3>3, <3>4, <3>5
    <2> QED BY <2>5, <2>6
  <1>15. ASSUME NEW t \in Tasks, Report(t) PROVE Life'
    <2>1. PICK p \in Providers : p = task[t].provider /\ t \in Lifecycle(p) /\ LifeInv(p)
                                 /\ slot[p].present /\ registry[p].state # "absent"
      BY <1>15, <1>at DEF Report, At, LifecyclePc
    <2>2. /\ Return(t) /\ UNCHANGED <<slot, live, catalog, torn, raced>> /\ task[t].pc = "report"
          /\ registry'[p].state = registry[p].state /\ registry'[p].healthy = registry[p].healthy
          /\ registry'[p].revision = Revision(task[t].listing)
          /\ registry'[p].toolCount = Cardinality(Offered(task[t].listing))
          /\ \A q \in Providers : q # p => registry'[q] = registry[q]
      BY <1>0, <1>15, <2>1 DEF Report, At, Health
    <2>3. Stage(p, task[t]) => Shown(p)'
      BY <2>2 DEF Stage, Shown
    <2>4. Reporting(p, task[t]) => Reported(p)'
      BY <2>2 DEF Reporting, Reported
    <2>5. \A q \in Providers : q # p => Apart(q)
      BY <2>2 DEF Apart
    <2> QED BY <1>6, <2>1, <2>2, <2>3, <2>4, <2>5
  <1>16. ASSUME NEW t \in Tasks, Close(t) PROVE Life'
    <2>1. PICK p \in Providers : p = task[t].provider /\ t \in Lifecycle(p) /\ LifeInv(p)
                                 /\ slot[p].present /\ registry[p].state # "absent"
      BY <1>16, <1>at DEF Close, At, LifecyclePc
    <2>2. PICK x : x = [task[t] EXCEPT !.pc = "clear"]
      OBVIOUS
    <2>3. x.pc = "clear" /\ x.provider = p /\ x.pc \in LifecyclePc /\ task[t].pc = "close"
      BY <1>0, <1>16, <2>1, <2>2, Moved DEF Close, At, LifecyclePc
    <2>4. /\ task' = [task EXCEPT ![t] = x] /\ UNCHANGED <<registry, slot, catalog, torn, raced>>
          /\ live' = [live EXCEPT ![p] = 0]
      BY <1>16, <2>1, <2>2 DEF Close, Goto
    <2>5. live'[p] = 0 /\ \A q \in Providers : q # p => Apart(q)
      BY <1>0, <2>4 DEF Apart
    <2>6. Stage(p, x)'
      BY <2>3, <2>5 DEF Stage
    <2>7. p \notin raced /\ Lifecycle(p) = {t} => Reporting(p, x)'
      BY <2>1, <2>3, <2>4 DEF LifeInv, Reporting, Reported
    <2> QED BY <1>5, <2>1, <2>3, <2>4, <2>5, <2>6, <2>7
  <1>17. ASSUME NEW t \in Tasks, CloseFails(t) PROVE Life'
    <2>1. PICK p \in Providers : p = task[t].provider /\ t \in Lifecycle(p) /\ LifeInv(p)
                                 /\ slot[p].present /\ registry[p].state # "absent"
      BY <1>17, <1>at DEF CloseFails, At, LifecyclePc
    <2>2. /\ Return(t) /\ UNCHANGED <<registry, slot, catalog, raced>> /\ task[t].pc = "close"
          /\ live' \in {live, [live EXCEPT ![p] = 0]} /\ torn' = torn \union {p}
      BY <1>17, <2>1 DEF CloseFails, At, Tear
    <2>3. Reporting(p, task[t]) => Reported(p)'
      BY <2>2 DEF Reporting, Reported
    <2>4. \A q \in Providers : q # p => Apart(q)
      BY <1>0, <2>2 DEF Apart
    <2> QED BY <1>6, <2>1, <2>2, <2>3, <2>4
  <1>18. ASSUME NEW t \in Tasks, Clear(t) PROVE Life'
    <2>1. PICK p \in Providers : p = task[t].provider /\ t \in Lifecycle(p) /\ LifeInv(p)
                                 /\ slot[p].present /\ registry[p].state # "absent"
      BY <1>18, <1>at DEF Clear, At, LifecyclePc
    <2>2. PICK x : x = [task[t] EXCEPT !.pc = "retract"]
      OBVIOUS
    <2>3. x.pc = "retract" /\ x.provider = p /\ x.pc \in LifecyclePc /\ task[t].pc = "clear"
      BY <1>0, <1>18, <2>1, <2>2, Moved DEF Clear, At, LifecyclePc
    <2>4. /\ task' = [task EXCEPT ![t] = x] /\ UNCHANGED <<registry, live, catalog, torn, raced>>
          /\ slot' = [slot EXCEPT ![p].conn = 0]
      BY <1>18, <2>1, <2>2 DEF Clear, Goto
    <2>5. slot'[p].present = slot[p].present /\ slot'[p].conn = 0
          /\ \A q \in Providers : q # p => Apart(q)
      BY <1>0, <2>4 DEF Apart
    <2>6. Stage(p, task[t]) => Stage(p, x)'
      BY <2>3, <2>4, <2>5 DEF Stage
    <2>7. p \notin raced /\ Lifecycle(p) = {t} => Reporting(p, x)'
      BY <2>1, <2>3, <2>4 DEF LifeInv, Reporting, Reported
    <2> QED BY <1>5, <2>1, <2>3, <2>4, <2>5, <2>6, <2>7
  <1>19. ASSUME NEW t \in Tasks, Retract(t) PROVE Life'
    <2>1. PICK p \in Providers : p = task[t].provider /\ t \in Lifecycle(p) /\ LifeInv(p)
                                 /\ slot[p].present /\ registry[p].state # "absent"
      BY <1>19, <1>at DEF Retract, At, LifecyclePc
    <2>2. /\ Return(t) /\ UNCHANGED <<slot, live, catalog, torn, raced>> /\ task[t].pc = "retract"
          /\ registry'[p].state = "disconnected" /\ registry'[p].healthy = FALSE
          /\ registry'[p].revision = registry[p].revision
          /\ registry'[p].toolCount = registry[p].toolCount
          /\ \A q \in Providers : q # p => registry'[q] = registry[q]
      BY <1>0, <1>19, <2>1 DEF Retract, SetHealth, At, Health
    <2>3. Stage(p, task[t]) => Shown(p)'
      BY <2>2 DEF Stage, Shown
    <2>4. Reporting(p, task[t]) => Reported(p)'
      BY <2>2 DEF Reporting, Reported
    <2>5. \A q \in Providers : q # p => Apart(q)
      BY <2>2 DEF Apart
    <2> QED BY <1>6, <2>1, <2>2, <2>3, <2>4, <2>5
  \* Calls touch neither providers nor lifecycle operations.
  <1>20. ASSUME NEW t \in Tasks, NEW x, task' = [task EXCEPT ![t] = x], task[t].pc \notin BusyPc,
                x.pc \notin BusyPc, UNCHANGED <<provs, catalog, torn, raced>>
         PROVE  Life'
    <2> SUFFICES ASSUME NEW q \in Providers PROVE LifeInv(q)'
      BY DEF Life
    <2>1. Apart(q) /\ LifeInv(q)
      BY <1>20 DEF Apart, provs, Life
    <2> QED BY <1>0, <1>20, <2>1, LifeApart
  <1>21. ASSUME NEW t \in Tasks, Calling(t) PROVE Life'
    <2>1. UNCHANGED <<provs, catalog, torn, raced>>
      BY <1>21 DEF Calling, StartCall, FindConnection, AcquireGlobal, AcquireProvider, Cancel,
                   Dispatch, Finish
    <2>2. CASE Cancel(t)
      BY <2>1, <2>2, LifeSame DEF Cancel
    <2>3. CASE \E id \in Providers \X Names, input \in Inputs : StartCall(t, id, input)
      <3>1. PICK id \in Providers \X Names, input \in Inputs : StartCall(t, id, input)
        BY <2>3
      <3>2. PICK x : x = [pc |-> "checked", provider |-> id[1], tool |-> id,
                          schema |-> catalog.tools[id].input, input |-> input]
        OBVIOUS
      <3>3. x.pc \notin BusyPc /\ task[t].pc \notin BusyPc /\ task' = [task EXCEPT ![t] = x]
        BY <3>1, <3>2 DEF StartCall, At, BusyPc, LifecyclePc
      <3> QED BY <1>20, <2>1, <3>3
    <2>4. CASE Return(t) /\ task[t].pc \in CallPc
      <3>1. Idle.pc \notin BusyPc /\ task[t].pc \notin BusyPc
        BY <2>4 DEF Idle, BusyPc, LifecyclePc, CallPc
      <3> QED BY <1>20, <2>1, <2>4, <3>1 DEF Return
    <2>5. ASSUME NEW pc \in CallPc, Goto(t, pc), task[t].pc \in CallPc
          PROVE  Life'
      <3>1. PICK x : x = [task[t] EXCEPT !.pc = pc]
        OBVIOUS
      <3>2. x.pc = pc /\ task[t].pc \notin BusyPc /\ pc \notin BusyPc
        BY <1>0, <2>5, <3>1, TaskShape DEF BusyPc, LifecyclePc, CallPc
      <3> QED BY <1>20, <2>1, <2>5, <3>1, <3>2 DEF Goto
    <2> QED BY <1>21, <2>2, <2>3, <2>4, <2>5
            DEF Calling, FindConnection, AcquireGlobal, AcquireProvider, Dispatch, Finish, At, CallPc
  <1>22. ASSUME UNCHANGED vars PROVE Life'
    BY <1>22, LifeSame DEF vars
  <1> QED BY <1>1, <1>2, <1>4, <1>7, <1>8, <1>9, <1>10, <1>11, <1>12, <1>13, <1>14, <1>15, <1>16,
             <1>17, <1>18, <1>19, <1>21, <1>22
          DEF Next, Connecting, Refreshing, Disconnecting

LEMMA LifeInit == Init => Life
  <1> SUFFICES ASSUME Init, NEW p \in Providers PROVE LifeInv(p)
    BY DEF Life
  <1>1. Lifecycle(p) = {} /\ Inserting(p) = {}
    BY DEF Init, Idle, Lifecycle, Inserting, LifecyclePc
  <1>2. /\ registry[p].state = "absent" /\ registry[p].healthy = FALSE
        /\ registry[p].revision = {} /\ registry[p].toolCount = 0
        /\ ~slot[p].present /\ slot[p].conn = 0 /\ live[p] = 0
    BY DEF Init
  <1>3. catalog.revision[p] = {} /\ catalog.offered[p] = {} /\ Cardinality({}) = 0
    BY FS_EmptySet DEF Init, EmptyCatalog
  <1> QED BY <1>1, <1>2, <1>3 DEF LifeInv, Quiescent, Alone, Reported

\* However registrations, connections, refreshes and disconnections of many
\* providers interleave and fail: once an operation that no other overlapped
\* has ended, the slot, the child, the registry's health, revision and tool
\* count, and the catalog agree.
THEOREM ConnectionsShown == Spec => []ConnectionHonest
  <1>1. TypeInv /\ Life /\ [Next]_vars => TypeInv' /\ Life'
    BY BrokerStep, LifeStep
  <1>2. TypeInv /\ Life => ConnectionHonest
    BY DEF Life, LifeInv, ConnectionHonest, ConnectionShown, RevisionShown, Shown, Reported,
           TypeInv, BrokerTypeOK
  <1> QED BY BrokerInit, LifeInit, <1>1, <1>2, PTL DEF Spec

\* And a route leads to a tool that was last offered, over the connection of
\* the provider's child.
THEOREM RoutesCallable == Spec => []RoutedIsCallable
  <1>1. TypeInv /\ Life /\ [Next]_vars => TypeInv' /\ Life'
    BY BrokerStep, LifeStep
  <1>2. TypeInv /\ Life => RoutedIsCallable
    <2> SUFFICES ASSUME TypeInv, Life PROVE RoutedIsCallable
      OBVIOUS
    <2> DEFINE connected == {p \in Providers : registry[p].state = "connected"}
    <2> SUFFICES ASSUME NEW preferred \in Providers \union {NoPreference},
                        NEW id, id = Route(catalog, connected, preferred), id # NoTool
                 PROVE  /\ id[2] \in catalog.offered[id[1]] \intersect Semantic
                        /\ Quiescent(id[1]) /\ id[1] \notin torn =>
                             slot[id[1]].conn = live[id[1]] /\ live[id[1]] # 0
      BY DEF RoutedIsCallable
    <2>1. id \in Candidates(catalog, connected, preferred)
      BY DEF Route
    <2>2. id \in ActiveTools(catalog) /\ id[1] \in connected /\ id[2] \in Semantic
      BY <2>1 DEF Candidates
    <2>3. id \in Providers \X Names /\ id[2] \in catalog.offered[id[1]]
      BY <2>2 DEF TypeInv, CatalogSound
    <2>4. id[1] \in Providers /\ registry[id[1]].state = "connected"
      BY <2>2
    <2>5. slot[id[1]].present
      BY <2>4 DEF Life, LifeInv
    <2>6. Quiescent(id[1]) /\ id[1] \notin torn => Shown(id[1])
      BY <2>4, <2>5 DEF Life, LifeInv
    <2> QED BY <2>2, <2>3, <2>4, <2>6 DEF Shown
  <1> QED BY BrokerInit, LifeInit, <1>1, <1>2, PTL DEF Spec

=============================================================================
