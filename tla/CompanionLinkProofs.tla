------------------------- MODULE CompanionLinkProofs -------------------------
(***************************************************************************)
(* Proofs about CompanionLink for every value of its constants. The broker *)
(* half rests on the lemmas of StudioBridgeProofs.                         *)
(***************************************************************************)
EXTENDS CompanionLink, BridgeContractProofs

----------------------------------------------------------------------------
(* The inductive invariant                                                 *)

\* The session the broker keeps for this plugin.
Mine(s) == s \in live /\ record[s].external = Self

\* The reports the daemon may still receive: those the network holds and the
\* one the plugin would send again.
Sent == (inbox \ {RegisterRequest}) \cup ({plugin.pending} \ {None})

\* A report the broker would take, were it handled now.
Fresh(m) == m.session \in live /\ m.sequence > record[m.session].lastSequence

Ran == {c \in Commands : executions[c] >= 1}
Acknowledged == plugin.pc = "reporting" /\ reply.status = 200
Executing == plugin.todo # {}

\* Where the loop is says what it waits for.
ShapeInv ==
  /\ reply # NoReply => plugin.pc \in {"registering", "reporting"}
  /\ plugin.pc = "registering" => plugin.awaiting = RegisterRequest
  /\ plugin.pc = "reporting" =>
       plugin.awaiting \in Reports /\ plugin.awaiting.sequence = plugin.sequence
  /\ plugin.pending # None => plugin.pending.sequence = plugin.sequence
  /\ plugin.pc = "registering" /\ reply.status = 200 => reply.session \in SessionIds
  /\ plugin.pc = "ready" => plugin.session \in SessionIds
  /\ Executing => plugin.pc = "top"

\* Every session the plugin or one of its reports names was issued, and is
\* registered for this plugin as long as it is registered.
Used == ({plugin.session, reply.session} \cup {m.session : m \in Sent}) \ {None}
UsedInv == \A s \in Used : s \in issued /\ (s \in live => record[s].external = Self)

SequenceInv ==
  /\ \A m \in Sent : m.sequence <= plugin.sequence
  /\ \A s \in SessionIds : Mine(s) => record[s].lastSequence <= plugin.sequence

\* Event numbers: what is ingested precedes what a report may still deliver,
\* which precedes what is still queued; and reports follow their sequence.
Increasing(q) == \A i, j \in DOMAIN q : i < j => q[i] < q[j]
Below(p, q) == \A i \in DOMAIN p, j \in DOMAIN q : p[i] < q[j]
Numbered(q) == Increasing(q) /\ \A i \in DOMAIN q : q[i] < plugin.nextEvent
EventInv ==
  /\ Numbered(plugin.events)
  /\ Numbered(ingested) /\ Below(ingested, plugin.events)
  /\ \A m \in Sent :
       /\ Numbered(m.events) /\ Below(m.events, plugin.events)
       /\ Fresh(m) => Below(ingested, m.events)
       /\ \A n \in Sent : /\ m.sequence < n.sequence => Below(m.events, n.events)
                          /\ m.sequence = n.sequence => m = n

\* A report that repeats the sequence the broker took last is that report.
TakenInv ==
  \A m \in Sent : m.session \in live /\ m.sequence = record[m.session].lastSequence => m = taken

\* A result is of an executed command, and an executed command was delivered.
ExecutionInv ==
  /\ plugin.results \cup ToSet(plugin.cache) \subseteq Ran
  /\ \A m \in Sent : m.results \subseteq Ran
  /\ Ran \cup plugin.todo \cup reply.commands \subseteq delivered
  /\ AnsweredWasExecuted

\* A command that has left the cache was followed by a cache full of others.
CacheInv ==
  /\ \A i, j \in DOMAIN plugin.cache :
       i < j => plugin.cache[i] # plugin.cache[j] /\ plugin.cache[j] \in since[plugin.cache[i]]
  /\ \A c \in Ran \ ToSet(plugin.cache) : Cardinality(since[c]) >= MaxCachedResults
  /\ \A c \in Commands \ Ran : since[c] = {}

\* Between the broker's answer to the current report and the end of the
\* executions it asks for, no report is under way that the broker would take.
QuietInv == Acknowledged \/ Executing => \A m \in Sent : ~Fresh(m)

\* And every leased command is among those executions and their results.
CoverInv ==
  \A s \in SessionIds : Mine(s) =>
    /\ Acknowledged => record[s].inFlight \subseteq reply.commands
    /\ Executing => record[s].inFlight \subseteq plugin.todo \cup plugin.results

\* A report that answers a command answers every leased command executed
\* before it: nothing can be answered while an older result stays behind.
JointInv ==
  \A s \in SessionIds : Mine(s) => \A c \in record[s].inFlight \cap Ran :
    /\ since[c] \cap plugin.results # {} => c \in plugin.results \cup plugin.todo
    /\ \A m \in Sent : Fresh(m) /\ since[c] \cap m.results # {} => c \in m.results

\* Neither c nor what was executed since c has been answered; so it is with
\* every command that is leased or that the plugin may be about to execute.
InVain(c) == call[c] # "answered" /\ \A d \in since[c] : call[d] # "answered"
VainInv ==
  /\ \A c \in plugin.todo : InVain(c)
  /\ Acknowledged => \A c \in reply.commands : InVain(c)
  /\ \A s \in SessionIds : Mine(s) =>
       /\ \A c \in record[s].inFlight : InVain(c)
       /\ record[s].lastSequence = plugin.sequence =>
            \A c \in record[s].lastResponse.commands : InVain(c)

LinkInv ==
  /\ BridgeInv /\ LinkTypeOK /\ ShapeInv /\ UsedInv /\ SequenceInv /\ EventInv /\ TakenInv
  /\ ExecutionInv /\ CacheInv /\ QuietInv /\ CoverInv /\ JointInv /\ VainInv

----------------------------------------------------------------------------
(* What a step does                                                        *)

\* A suffix of q, then x.
SuffixThen(w, q, x) ==
  /\ Len(w) \in Nat \ {0} /\ Len(w) <= Len(q) + 1
  /\ w[Len(w)] = x
  /\ \A i \in 1..(Len(w) - 1) :
       /\ i + (Len(q) + 1 - Len(w)) \in 1..Len(q)
       /\ w[i] = q[i + (Len(q) + 1 - Len(w))]

\* Every step of the link is one of seven kinds. The broker's part first: a
\* step after which every session is the old one with no more leases than
\* before, or a new one, and no call has been answered.
SameSession(s) ==
  /\ record'[s].external = record[s].external
  /\ record'[s].lastSequence = record[s].lastSequence
  /\ record'[s].lastResponse = record[s].lastResponse
  /\ record'[s].inFlight \subseteq record[s].inFlight
BrandNew(s) == s \notin issued /\ record'[s].lastSequence = NoReport /\ record'[s].inFlight = {}
BrokerQuiet ==
  /\ \A s \in live' : (s \in live /\ SameSession(s)) \/ BrandNew(s)
  /\ issued \subseteq issued' /\ delivered \subseteq delivered'
  /\ \A c \in Commands : call'[c] = "answered" => call[c] = "answered"

SameExecutions == UNCHANGED <<plugin.cache, executions, since>>
SameController ==
  /\ UNCHANGED <<plugin.sequence, plugin.events, plugin.results, plugin.todo, plugin.nextEvent>>
  /\ SameExecutions

\* 1. Nothing is sent that was not, and the loop learns at most its session.
IdleStep ==
  /\ BrokerQuiet /\ SameController /\ UNCHANGED ingested
  /\ taken' = taken \/ live' = {}
  /\ Sent' \subseteq Sent
  /\ Used' \subseteq Used \cup {external'[Self]}
  /\ reply'.commands \subseteq reply.commands
  /\ Acknowledged' => Acknowledged /\ reply'.commands = reply.commands

\* 2. The last report is answered again, the awaited one or a copy.
ReplayStep(m) ==
  /\ BrokerQuiet /\ SameController /\ UNCHANGED <<live, record, call, plugin, ingested, taken>>
  /\ m \in Sent /\ m.session \in live /\ record[m.session].lastSequence = m.sequence
  /\ inbox' \subseteq inbox
  /\ record[m.session].lastResponse.commands \subseteq delivered'
  /\ \/ reply' = reply
     \/ /\ plugin.pc = "reporting" /\ m = plugin.awaiting
        /\ reply' = Response(200, None, record[m.session].lastResponse.commands)

\* 3. The broker takes a report.
TakeStep(m) ==
  /\ m \in Sent /\ m \in Reports /\ Fresh(m)
  /\ UNCHANGED <<live, issued, plugin, executions, since>>
  /\ \A s \in SessionIds \ {m.session} : record'[s] = record[s]
  /\ LET r == record'[m.session]
     IN /\ r.external = record[m.session].external
        /\ r.lastSequence = m.sequence
        /\ r.lastResponse.commands = r.inFlight
        /\ r.inFlight \subseteq (record[m.session].inFlight \ m.results) \cup (Commands \ delivered)
        /\ r.inFlight \subseteq delivered'
  /\ delivered \subseteq delivered'
  /\ \A c \in Commands : call'[c] = "answered" => call[c] = "answered" \/ c \in m.results
  /\ inbox' \subseteq inbox
  /\ ingested' = ingested \o m.events /\ taken' = m
  /\ \/ reply' = reply
     \/ /\ plugin.pc = "reporting" /\ m = plugin.awaiting
        /\ reply' = Response(200, None, record'[m.session].lastResponse.commands)

\* 4. An event is queued and nothing is sent that was not.
EventStep ==
  /\ UNCHANGED <<vars, reply, ingested, taken>> /\ SameExecutions
  /\ UNCHANGED <<plugin.sequence, plugin.results, plugin.todo>>
  /\ LET e == Enqueued(plugin) IN plugin'.events = e.events /\ plugin'.nextEvent = e.nextEvent
  /\ Sent' \subseteq Sent /\ Used' \subseteq Used
  /\ Acknowledged' => Acknowledged

\* 5. A new report takes everything that is queued.
BuildStep ==
  /\ UNCHANGED <<vars, reply, ingested, taken>> /\ SameExecutions
  /\ plugin.todo = {} /\ plugin'.todo = {} /\ ~Acknowledged /\ ~Acknowledged'
  /\ plugin.session \in SessionIds
  /\ plugin'.sequence = plugin.sequence + 1
  /\ LET e == Enqueued(plugin)
     IN /\ plugin'.pending = [session |-> plugin.session, sequence |-> plugin'.sequence,
                              events |-> e.events, results |-> plugin.results]
        /\ plugin'.nextEvent = e.nextEvent
  /\ plugin'.events = <<>> /\ plugin'.results = {}
  /\ Sent' \subseteq Sent \cup {plugin'.pending} /\ Used' \subseteq Used

\* 6. The answer to the current report is received.
AcknowledgeStep ==
  /\ UNCHANGED <<vars, ingested, taken>> /\ SameExecutions
  /\ UNCHANGED <<plugin.sequence, plugin.events, plugin.results, plugin.nextEvent>>
  /\ Acknowledged /\ ~Acknowledged'
  /\ plugin'.todo = reply.commands /\ reply'.commands = {}
  /\ Sent' \subseteq Sent /\ Used' \subseteq Used

\* 7. A command is executed, or its cached result is used.
ExecuteStep(c) ==
  /\ c \in plugin.todo
  /\ UNCHANGED <<vars, reply, ingested, taken>>
  /\ UNCHANGED <<plugin.sequence, plugin.events, plugin.nextEvent>>
  /\ plugin'.todo = plugin.todo \ {c} /\ plugin'.results = plugin.results \cup {c}
  /\ Sent' \subseteq Sent /\ Used' \subseteq Used /\ ~Acknowledged /\ ~Acknowledged'
  /\ c \in ToSet(plugin.cache) => SameExecutions
  /\ c \notin ToSet(plugin.cache) =>
       /\ Len(plugin'.cache) = IF Len(plugin.cache) < MaxCachedResults
                               THEN Len(plugin.cache) + 1 ELSE MaxCachedResults
       /\ SuffixThen(plugin'.cache, plugin.cache, c)
       /\ executions' = [executions EXCEPT ![c] = @ + 1]
       /\ since' = [x \in Commands |->
                      IF x = c \/ executions[x] = 0 THEN {} ELSE since[x] \cup {c}]

LEMMA UnchangedQuiet == UNCHANGED vars => BrokerQuiet
  BY DEF vars, BrokerQuiet, SameSession

\* What register does, whoever registers: the sweep, and one entry.
LEMMA RegisterQuiet ==
  ASSUME TypeOK, IndexInv, NEW e \in Externals,
         RegisterKnown(e) \/ (\E s \in SessionIds : RegisterNew(e, s)) \/ RegisterRefused(e)
  PROVE  BrokerQuiet
  <1> DEFINE kept == AfterExpiry
  <1>0. /\ record \in [SessionIds -> SessionRecords] /\ live \subseteq SessionIds
        /\ kept.record \in [SessionIds -> SessionRecords]
        /\ kept.external \in [Externals -> SessionIds \cup {None}]
        /\ kept.live \subseteq live
        /\ \A s \in kept.live : kept.record[s] = record[s]
        /\ \A c \in Commands : kept.call[c] = "answered" => call[c] = "answered"
        /\ live \subseteq issued
    <2>1. /\ kept.record \in [SessionIds -> SessionRecords]
          /\ kept.external \in [Externals -> SessionIds \cup {None}]
      BY AfterExpiryType
    <2> QED BY <2>1 DEF TypeOK, IndexInv, IdsFresh, AfterExpiry
  <1>1. CASE RegisterKnown(e)
    <2> DEFINE t == kept.external[e]
    <2>1. /\ live' = kept.live /\ call' = kept.call /\ UNCHANGED <<issued, delivered>>
          /\ record' = [kept.record EXCEPT ![t] = Refreshed(@)]
      BY <1>1 DEF RegisterKnown
    <2>2. ASSUME NEW s \in kept.live
          PROVE  /\ Refreshed(record[s]).external = record[s].external
                 /\ Refreshed(record[s]).lastSequence = record[s].lastSequence
                 /\ Refreshed(record[s]).lastResponse = record[s].lastResponse
                 /\ Refreshed(record[s]).inFlight = record[s].inFlight
      <3>1. record[s] \in SessionRecords
        BY <1>0
      <3> QED BY <3>1 DEF Refreshed, SessionRecords
    <2> HIDE DEF kept, t
    <2>3. \A s \in kept.live : record'[s] \in {record[s], Refreshed(record[s])}
      BY <1>0, <2>1
    <2>4. \A s \in kept.live : SameSession(s)
      BY <2>2, <2>3 DEF SameSession
    <2> QED BY <1>0, <2>1, <2>4 DEF BrokerQuiet
  <1>2. ASSUME NEW s \in SessionIds, RegisterNew(e, s) PROVE BrokerQuiet
    <2>1. /\ live' = kept.live \cup {s} /\ issued' = issued \cup {s} /\ s \notin issued
          /\ record' = [kept.record EXCEPT ![s] = [EmptyRecord EXCEPT !.external = e]]
          /\ call' = kept.call /\ delivered' = delivered
      BY <1>2 DEF RegisterNew
    <2> HIDE DEF kept
    <2>2. BrandNew(s)
      BY <1>0, <2>1 DEF BrandNew, EmptyRecord
    <2>3. \A x \in kept.live : record'[x] = record[x]
      BY <1>0, <2>1
    <2>4. \A x \in kept.live : SameSession(x)
      BY <2>3 DEF SameSession
    <2> QED BY <1>0, <2>1, <2>2, <2>4 DEF BrokerQuiet
  <1>3. CASE RegisterRefused(e)
    <2>1. /\ live' = kept.live /\ record' = kept.record /\ call' = kept.call
          /\ UNCHANGED <<issued, delivered>>
      BY <1>3 DEF RegisterRefused
    <2> HIDE DEF kept
    <2>2. \A x \in kept.live : SameSession(x)
      BY <1>0, <2>1 DEF SameSession
    <2> QED BY <1>0, <2>1, <2>2 DEF BrokerQuiet
  <1> QED BY <1>1, <1>2, <1>3

LEMMA HostQuiet ==
  ASSUME TypeOK, IndexInv, Host
  PROVE  BrokerQuiet
  <1>0. record \in [SessionIds -> SessionRecords] /\ live \subseteq SessionIds
        /\ call \in [Commands -> Phases]
    BY DEF TypeOK
  <1>1. ASSUME live' \subseteq live, UNCHANGED <<issued, delivered>>,
               \A s \in live : SameSession(s),
               \A c \in Commands : call'[c] = "answered" => call[c] = "answered"
        PROVE  BrokerQuiet
    BY <1>1 DEF BrokerQuiet
  <1>2. ASSUME NEW e \in Externals, OtherStudio(e) PROVE BrokerQuiet
    BY <1>2, RegisterQuiet DEF OtherStudio
  <1>3. ASSUME NEW s \in SessionIds, NEW b \in Bindings, BindSession(s, b) PROVE BrokerQuiet
    <2>1. \A x \in live : SameSession(x)
      BY <1>0, <1>3 DEF BindSession, SameSession, SessionRecords
    <2> QED BY <1>1, <1>3, <2>1 DEF BindSession
  <1>4. ASSUME NEW s \in SessionIds, SessionGoesQuiet(s) PROVE BrokerQuiet
    <2>1. \A x \in live : SameSession(x)
      BY <1>0, <1>4 DEF SessionGoesQuiet, SameSession, SessionRecords
    <2> QED BY <1>1, <1>4, <2>1 DEF SessionGoesQuiet
  <1>5. ASSUME NEW c \in Commands, NEW s \in SessionIds, Call(c, s) PROVE BrokerQuiet
    <2>1. \A x \in live : SameSession(x)
      BY <1>0, <1>5 DEF Call, SameSession, SessionRecords
    <2> QED BY <1>0, <1>1, <1>5, <2>1 DEF Call
  <1>6. ASSUME NEW c \in Commands, CommandTimeout(c) \/ CallerGone(c) PROVE BrokerQuiet
    <2>1. \A x \in live : SameSession(x)
      BY <1>6 DEF CommandTimeout, CallerGone, SameSession
    <2> QED BY <1>0, <1>1, <1>6, <2>1 DEF CommandTimeout, CallerGone
  <1>7. ASSUME NEW c \in Commands, RemoveCommand(c) PROVE BrokerQuiet
    <2>1. \A x \in live : SameSession(x)
      BY <1>0, <1>7 DEF RemoveCommand, Removed, SameSession, SessionRecords
    <2> QED BY <1>0, <1>1, <1>7, <2>1 DEF RemoveCommand
  <1> QED BY <1>2, <1>3, <1>4, <1>5, <1>6, <1>7 DEF Host

LEMMA RestartQuiet == Restart /\ TypeOK => BrokerQuiet
  BY DEF Restart, BrokerQuiet, TypeOK

\* The broker forgets everything in a restart, and its invariant with it.
LEMMA RestartBridge ==
  ASSUME BridgeInv, Restart
  PROVE  BridgeInv'
  <1>0. /\ TypeOK /\ WorkInv
        /\ live' = {} /\ record' = [s \in SessionIds |-> EmptyRecord]
        /\ external' = [e \in Externals |-> None]
        /\ call' = [c \in Commands |-> IF call[c] \in {"waiting", "timedOut", "closed"}
                                       THEN "abandoned" ELSE call[c]]
        /\ UNCHANGED <<backend, home, answeredBy, issued, delivered>>
    BY DEF BridgeInv, Restart
  <1>1. TypeOK'
    BY <1>0, EmptyRecordType DEF TypeOK, Phases
  <1>2. IndexInv'
    BY <1>0 DEF IndexInv, SessionIndexConsistent, IdsFresh
  <1>3. WorkInv'
    <2>1. /\ EmptyRecord.responders = {} /\ EmptyRecord.lastResponse.commands = {}
          /\ ToSet(EmptyRecord.queued) = {}
      BY DEF EmptyRecord, NoResponse, ToSet
    <2>2. delivered \subseteq Commands
      BY <1>0 DEF TypeOK
    <2>3. \A c \in delivered : call[c] # "new"
      BY <1>0 DEF WorkInv
    <2>4. \A c \in delivered' : call'[c] # "new"
      BY <1>0, <2>2, <2>3
    <2>5. \A c \in Commands : call'[c] # "waiting"
      BY <1>0
    <2>6. \A s \in SessionIds : record'[s] = EmptyRecord
      BY <1>0
    <2> QED BY <2>1, <2>4, <2>5, <2>6, EmptyWork DEF WorkInv
  <1> QED BY <1>1, <1>2, <1>3 DEF BridgeInv

LEMMA NextBridge ==
  ASSUME BridgeInv, [Next]_vars
  PROVE  BridgeInv'
  BY TypeStep, IndexStep, WorkStep DEF BridgeInv

\* What a report changes in the broker, and what of it the link relies on.
LEMMA ReportEffect ==
  ASSUME BridgeInv, NEW s \in SessionIds, NEW q \in Nat, NEW results \in SUBSET delivered,
         NEW n \in Nat, Report(s, q, results, n)
  PROVE  /\ BridgeInv'
         /\ UNCHANGED <<live, issued>>
         /\ \A x \in SessionIds \ {s} : record'[x] = record[x]
         /\ record'[s].external = record[s].external
         /\ record'[s].lastSequence = q
         /\ record'[s].lastResponse.commands = record'[s].inFlight
         /\ record'[s].inFlight \subseteq (record[s].inFlight \ results) \cup (Commands \ delivered)
         /\ record'[s].inFlight \subseteq delivered'
         /\ delivered \subseteq delivered'
         /\ \A c \in Commands : call'[c] = "answered" => call[c] = "answered" \/ c \in results
  <1> DEFINE r == Ingested(record[s], results, n)
  <1>0. /\ TypeOK /\ IndexInv /\ WorkInv
        /\ record \in [SessionIds -> SessionRecords] /\ record[s] \in SessionRecords
    BY DEF BridgeInv, TypeOK
  <1>1. r \in SessionRecords
    BY <1>0, IngestedType
  <1>2. PICK commands \in Leased(r) :
          /\ record' = [record EXCEPT ![s] =
               [r EXCEPT !.lastSequence = q,
                         !.counts = CountsOf(r),
                         !.lastResponse = [sequence |-> q, commands |-> commands,
                                           dropped |-> r.dropped, backend |-> backend]]]
          /\ delivered' = delivered \cup commands
    BY DEF Report
  <1>3. r.external = record[s].external
    BY <1>0 DEF Ingested, Refreshed, SessionRecords
  <1>4. r.inFlight \subseteq (record[s].inFlight \ results) \cup (Commands \ delivered)
    <2> DEFINE k == LeaseCount(record[s], results)
    <2>1. r.inFlight = (record[s].inFlight \ results) \cup {record[s].queued[i] : i \in 1..k}
      <3> DEFINE fresh == Refreshed(record[s])
      <3>1. fresh \in SessionRecords
        BY <1>0, RefreshedType
      <3> HIDE DEF fresh, k
      <3> QED BY <3>1 DEF Ingested, SessionRecords, fresh, k
    <2>2. record[s].queued \in Seq(Commands) /\ k \in 0..Len(record[s].queued)
      BY <1>0, LeaseCountType DEF SessionRecords
    <2>3. /\ DOMAIN record[s].queued = 1..Len(record[s].queued) /\ Len(record[s].queued) \in Nat
          /\ \A i \in 1..Len(record[s].queued) : record[s].queued[i] \in Commands
      BY <2>2, LenProperties, ElementOfSeq
    <2> HIDE DEF k
    <2>4. {record[s].queued[i] : i \in 1..k} \subseteq ToSet(record[s].queued) \cap Commands
      BY <2>2, <2>3 DEF ToSet
    <2>5. ToSet(record[s].queued) \cap delivered = {}
      BY <1>0 DEF WorkInv
    <2> QED BY <2>1, <2>4, <2>5
  <1>5. TypeOK' /\ IndexInv' /\ WorkInv'
    BY <1>0, ReportType, ReportIndex, ReportWork
  <1> HIDE DEF r
  <1>6. /\ record'[s].external = r.external /\ record'[s].lastSequence = q
        /\ record'[s].lastResponse.commands = commands /\ record'[s].inFlight = r.inFlight
        /\ \A x \in SessionIds \ {s} : record'[x] = record[x]
    BY <1>0, <1>1, <1>2 DEF SessionRecords
  <1>7. commands = r.inFlight
    <2>1. record'[s].inFlight \subseteq record'[s].lastResponse.commands
      BY <1>5 DEF WorkInv, WorkOK
    <2> QED BY <1>6, <2>1 DEF Leased
  <1>8. \A c \in Commands : call'[c] = "answered" => call[c] = "answered" \/ c \in results
    BY DEF Report, Settled
  <1> QED BY <1>2, <1>3, <1>4, <1>5, <1>6, <1>7, <1>8 DEF Report, BridgeInv

LEMMA SentType ==
  ASSUME LinkTypeOK
  PROVE  /\ Sent \subseteq Reports /\ RegisterRequest \notin Reports
         /\ inbox \ {RegisterRequest} \subseteq Sent
         /\ reply \in Replies /\ NoReply.status = 0 /\ NoReply.commands = {} /\ NoReply.session = None
  <1>1. RegisterRequest \notin Reports
    BY LimitsAssumption DEF RegisterRequest, Reports
  <1>2. plugin.pending \in Reports \cup {None} /\ inbox \subseteq Reports \cup {RegisterRequest}
    BY DEF LinkTypeOK, Plugins
  <1>3. NoReply.status = 0 /\ NoReply.commands = {} /\ NoReply.session = None
    BY DEF NoReply, Response
  <1> QED BY <1>1, <1>2, <1>3 DEF LinkTypeOK, Sent

\* The controller's own steps that neither build, acknowledge nor execute.
LEMMA ControllerIdle ==
  ASSUME LinkTypeOK, ShapeInv,
         \/ Pair \/ SendRegister \/ ReceiveRegistration \/ Retry \/ RequestFails \/ TokenForgotten
         \/ ReceiveReportResponse /\ reply.status # 200
         \/ UNCHANGED allVars
  PROVE  IdleStep
  <1>0. /\ plugin \in Plugins /\ Sent \subseteq Reports /\ RegisterRequest \notin Reports
        /\ reply \in Replies /\ NoReply.status = 0 /\ NoReply.commands = {} /\ NoReply.session = None
    BY SentType DEF LinkTypeOK
  <1>1. ASSUME UNCHANGED <<vars, executions, since, ingested, taken>>,
               plugin' \in {plugin, [plugin EXCEPT !.pc = plugin'.pc, !.paired = plugin'.paired,
                               !.session = plugin'.session, !.pending = plugin'.pending,
                               !.awaiting = plugin'.awaiting]},
               plugin'.pending \in {plugin.pending, None},
               inbox' \subseteq inbox \cup {RegisterRequest},
               plugin'.session \in {plugin.session, None, reply.session},
               \/ reply' = NoReply
               \/ reply' = reply /\ (plugin'.pc = plugin.pc \/ plugin'.pc # "reporting")
        PROVE  IdleStep
    <2>1. SameController
      BY <1>0, <1>1 DEF SameController, SameExecutions, Plugins
    <2>2. Sent' \subseteq Sent
      BY <1>1 DEF Sent
    <2>3. Used' \subseteq Used \cup {external'[Self]}
      BY <1>0, <1>1, <2>2 DEF Used
    <2>4. reply'.commands \subseteq reply.commands
      BY <1>0, <1>1
    <2>5. Acknowledged' => Acknowledged /\ reply'.commands = reply.commands
      BY <1>0, <1>1 DEF Acknowledged
    <2> QED BY <1>1, <2>1, <2>2, <2>3, <2>4, <2>5, UnchangedQuiet DEF IdleStep
  <1>2. CASE Pair
    BY <1>0, <1>1, <1>2 DEF Pair, Cleared, Plugins
  <1>3. CASE SendRegister
    BY <1>0, <1>1, <1>3 DEF SendRegister, Plugins
  <1>4. CASE ReceiveRegistration
    <2>1. plugin' \in {[plugin EXCEPT !.pc = "ready", !.session = reply.session],
                      [plugin EXCEPT !.pc = "top"],
                      [Cleared(plugin) EXCEPT !.pc = "top"]}
          /\ reply' = NoReply /\ inbox' = inbox /\ UNCHANGED <<vars, executions, since, ingested, taken>>
      BY <1>4 DEF ReceiveRegistration, AfterRefusal
    <2>2. /\ plugin' = [plugin EXCEPT !.pc = plugin'.pc, !.paired = plugin'.paired,
                               !.session = plugin'.session, !.pending = plugin'.pending,
                               !.awaiting = plugin'.awaiting]
          /\ plugin'.pending \in {plugin.pending, None}
          /\ plugin'.session \in {plugin.session, None, reply.session}
      BY <1>0, <2>1 DEF Cleared, Plugins
    <2> QED BY <1>1, <2>1, <2>2
  <1>5. CASE Retry
    BY <1>0, <1>1, <1>5 DEF Retry, Cleared, Plugins
  <1>6. CASE RequestFails
    BY <1>0, <1>1, <1>6 DEF RequestFails, Plugins
  <1>7. CASE TokenForgotten
    BY <1>0, <1>1, <1>7 DEF TokenForgotten
  <1>8. CASE ReceiveReportResponse /\ reply.status # 200
    <2>1. plugin' \in {[plugin EXCEPT !.pc = "top"], [Cleared(plugin) EXCEPT !.pc = "top"]}
          /\ reply' = NoReply /\ inbox' = inbox /\ UNCHANGED <<vars, executions, since, ingested, taken>>
      BY <1>8 DEF ReceiveReportResponse, AfterRefusal
    <2>2. /\ plugin' = [plugin EXCEPT !.pc = plugin'.pc, !.paired = plugin'.paired,
                               !.session = plugin'.session, !.pending = plugin'.pending,
                               !.awaiting = plugin'.awaiting]
          /\ plugin'.pending \in {plugin.pending, None}
          /\ plugin'.session \in {plugin.session, None}
      BY <1>0, <2>1 DEF Cleared, Plugins
    <2> QED BY <1>1, <2>1, <2>2
  <1>9. CASE UNCHANGED allVars
    BY <1>0, <1>1, <1>9 DEF allVars, linkVars
  <1> QED BY <1>2, <1>3, <1>4, <1>5, <1>6, <1>7, <1>8, <1>9

\* The daemon's steps other than the handling of an acceptable report.
LEMMA DaemonIdle ==
  ASSUME BridgeInv, LinkTypeOK, ShapeInv,
         \/ HandleRegister \/ Restart \/ HostStep
         \/ \E m \in inbox : HandleUnauthorized(m) \/ HandleRefused(m)
  PROVE  IdleStep /\ BridgeInv'
  <1>0. /\ plugin \in Plugins /\ Sent \subseteq Reports /\ RegisterRequest \notin Reports
        /\ reply \in Replies /\ NoReply.status = 0 /\ NoReply.commands = {} /\ NoReply.session = None
        /\ TypeOK /\ IndexInv /\ Self \in Externals
    BY SentType, LinkAssumption DEF LinkTypeOK, BridgeInv
  <1>1. ASSUME BrokerQuiet, UNCHANGED <<plugin, executions, since, ingested>>,
               taken' = taken \/ live' = {},
               inbox' \subseteq inbox,
               NEW status, NEW session \in {None, external'[Self]},
               status # 200 \/ plugin.pc # "reporting",
               reply' \in {reply, NoReply, Response(status, session, {})}
        PROVE  IdleStep
    <2>1. SameController
      BY <1>1 DEF SameController, SameExecutions
    <2>2. Sent' \subseteq Sent
      BY <1>1 DEF Sent
    <2>3. Used' \subseteq Used \cup {external'[Self]}
      BY <1>0, <1>1, <2>2 DEF Used, Response
    <2>4. reply'.commands \subseteq reply.commands
      BY <1>0, <1>1 DEF Response
    <2>5. Acknowledged' => Acknowledged /\ reply'.commands = reply.commands
      BY <1>0, <1>1 DEF Acknowledged, Response
    <2> QED BY <1>1, <2>1, <2>2, <2>3, <2>4, <2>5 DEF IdleStep
  <1>2. CASE HandleRegister
    <2>1. RegisterKnown(Self) \/ (\E s \in SessionIds : RegisterNew(Self, s)) \/ RegisterRefused(Self)
      BY <1>2 DEF HandleRegister
    <2>2. BrokerQuiet /\ BridgeInv'
      BY <1>0, <2>1, RegisterQuiet, NextBridge DEF Next
    <2>3. plugin.pc = "reporting" => plugin.awaiting # RegisterRequest
      BY <1>0 DEF ShapeInv
    <2>4. CASE plugin.pc = "reporting"
      <3>1. reply' = reply
        BY <1>2, <2>3, <2>4 DEF HandleRegister, Respond, Awaited
      <3> QED BY <1>1, <1>2, <2>2, <3>1 DEF HandleRegister, HandledOnce
    <2>5. CASE plugin.pc # "reporting"
      <3> DEFINE status == IF external'[Self] = None THEN 429 ELSE 200
      <3>1. reply' \in {reply, Response(status, external'[Self], {})}
        BY <1>2 DEF HandleRegister, Respond
      <3> QED BY <1>1, <1>2, <2>2, <2>5, <3>1 DEF HandleRegister, HandledOnce
    <2> QED BY <2>4, <2>5
  <1>3. CASE Restart
    <2>1. BrokerQuiet /\ BridgeInv'
      BY <1>0, <1>3, RestartQuiet, RestartBridge
    <2>2. inbox' = {} /\ reply' = NoReply /\ live' = {}
          /\ UNCHANGED <<plugin, executions, since, ingested>>
      BY <1>3 DEF Restart
    <2> QED BY <1>1, <2>1, <2>2
  <1>4. CASE HostStep
    <2>1. Host /\ UNCHANGED linkVars
      BY <1>4 DEF HostStep
    <2>2. BrokerQuiet
      BY <1>0, <2>1, HostQuiet
    <2>3. Next
      BY <2>1 DEF Host, OtherStudio, Next
    <2>4. BridgeInv'
      BY <2>3, NextBridge
    <2>5. UNCHANGED <<plugin, inbox, reply, executions, since, ingested, taken>>
      BY <2>1 DEF linkVars
    <2> QED BY <1>1, <2>2, <2>4, <2>5
  <1>5. ASSUME NEW m \in inbox, HandleUnauthorized(m) PROVE IdleStep /\ BridgeInv'
    <2>1. UNCHANGED vars /\ UNCHANGED <<plugin, executions, since, ingested, taken>> /\ inbox' \subseteq inbox
          /\ reply' \in {reply, Response(401, None, {})}
      BY <1>5 DEF HandleUnauthorized, Respond, HandledOnce
    <2> QED BY <1>1, <2>1, UnchangedQuiet, NextBridge
  <1>6. ASSUME NEW m \in inbox, HandleRefused(m) PROVE IdleStep /\ BridgeInv'
    <2>1. UNCHANGED vars /\ UNCHANGED <<plugin, executions, since, ingested, taken>> /\ inbox' \subseteq inbox
          /\ reply' \in {reply, Response(Refusal(m), None, {})} /\ Refusal(m) # 200
      BY <1>6 DEF HandleRefused, Respond, HandledOnce
    <2> QED BY <1>1, <2>1, UnchangedQuiet, NextBridge
  <1> QED BY <1>2, <1>3, <1>4, <1>5, <1>6

\* The handling of a report the broker accepts, as a fresh one or again.
LEMMA ReportHandled ==
  ASSUME LinkInv, NEW m \in inbox, HandleReport(m)
  PROVE  BridgeInv' /\ (TakeStep(m) \/ ReplayStep(m))
  <1>0. /\ BridgeInv /\ TypeOK /\ WorkInv /\ LinkTypeOK /\ ShapeInv /\ ExecutionInv
    BY DEF LinkInv, BridgeInv
  <1>1. /\ m \in Sent /\ m \in Reports /\ m # RegisterRequest
        /\ inbox' \subseteq inbox /\ UNCHANGED <<plugin, executions, since>>
    BY <1>0, SentType DEF HandleReport, HandledOnce
  <1>2. /\ m.session \in SessionIds /\ m.sequence \in Nat /\ m.results \subseteq delivered
        /\ Len(m.events) \in Nat /\ m.results \subseteq Commands
    <2>1. m.session \in SessionIds /\ m.sequence \in 1..SequenceBound /\ m.events \in Seq(1..EventBound)
          /\ m.results \subseteq Commands
      BY <1>1 DEF Reports
    <2>2. SequenceBound \in Nat
      BY LimitsAssumption
    <2> QED BY <1>0, <1>1, <2>1, <2>2, LenProperties DEF ExecutionInv
  <1>3. \/ reply' = reply
        \/ /\ plugin.pc = "reporting" /\ m = plugin.awaiting
           /\ reply' = Response(200, None, record'[m.session].lastResponse.commands)
    BY <1>0, <1>1 DEF HandleReport, Respond, Awaited, ShapeInv
  <1>4. CASE /\ Report(m.session, m.sequence, m.results, Len(m.events)) /\ ingested' = ingested \o m.events
             /\ taken' = m
    <2>1. Fresh(m)
      BY <1>4 DEF Report, Fresh
    <2> DEFINE s == m.session
    <2>2. m.sequence \in Nat /\ m.results \in SUBSET delivered /\ s \in SessionIds
          /\ Report(s, m.sequence, m.results, Len(m.events))
      BY <1>2, <1>4
    <2> HIDE DEF s
    <2>3. /\ BridgeInv'
          /\ UNCHANGED <<live, issued>>
          /\ \A x \in SessionIds \ {s} : record'[x] = record[x]
          /\ record'[s].external = record[s].external
          /\ record'[s].lastSequence = m.sequence
          /\ record'[s].lastResponse.commands = record'[s].inFlight
          /\ record'[s].inFlight \subseteq
               (record[s].inFlight \ m.results) \cup (Commands \ delivered)
          /\ record'[s].inFlight \subseteq delivered'
          /\ delivered \subseteq delivered'
          /\ \A c \in Commands : call'[c] = "answered" => call[c] = "answered" \/ c \in m.results
      BY <1>0, <1>2, <2>2, ReportEffect
    <2> QED BY <1>1, <1>3, <1>4, <2>1, <2>3 DEF TakeStep, s
  <1>5. CASE /\ record[m.session].lastSequence = m.sequence
             /\ ReportReplay(m.session) /\ UNCHANGED <<ingested, taken>>
    <2>1. /\ m.session \in live /\ UNCHANGED <<live, record, external, backend, call, home, answeredBy, issued>>
          /\ delivered' = delivered \cup record[m.session].lastResponse.commands
      BY <1>5 DEF ReportReplay
    <2>2. BrokerQuiet
      BY <2>1 DEF BrokerQuiet, SameSession
    <2>3. BridgeInv'
      BY <1>0, <1>2, <1>5, NextBridge DEF Next
    <2>4. SameController
      BY <1>1 DEF SameController, SameExecutions
    <2> QED BY <1>1, <1>3, <1>5, <2>1, <2>2, <2>3, <2>4 DEF ReplayStep
  <1> QED BY <1>4, <1>5 DEF HandleReport

----------------------------------------------------------------------------
(* Lemmas about the controller's operators                                 *)

\* A bounded queue after one more element has dropped at most the oldest one.
LEMMA BoundedAppend ==
  ASSUME NEW S, NEW q \in Seq(S), NEW x \in S, NEW max \in Nat \ {0}, Len(q) <= max
  PROVE  LET w == DropFirst(Append(q, x), Monus(Len(Append(q, x)), max))
         IN /\ w \in Seq(S) /\ Len(w) <= max
            /\ Len(w) = IF Len(q) < max THEN Len(q) + 1 ELSE max
            /\ SuffixThen(w, q, x)
  <1> DEFINE all == Append(q, x)
             k == Monus(Len(all), max)
             w == DropFirst(all, k)
  <1>1. /\ all \in Seq(S) /\ Len(all) = Len(q) + 1 /\ Len(q) \in Nat
        /\ \A i \in 1..Len(q) : all[i] = q[i]
        /\ all[Len(q) + 1] = x
    BY AppendProperties, LenProperties
  <1> HIDE DEF all
  <1>2. k \in 0..Len(all) /\ k = IF Len(q) < max THEN 0 ELSE 1
    BY <1>1 DEF Monus
  <1>3. /\ w \in Seq(S) /\ Len(w) = Len(all) - k
        /\ \A i \in 1..(Len(all) - k) : w[i] = all[k + i]
    BY <1>1, <1>2, DropFirstProperties
  <1> HIDE DEF k, w
  <1>4. Len(w) = IF Len(q) < max THEN Len(q) + 1 ELSE max
    BY <1>1, <1>2, <1>3
  <1>5. Len(w) \in Nat \ {0} /\ Len(w) <= max
    BY <1>1, <1>4
  <1>6. w[Len(w)] = x
    <2>1. Len(w) \in 1..(Len(all) - k) /\ k + Len(w) = Len(q) + 1
      BY <1>1, <1>2, <1>3, <1>5
    <2> QED BY <1>1, <1>3, <2>1
  <1>7. ASSUME NEW i \in 1..(Len(w) - 1)
        PROVE  /\ i + (Len(q) + 1 - Len(w)) \in 1..Len(q)
               /\ w[i] = q[i + (Len(q) + 1 - Len(w))]
    <2>1. /\ i \in 1..(Len(all) - k) /\ k + i \in 1..Len(q)
          /\ k + i = i + (Len(q) + 1 - Len(w))
      BY <1>1, <1>2, <1>3, <1>5
    <2> QED BY <1>1, <1>3, <2>1
  <1>8. SuffixThen(w, q, x)
    <2>1. Len(w) <= Len(q) + 1
      BY <1>1, <1>4
    <2> QED BY <1>5, <1>6, <1>7, <2>1 DEF SuffixThen
  <1> QED BY <1>3, <1>4, <1>5, <1>8 DEF all, k, w

\* An event is numbered above every older one.
LEMMA EnqueuedEvents ==
  ASSUME NEW p \in Plugins, Len(p.events) <= MaxQueuedEvents,
         NEW e, e = Enqueued(p)
  PROVE  /\ e \in Plugins /\ Len(e.events) <= MaxQueuedEvents
         /\ e = [p EXCEPT !.events = e.events, !.nextEvent = e.nextEvent]
         /\ p.nextEvent <= e.nextEvent
         /\ Increasing(p.events) /\ (\A i \in DOMAIN p.events : p.events[i] < p.nextEvent) =>
              Increasing(e.events) /\ (\A i \in DOMAIN e.events : e.events[i] < e.nextEvent)
         /\ \A q : Below(q, p.events) /\ (\A i \in DOMAIN q : q[i] < p.nextEvent) =>
              Below(q, e.events)
  <1>0. /\ p.events \in Seq(1..EventBound) /\ Len(p.events) \in Nat
        /\ DOMAIN p.events = 1..Len(p.events)
        /\ p.nextEvent \in 1..(EventBound + 1) /\ EventBound \in Nat
        /\ MaxQueuedEvents \in Nat \ {0}
        /\ \A i \in 1..Len(p.events) : p.events[i] \in 1..EventBound
    <2>1. p.events \in Seq(1..EventBound)
      BY DEF Plugins
    <2> QED BY <2>1, LenProperties, ElementOfSeq, LimitsAssumption, LinkAssumption DEF Plugins
  <1>1. CASE p.nextEvent > EventBound
    <2>1. e = p
      BY <1>1 DEF Enqueued
    <2>2. e = [p EXCEPT !.events = e.events, !.nextEvent = e.nextEvent]
      BY <2>1 DEF Plugins
    <2>3. p.nextEvent <= p.nextEvent
      BY <1>0
    <2> QED BY <2>1, <2>2, <2>3, Zenon
  <1>2. CASE ~(p.nextEvent > EventBound)
    <2> DEFINE w == DropFirst(Append(p.events, p.nextEvent),
                              Monus(Len(Append(p.events, p.nextEvent)), MaxQueuedEvents))
               d == Len(p.events) + 1 - Len(w)
    <2>1. p.nextEvent \in 1..EventBound
      BY <1>0, <1>2
    <2>2. e = [p EXCEPT !.events = w, !.nextEvent = p.nextEvent + 1]
      BY <1>2 DEF Enqueued
    <2> HIDE DEF w, d
    <2>10. w = DropFirst(Append(p.events, p.nextEvent),
                         Monus(Len(Append(p.events, p.nextEvent)), MaxQueuedEvents))
      BY DEF w
    <2>3. /\ w \in Seq(1..EventBound) /\ Len(w) <= MaxQueuedEvents /\ Len(w) \in Nat \ {0}
          /\ w[Len(w)] = p.nextEvent
          /\ \A i \in 1..(Len(w) - 1) : i + d \in 1..Len(p.events) /\ w[i] = p.events[i + d]
      <3> DEFINE S == 1..EventBound
      <3>1. p.events \in Seq(S) /\ p.nextEvent \in S
        BY <1>0, <2>1
      <3> HIDE DEF S
      <3>2. w \in Seq(S) /\ Len(w) <= MaxQueuedEvents /\ SuffixThen(w, p.events, p.nextEvent)
        BY <1>0, <2>10, <3>1, BoundedAppend
      <3> QED BY <3>2 DEF S, d, SuffixThen
    <2>4. e.events = w /\ e.nextEvent = p.nextEvent + 1
      BY <2>2 DEF Plugins
    <2>5. e.nextEvent \in 1..(EventBound + 1)
      BY <1>0, <2>1, <2>4
    <2>6. DOMAIN w = 1..Len(w) /\ d \in Int
      BY <1>0, <2>3, LenProperties DEF d
    <2>7. ASSUME Increasing(p.events), \A i \in DOMAIN p.events : p.events[i] < p.nextEvent
          PROVE  Increasing(w) /\ \A i \in DOMAIN w : w[i] < e.nextEvent
      <3>1. ASSUME NEW i \in DOMAIN w PROVE w[i] < e.nextEvent
        <4>1. CASE i = Len(w)
          BY <1>0, <2>3, <2>4, <4>1
        <4>2. CASE i # Len(w)
          <5>1. i \in 1..(Len(w) - 1) /\ i + d \in 1..Len(p.events) /\ w[i] = p.events[i + d]
            BY <2>3, <2>6, <4>2
          <5>2. p.events[i + d] < p.nextEvent /\ p.events[i + d] \in 1..EventBound
            BY <1>0, <2>7, <5>1
          <5> QED BY <1>0, <2>4, <5>1, <5>2
        <4> QED BY <4>1, <4>2
      <3>2. ASSUME NEW i \in DOMAIN w, NEW j \in DOMAIN w, i < j PROVE w[i] < w[j]
        <4>1. i \in 1..(Len(w) - 1) /\ i + d \in 1..Len(p.events) /\ w[i] = p.events[i + d]
          BY <2>3, <2>6, <3>2
        <4>2. CASE j = Len(w)
          BY <1>0, <2>3, <2>7, <4>1, <4>2
        <4>3. CASE j # Len(w)
          <5>1. j \in 1..(Len(w) - 1) /\ j + d \in 1..Len(p.events) /\ w[j] = p.events[j + d]
            BY <2>3, <2>6, <3>2, <4>3
          <5>2. i + d < j + d
            BY <2>6, <3>2
          <5> QED BY <1>0, <2>7, <4>1, <5>1, <5>2 DEF Increasing
        <4> QED BY <4>2, <4>3
      <3> QED BY <3>1, <3>2 DEF Increasing
    <2>8. ASSUME NEW q, Below(q, p.events), \A i \in DOMAIN q : q[i] < p.nextEvent
          PROVE  Below(q, w)
      <3>1. ASSUME NEW i \in DOMAIN q, NEW j \in DOMAIN w PROVE q[i] < w[j]
        <4>1. CASE j = Len(w)
          BY <2>3, <2>8, <4>1
        <4>2. CASE j # Len(w)
          <5>1. j \in 1..(Len(w) - 1) /\ j + d \in 1..Len(p.events) /\ w[j] = p.events[j + d]
            BY <2>3, <2>6, <4>2
          <5> QED BY <1>0, <2>8, <5>1 DEF Below
        <4> QED BY <4>1, <4>2
      <3> QED BY <3>1 DEF Below
    <2>9. /\ e \in Plugins
          /\ e = [p EXCEPT !.events = e.events, !.nextEvent = e.nextEvent]
      BY <2>2, <2>3, <2>4, <2>5 DEF Plugins
    <2> QED BY <1>0, <2>1, <2>3, <2>4, <2>7, <2>8, <2>9
  <1> QED BY <1>1, <1>2

\* The report the loop sends is the pending one, or a new one with everything
\* that is queued and the next number.
LEMMA BuiltFields ==
  ASSUME NEW p \in Plugins, NEW b, b = Built(p), b.sequence <= SequenceBound,
         p.pending = None => p.session \in SessionIds
  PROVE  /\ b \in Plugins
         /\ p.pending # None => b = p
         /\ p.pending = None =>
              /\ b = [p EXCEPT !.sequence = b.sequence, !.pending = b.pending,
                               !.events = <<>>, !.results = {}]
              /\ b.sequence = p.sequence + 1
              /\ b.pending = [session |-> p.session, sequence |-> b.sequence,
                              events |-> p.events, results |-> p.results]
              /\ b.pending \in Reports
              /\ b.events = <<>> /\ b.results = {}
  <1>1. CASE p.pending # None
    BY <1>1 DEF Built
  <1>2. CASE p.pending = None
    <2> DEFINE m == [session |-> p.session, sequence |-> p.sequence + 1,
                     events |-> p.events, results |-> p.results]
    <2>1. b = [p EXCEPT !.sequence = p.sequence + 1, !.pending = m,
                        !.events = <<>>, !.results = {}]
      BY <1>2 DEF Built
    <2>2. b.sequence = p.sequence + 1 /\ b.pending = m /\ b.events = <<>> /\ b.results = {}
      BY <2>1 DEF Plugins
    <2>3. p.sequence \in 0..SequenceBound /\ SequenceBound \in Nat
      BY LimitsAssumption DEF Plugins
    <2>4. p.sequence + 1 \in 1..SequenceBound /\ p.sequence + 1 \in 0..SequenceBound
      BY <2>2, <2>3
    <2>5. m \in Reports
      BY <1>2, <2>4 DEF Plugins, Reports
    <2>6. <<>> \in Seq(1..EventBound)
      BY EmptySeq
    <2> HIDE DEF m
    <2>7. b \in Plugins
      BY <2>1, <2>3, <2>4, <2>5, <2>6 DEF Plugins
    <2> QED BY <1>2, <2>1, <2>2, <2>5, <2>7 DEF m
  <1> QED BY <1>1, <1>2

----------------------------------------------------------------------------
(* The steps of the loop                                                   *)

LEMMA EventQueued ==
  ASSUME LinkTypeOK, StudioEvent
  PROVE  /\ EventStep
         /\ plugin' \in Plugins /\ Len(plugin'.events) <= MaxQueuedEvents
         /\ plugin' = [plugin EXCEPT !.events = plugin'.events, !.nextEvent = plugin'.nextEvent]
  <1> DEFINE e == Enqueued(plugin)
  <1>0. plugin \in Plugins /\ Len(plugin.events) <= MaxQueuedEvents
    BY DEF LinkTypeOK
  <1>1. /\ plugin' = e
        /\ UNCHANGED <<vars, inbox, reply, executions, since, ingested, taken>>
    BY DEF StudioEvent
  <1>2. /\ e \in Plugins /\ Len(e.events) <= MaxQueuedEvents
        /\ e = [plugin EXCEPT !.events = e.events, !.nextEvent = e.nextEvent]
    BY <1>0, EnqueuedEvents
  <1> HIDE DEF e
  <1>3. UNCHANGED <<plugin.sequence, plugin.results, plugin.todo, plugin.cache, plugin.pc,
                    plugin.pending, plugin.session>>
    BY <1>0, <1>1, <1>2 DEF Plugins
  <1>4. plugin'.events = e.events /\ plugin'.nextEvent = e.nextEvent
    BY <1>1
  <1>5. Sent' \subseteq Sent /\ Used' \subseteq Used /\ (Acknowledged' => Acknowledged)
    BY <1>1, <1>3 DEF Sent, Used, Acknowledged
  <1> QED BY <1>1, <1>2, <1>3, <1>4, <1>5 DEF EventStep, SameExecutions, e

LEMMA ReportSent ==
  ASSUME LinkTypeOK, ShapeInv, SendReport
  PROVE  /\ EventStep \/ BuildStep
         /\ plugin' \in Plugins /\ Len(plugin'.events) <= MaxQueuedEvents
         /\ UNCHANGED plugin.cache
         /\ reply = NoReply /\ plugin'.todo = {}
         /\ plugin'.pc \in {"top", "reporting"}
         /\ plugin'.pending \in Reports /\ plugin'.pending.sequence = plugin'.sequence
         /\ plugin'.pc = "reporting" => plugin'.awaiting = plugin'.pending
         /\ inbox' \subseteq inbox \cup {plugin'.pending}
  <1> DEFINE e == Enqueued(plugin)
             b == Built(e)
  <1>0. /\ plugin \in Plugins /\ Len(plugin.events) <= MaxQueuedEvents
        /\ reply \in Replies /\ NoReply.status = 0
    BY SentType DEF LinkTypeOK
  <1>1. /\ plugin.pc = "ready" \/ (AtTop /\ plugin.paired /\ plugin.session # None)
        /\ b.sequence <= SequenceBound
        /\ \/ plugin' = [b EXCEPT !.pc = "reporting", !.awaiting = b.pending]
           \/ plugin' = [b EXCEPT !.pc = "top"]
        /\ inbox' \in {inbox, inbox \cup {b.pending}}
        /\ UNCHANGED <<vars, reply, executions, since, ingested, taken>>
    BY DEF SendReport
  <1>2. /\ plugin.session \in SessionIds /\ plugin.todo = {} /\ reply = NoReply
        /\ plugin.pc \notin {"registering", "reporting"}
    BY <1>0, <1>1 DEF ShapeInv, Plugins, AtTop, Executing
  <1>3. /\ e \in Plugins /\ Len(e.events) <= MaxQueuedEvents
        /\ e = [plugin EXCEPT !.events = e.events, !.nextEvent = e.nextEvent]
    BY <1>0, EnqueuedEvents
  <1> HIDE DEF e
  <1>4. /\ e.sequence = plugin.sequence /\ e.results = plugin.results /\ e.todo = plugin.todo
        /\ e.cache = plugin.cache /\ e.pending = plugin.pending /\ e.session = plugin.session
    BY <1>0, <1>3 DEF Plugins
  <1>5. /\ b \in Plugins
        /\ e.pending # None => b = e
        /\ e.pending = None =>
             /\ b = [e EXCEPT !.sequence = b.sequence, !.pending = b.pending,
                              !.events = <<>>, !.results = {}]
             /\ b.sequence = e.sequence + 1
             /\ b.pending = [session |-> e.session, sequence |-> b.sequence,
                             events |-> e.events, results |-> e.results]
             /\ b.pending \in Reports
             /\ b.events = <<>> /\ b.results = {}
    BY <1>1, <1>2, <1>3, <1>4, BuiltFields
  <1> HIDE DEF b
  <1>6. /\ b.todo = {} /\ b.cache = plugin.cache /\ b.session = plugin.session
        /\ b.nextEvent = e.nextEvent
    BY <1>2, <1>3, <1>4, <1>5 DEF Plugins
  <1>7. b.pending \in Reports /\ b.pending.sequence = b.sequence
    BY <1>0, <1>4, <1>5 DEF Plugins, ShapeInv
  <1>8. /\ plugin' \in Plugins
        /\ plugin'.todo = {} /\ plugin'.cache = plugin.cache /\ plugin'.session = plugin.session
        /\ plugin'.nextEvent = b.nextEvent /\ plugin'.events = b.events
        /\ plugin'.pending = b.pending /\ plugin'.sequence = b.sequence /\ plugin'.results = b.results
        /\ plugin'.pc \in {"top", "reporting"}
        /\ plugin'.pc = "reporting" => plugin'.awaiting = plugin'.pending
    <2>1. b \in Plugins /\ b.pending \in Reports
      BY <1>5, <1>7
    <2>2. /\ plugin' \in Plugins
          /\ plugin'.todo = b.todo /\ plugin'.cache = b.cache /\ plugin'.session = b.session
          /\ plugin'.nextEvent = b.nextEvent /\ plugin'.events = b.events
          /\ plugin'.pending = b.pending /\ plugin'.sequence = b.sequence /\ plugin'.results = b.results
          /\ plugin'.pc \in {"top", "reporting"}
          /\ plugin'.pc = "reporting" => plugin'.awaiting = b.pending
      <3>1. CASE plugin' = [b EXCEPT !.pc = "reporting", !.awaiting = b.pending]
        BY <2>1, <3>1 DEF Plugins
      <3>2. CASE plugin' = [b EXCEPT !.pc = "top"]
        BY <2>1, <3>2 DEF Plugins
      <3> QED BY <1>1, <3>1, <3>2
    <2> QED BY <1>6, <2>2
  <1>9. Len(plugin'.events) <= MaxQueuedEvents
    BY <1>3, <1>5, <1>8, LinkAssumption, EmptySeq
  <1>10. ~Acknowledged /\ ~Acknowledged'
    BY <1>0, <1>1, <1>2 DEF Acknowledged
  <1>11. CASE e.pending # None
    <2>1. b = e
      BY <1>5, <1>11
    <2>2. Sent' \subseteq Sent /\ Used' \subseteq Used
      BY <1>1, <1>4, <1>7, <1>8, <1>11, <2>1, SentType DEF Sent, Used
    <2>3. EventStep
      BY <1>1, <1>2, <1>4, <1>8, <1>10, <2>1, <2>2 DEF EventStep, SameExecutions, e
    <2> QED BY <1>1, <1>2, <1>7, <1>8, <1>9, <2>3
  <1>12. CASE e.pending = None
    <2>1. Sent' \subseteq Sent \cup {plugin'.pending}
      BY <1>1, <1>8 DEF Sent
    <2>2. plugin'.pending.session = plugin.session
      BY <1>4, <1>5, <1>8, <1>12
    <2>3. Used' \subseteq Used
      BY <1>1, <1>8, <2>1, <2>2 DEF Used
    <2>4. BuildStep
      BY <1>1, <1>2, <1>4, <1>5, <1>6, <1>8, <1>10, <1>12, <2>1, <2>3 DEF BuildStep, SameExecutions, e
    <2> QED BY <1>1, <1>2, <1>7, <1>8, <1>9, <2>4
  <1> QED BY <1>11, <1>12

LEMMA AnswerReceived ==
  ASSUME LinkTypeOK, ShapeInv, ReceiveReportResponse, reply.status = 200
  PROVE  AcknowledgeStep /\ plugin' \in Plugins /\ plugin.todo = {}
  <1>0. plugin \in Plugins /\ reply \in Replies /\ NoReply.status = 0 /\ NoReply.commands = {}
        /\ NoReply.session = None
    BY SentType DEF LinkTypeOK
  <1>1. /\ plugin.pc = "reporting"
        /\ plugin' = [plugin EXCEPT !.pc = "top", !.pending = None, !.todo = reply.commands]
        /\ reply' = NoReply
        /\ UNCHANGED <<vars, inbox, executions, since, ingested, taken>>
    BY DEF ReceiveReportResponse
  <1>2. /\ plugin' \in Plugins /\ plugin'.pc = "top" /\ plugin'.pending = None
        /\ plugin'.todo = reply.commands
        /\ UNCHANGED <<plugin.sequence, plugin.events, plugin.results, plugin.nextEvent,
                       plugin.cache, plugin.session>>
    <2>1. reply.commands \in SUBSET Commands /\ plugin \in Plugins
      BY <1>0 DEF Replies
    <2>2. plugin' = [plugin EXCEPT !.pc = "top", !.pending = None, !.todo = reply.commands]
      BY <1>1
    <2> QED BY <2>1, <2>2 DEF Plugins
  <1>3. Sent' \subseteq Sent
    BY <1>1, <1>2 DEF Sent
  <1>4. Used' \subseteq Used
    BY <1>0, <1>1, <1>2, <1>3 DEF Used
  <1>5. Acknowledged /\ ~Acknowledged'
    BY <1>1, <1>2 DEF Acknowledged
  <1>6. plugin.todo = {}
    BY <1>1 DEF ShapeInv, Executing
  <1> QED BY <1>0, <1>1, <1>2, <1>3, <1>4, <1>5, <1>6 DEF AcknowledgeStep, SameExecutions

LEMMA CommandExecuted ==
  ASSUME LinkTypeOK, ShapeInv, NEW c \in Commands, ExecuteCommand(c)
  PROVE  /\ ExecuteStep(c)
         /\ plugin' \in Plugins /\ Len(plugin'.cache) <= MaxCachedResults
         /\ executions' \in [Commands -> Nat] /\ since' \in [Commands -> SUBSET Commands]
         /\ UNCHANGED <<plugin.pc, plugin.session, plugin.pending, plugin.awaiting>>
  <1> DEFINE done == Execute([cache |-> plugin.cache, executions |-> executions], c)
  <1>0. /\ plugin \in Plugins /\ plugin.cache \in Seq(Commands)
        /\ Len(plugin.cache) <= MaxCachedResults
        /\ executions \in [Commands -> Nat] /\ since \in [Commands -> SUBSET Commands]
    BY DEF LinkTypeOK, Plugins
  <1>1. /\ c \in plugin.todo
        /\ plugin' = [plugin EXCEPT !.todo = @ \ {c}, !.results = @ \cup {c}, !.cache = done.cache]
        /\ executions' = done.executions
        /\ since' = IF done.executions = executions THEN since
                    ELSE [x \in Commands |->
                            IF x = c \/ executions[x] = 0 THEN {} ELSE since[x] \cup {c}]
        /\ UNCHANGED <<vars, inbox, reply, ingested, taken>>
    BY DEF ExecuteCommand
  <1>2. /\ done.cache \in Seq(Commands) /\ Len(done.cache) <= MaxCachedResults
        /\ done.executions \in [Commands -> Nat]
        /\ c \in ToSet(plugin.cache) => done.cache = plugin.cache /\ done.executions = executions
        /\ c \notin ToSet(plugin.cache) =>
             /\ done.cache = DropFirst(Append(plugin.cache, c),
                                       Monus(Len(Append(plugin.cache, c)), MaxCachedResults))
             /\ done.executions = [executions EXCEPT ![c] = @ + 1]
             /\ done.executions # executions
    <2>1. /\ Contains(plugin.cache, c) <=> c \in ToSet(plugin.cache)
          /\ MaxCachedResults \in Nat \ {0}
      BY <1>0, LenProperties, LinkAssumption DEF Contains, ToSet
    <2>2. CASE c \in ToSet(plugin.cache)
      <3>1. done = [cache |-> plugin.cache, executions |-> executions]
        BY <2>1, <2>2 DEF Execute
      <3> HIDE DEF done
      <3> QED BY <1>0, <2>2, <3>1
    <2>3. CASE c \notin ToSet(plugin.cache)
      <3> DEFINE cache == plugin.cache
                 w == DropFirst(Append(cache, c), Monus(Len(Append(cache, c)), MaxCachedResults))
                 ran == [executions EXCEPT ![c] = @ + 1]
      <3>1. done = [cache |-> w, executions |-> ran]
        BY <2>1, <2>3 DEF Execute
      <3>2. ran \in [Commands -> Nat] /\ ran # executions
        <4>1. ran[c] # executions[c]
          BY <1>0
        <4> QED BY <1>0, <4>1
      <3>3. cache \in Seq(Commands) /\ Len(cache) <= MaxCachedResults
        BY <1>0
      <3> HIDE DEF done, cache
      <3>4. w \in Seq(Commands) /\ Len(w) <= MaxCachedResults
        BY <2>1, <3>3, BoundedAppend
      <3> HIDE DEF w, ran
      <3>5. done.cache = w /\ done.executions = ran
        BY <3>1
      <3> QED BY <2>3, <3>2, <3>4, <3>5 DEF w, ran, cache
    <2> QED BY <2>2, <2>3
  <1> HIDE DEF done
  <1>3. /\ plugin' \in Plugins /\ plugin'.cache = done.cache
        /\ plugin'.todo = plugin.todo \ {c} /\ plugin'.results = plugin.results \cup {c}
        /\ UNCHANGED <<plugin.sequence, plugin.events, plugin.nextEvent,
                       plugin.pc, plugin.session, plugin.pending, plugin.awaiting>>
    BY <1>0, <1>1, <1>2 DEF Plugins
  <1>4. Sent' = Sent
    BY <1>1, <1>3 DEF Sent
  <1>5. Used' = Used
    BY <1>1, <1>3, <1>4 DEF Used
  <1>6. plugin.pc = "top"
    BY <1>1 DEF ShapeInv, Executing
  <1>7. ~Acknowledged /\ ~Acknowledged'
    BY <1>3, <1>6 DEF Acknowledged
  <1>8. ASSUME c \notin ToSet(plugin.cache)
        PROVE  /\ Len(plugin'.cache) = IF Len(plugin.cache) < MaxCachedResults
                                       THEN Len(plugin.cache) + 1 ELSE MaxCachedResults
               /\ SuffixThen(plugin'.cache, plugin.cache, c)
    <2> DEFINE cache == plugin.cache
    <2>1. /\ cache \in Seq(Commands) /\ Len(cache) <= MaxCachedResults
          /\ MaxCachedResults \in Nat \ {0}
          /\ plugin'.cache = DropFirst(Append(cache, c), Monus(Len(Append(cache, c)), MaxCachedResults))
      BY <1>0, <1>2, <1>3, <1>8, LinkAssumption
    <2> HIDE DEF cache
    <2>2. /\ Len(plugin'.cache) = IF Len(cache) < MaxCachedResults
                                  THEN Len(cache) + 1 ELSE MaxCachedResults
          /\ SuffixThen(plugin'.cache, cache, c)
      BY <2>1, BoundedAppend
    <2> QED BY <2>2 DEF cache
  <1>9. since' \in [Commands -> SUBSET Commands]
    BY <1>0, <1>1
  <1>10. c \in ToSet(plugin.cache) => SameExecutions
    BY <1>1, <1>2, <1>3 DEF SameExecutions
  <1>11. c \notin ToSet(plugin.cache) =>
           /\ executions' = [executions EXCEPT ![c] = @ + 1]
           /\ since' = [x \in Commands |->
                          IF x = c \/ executions[x] = 0 THEN {} ELSE since[x] \cup {c}]
    BY <1>1, <1>2
  <1> QED BY <1>1, <1>2, <1>3, <1>4, <1>5, <1>7, <1>8, <1>9, <1>10, <1>11 DEF ExecuteStep

\* The seven kinds of step are all.
LEMMA StepKinds ==
  ASSUME LinkInv, [LinkNext]_allVars
  PROVE  /\ BridgeInv'
         /\ \/ IdleStep
            \/ \E m \in inbox : ReplayStep(m) \/ TakeStep(m)
            \/ EventStep
            \/ BuildStep
            \/ AcknowledgeStep
            \/ \E c \in Commands : ExecuteStep(c)
  <1>0. BridgeInv /\ LinkTypeOK /\ ShapeInv
    BY DEF LinkInv
  <1>1. ASSUME UNCHANGED vars PROVE BridgeInv'
    BY <1>0, <1>1, NextBridge
  <1>2. CASE \/ Pair \/ SendRegister \/ ReceiveRegistration \/ Retry \/ RequestFails \/ TokenForgotten
             \/ ReceiveReportResponse /\ reply.status # 200
             \/ UNCHANGED allVars
    <2>1. UNCHANGED vars
      BY <1>2 DEF Pair, SendRegister, ReceiveRegistration, Retry, RequestFails, TokenForgotten,
                  ReceiveReportResponse, allVars
    <2> QED BY <1>0, <1>1, <1>2, <2>1, ControllerIdle
  <1>3. CASE \/ HandleRegister \/ Restart \/ HostStep
             \/ \E m \in inbox : HandleUnauthorized(m) \/ HandleRefused(m)
    BY <1>0, <1>3, DaemonIdle
  <1>4. CASE \E m \in inbox : HandleReport(m)
    BY <1>4, ReportHandled
  <1>5. CASE StudioEvent
    BY <1>0, <1>1, <1>5, EventQueued DEF StudioEvent
  <1>6. CASE SendReport
    BY <1>0, <1>1, <1>6, ReportSent DEF SendReport
  <1>7. CASE ReceiveReportResponse /\ reply.status = 200
    BY <1>0, <1>1, <1>7, AnswerReceived DEF ReceiveReportResponse
  <1>8. CASE \E c \in Commands : ExecuteCommand(c)
    BY <1>0, <1>1, <1>8, CommandExecuted DEF ExecuteCommand
  <1> QED BY <1>2, <1>3, <1>4, <1>5, <1>6, <1>7, <1>8 DEF LinkNext, PluginStep

----------------------------------------------------------------------------
(* Types, and where the loop is                                            *)

LEMMA ResponseType ==
  ASSUME NEW status \in {0, 200, 400, 401, 404, 409, 429}, NEW s \in SessionIds \cup {None},
         NEW C \in SUBSET Commands
  PROVE  Response(status, s, C) \in Replies
  BY DEF Response, Replies

\* What a handler answers.
LEMMA HandlerReply ==
  ASSUME LinkTypeOK, TypeOK', NEW m \in inbox,
         HandleUnauthorized(m) \/ (m = RegisterRequest /\ HandleRegister)
           \/ HandleReport(m) \/ HandleRefused(m)
  PROVE  /\ reply' \in Replies
         /\ reply' # reply => Awaited(m)
         /\ reply' # reply /\ m = RegisterRequest /\ reply'.status = 200 => reply'.session \in SessionIds
         /\ inbox' \subseteq inbox
  <1>0. reply \in Replies /\ m \in Reports \cup {RegisterRequest}
    BY DEF LinkTypeOK
  <1>1. CASE HandleUnauthorized(m)
    <2>1. reply' \in {reply, Response(401, None, {})}
          /\ (reply' # reply => Awaited(m) /\ reply'.status = 401) /\ inbox' \subseteq inbox
      BY <1>1 DEF HandleUnauthorized, Respond, Response
    <2> QED BY <1>0, <2>1, ResponseType
  <1>2. CASE m = RegisterRequest /\ HandleRegister
    <2> DEFINE s == external'[Self]
               status == IF s = None THEN 429 ELSE 200
    <2>1. s \in SessionIds \cup {None}
      BY LinkAssumption DEF TypeOK
    <2>2. /\ reply' = reply \/ (Awaited(m) /\ reply' = Response(status, s, {}))
          /\ inbox' \subseteq inbox
      BY <1>2 DEF HandleRegister, Respond
    <2> HIDE DEF s
    <2>3. Response(status, s, {}) \in Replies
      BY <2>1, ResponseType
    <2>4. Response(status, s, {}).status = 200 => Response(status, s, {}).session \in SessionIds
      BY <2>1 DEF Response
    <2> HIDE DEF status
    <2> QED BY <1>0, <2>2, <2>3, <2>4
  <1>3. CASE HandleReport(m)
    <2> DEFINE C == record'[m.session].lastResponse.commands
    <2>1. m \in Reports /\ m # RegisterRequest
      BY <1>0, <1>3 DEF HandleReport
    <2>2. C \in SUBSET Commands
      BY <2>1 DEF TypeOK, SessionRecords, Responses, Reports
    <2>3. /\ reply' = reply \/ (Awaited(m) /\ reply' = Response(200, None, C))
          /\ inbox' \subseteq inbox
      BY <1>3 DEF HandleReport, Respond
    <2> HIDE DEF C
    <2> QED BY <1>0, <2>1, <2>2, <2>3, ResponseType
  <1>4. CASE HandleRefused(m)
    <2>1. Refusal(m) \in {400, 404, 409} /\ m # RegisterRequest
      BY <1>4 DEF HandleRefused, Refusal
    <2>2. /\ reply' = reply \/ (Awaited(m) /\ reply' = Response(Refusal(m), None, {}))
          /\ inbox' \subseteq inbox
      BY <1>4 DEF HandleRefused, Respond
    <2>3. Response(Refusal(m), None, {}) \in Replies
      BY <2>1, ResponseType
    <2> QED BY <1>0, <2>1, <2>2, <2>3
  <1> QED BY <1>1, <1>2, <1>3, <1>4

LEMMA LinkTypeStep ==
  ASSUME LinkTypeOK, ShapeInv, TypeOK', [LinkNext]_allVars
  PROVE  LinkTypeOK'
  <1>0. /\ plugin \in Plugins /\ Len(plugin.events) <= MaxQueuedEvents
        /\ Len(plugin.cache) <= MaxCachedResults
        /\ inbox \subseteq Reports \cup {RegisterRequest} /\ reply \in Replies
        /\ honoured \in BOOLEAN /\ restarts \in 0..RestartBound /\ RestartBound \in Nat
        /\ executions \in [Commands -> Nat] /\ since \in [Commands -> SUBSET Commands]
        /\ ingested \in Seq(1..EventBound) /\ taken \in Reports \cup {None}
    BY LinkAssumption DEF LinkTypeOK
  <1>1. NoReply \in Replies
    BY ResponseType DEF NoReply
  <1>2. ASSUME plugin' \in Plugins, Len(plugin'.events) <= MaxQueuedEvents,
               Len(plugin'.cache) <= MaxCachedResults,
               inbox' \subseteq Reports \cup {RegisterRequest}, reply' \in Replies,
               honoured' \in BOOLEAN, restarts' \in 0..RestartBound,
               executions' \in [Commands -> Nat], since' \in [Commands -> SUBSET Commands],
               ingested' \in Seq(1..EventBound), taken' \in Reports \cup {None}
        PROVE  LinkTypeOK'
    BY <1>2 DEF LinkTypeOK
  <1>3. ASSUME plugin' = [plugin EXCEPT !.pc = plugin'.pc, !.paired = plugin'.paired,
                            !.session = plugin'.session, !.pending = plugin'.pending,
                            !.awaiting = plugin'.awaiting],
               plugin'.pc \in {"top", "registering", "ready", "reporting"},
               plugin'.paired \in BOOLEAN, plugin'.session \in SessionIds \cup {None},
               plugin'.pending \in Reports \cup {None},
               plugin'.awaiting \in Reports \cup {None, RegisterRequest},
               inbox' \subseteq inbox \cup {RegisterRequest}, reply' \in {reply, NoReply},
               honoured' \in BOOLEAN, UNCHANGED <<restarts, executions, since, ingested, taken>>
        PROVE  LinkTypeOK'
    <2>1. plugin' \in Plugins /\ UNCHANGED <<plugin.events, plugin.cache>>
      BY <1>0, <1>3 DEF Plugins
    <2> QED BY <1>0, <1>1, <1>2, <1>3, <2>1
  <1>4. CASE Retry \/ Pair \/ SendRegister
    <2>1. /\ plugin' \in {Cleared(plugin), [Cleared(plugin) EXCEPT !.paired = TRUE],
                         [plugin EXCEPT !.pc = "registering", !.awaiting = RegisterRequest]}
          /\ inbox' \subseteq inbox \cup {RegisterRequest} /\ honoured' \in BOOLEAN
          /\ UNCHANGED <<reply, restarts, executions, since, ingested, taken>>
      BY <1>0, <1>4 DEF Retry, Pair, SendRegister
    <2>3. /\ plugin' = [plugin EXCEPT !.pc = plugin'.pc, !.paired = plugin'.paired,
                            !.session = plugin'.session, !.pending = plugin'.pending,
                            !.awaiting = plugin'.awaiting]
          /\ plugin'.pc \in {"top", "registering", "ready", "reporting"}
          /\ plugin'.paired \in BOOLEAN /\ plugin'.session \in SessionIds \cup {None}
          /\ plugin'.pending \in Reports \cup {None}
          /\ plugin'.awaiting \in Reports \cup {None, RegisterRequest}
      BY <1>0, <2>1 DEF Cleared, Plugins
    <2> QED BY <1>3, <2>1, <2>3
  <1>5. CASE ReceiveRegistration
    <2>1. plugin' \in {[plugin EXCEPT !.pc = "ready", !.session = reply.session],
                       [plugin EXCEPT !.pc = "top"], [Cleared(plugin) EXCEPT !.pc = "top"]}
          /\ reply' = NoReply /\ UNCHANGED <<inbox, honoured, restarts, executions, since, ingested, taken>>
      BY <1>5 DEF ReceiveRegistration, AfterRefusal
    <2>2. reply.session \in SessionIds \cup {None}
      BY <1>0 DEF Replies
    <2>3. /\ plugin' = [plugin EXCEPT !.pc = plugin'.pc, !.paired = plugin'.paired,
                            !.session = plugin'.session, !.pending = plugin'.pending,
                            !.awaiting = plugin'.awaiting]
          /\ plugin'.pc \in {"top", "registering", "ready", "reporting"}
          /\ plugin'.paired \in BOOLEAN /\ plugin'.session \in SessionIds \cup {None}
          /\ plugin'.pending \in Reports \cup {None}
          /\ plugin'.awaiting \in Reports \cup {None, RegisterRequest}
      BY <1>0, <2>1, <2>2 DEF Cleared, Plugins
    <2> QED BY <1>0, <1>3, <2>1, <2>3
  <1>6. CASE ReceiveReportResponse /\ reply.status # 200
    <2>1. plugin' \in {[plugin EXCEPT !.pc = "top"], [Cleared(plugin) EXCEPT !.pc = "top"]}
          /\ reply' = NoReply /\ UNCHANGED <<inbox, honoured, restarts, executions, since, ingested, taken>>
      BY <1>6 DEF ReceiveReportResponse, AfterRefusal
    <2>3. /\ plugin' = [plugin EXCEPT !.pc = plugin'.pc, !.paired = plugin'.paired,
                            !.session = plugin'.session, !.pending = plugin'.pending,
                            !.awaiting = plugin'.awaiting]
          /\ plugin'.pc \in {"top", "registering", "ready", "reporting"}
          /\ plugin'.paired \in BOOLEAN /\ plugin'.session \in SessionIds \cup {None}
          /\ plugin'.pending \in Reports \cup {None}
          /\ plugin'.awaiting \in Reports \cup {None, RegisterRequest}
      BY <1>0, <2>1 DEF Cleared, Plugins
    <2> QED BY <1>0, <1>3, <2>1, <2>3
  <1>7. CASE RequestFails
    <2>1. plugin' = [plugin EXCEPT !.pc = "top"] /\ inbox' \subseteq inbox
          /\ reply' = NoReply /\ UNCHANGED <<honoured, restarts, executions, since, ingested, taken>>
      BY <1>7 DEF RequestFails
    <2>3. /\ plugin' = [plugin EXCEPT !.pc = plugin'.pc, !.paired = plugin'.paired,
                            !.session = plugin'.session, !.pending = plugin'.pending,
                            !.awaiting = plugin'.awaiting]
          /\ plugin'.pc \in {"top", "registering", "ready", "reporting"}
          /\ plugin'.paired \in BOOLEAN /\ plugin'.session \in SessionIds \cup {None}
          /\ plugin'.pending \in Reports \cup {None}
          /\ plugin'.awaiting \in Reports \cup {None, RegisterRequest}
      BY <1>0, <2>1 DEF Plugins
    <2> QED BY <1>0, <1>3, <2>1, <2>3
  <1>8. CASE StudioEvent
    <2>1. plugin' \in Plugins /\ Len(plugin'.events) <= MaxQueuedEvents /\ UNCHANGED plugin.cache
      BY <1>8, EventQueued DEF LinkTypeOK, EventStep, SameExecutions
    <2> QED BY <1>0, <1>2, <1>8, <2>1 DEF StudioEvent
  <1>9. CASE SendReport
    <2>1. /\ plugin' \in Plugins /\ Len(plugin'.events) <= MaxQueuedEvents /\ UNCHANGED plugin.cache
          /\ inbox' \subseteq inbox \cup {plugin'.pending} /\ plugin'.pending \in Reports
      BY <1>9, ReportSent
    <2> QED BY <1>0, <1>2, <1>9, <2>1 DEF SendReport
  <1>10. CASE ReceiveReportResponse /\ reply.status = 200
    <2>1. plugin' \in Plugins /\ UNCHANGED <<plugin.cache, plugin.events>>
      BY <1>10, AnswerReceived DEF AcknowledgeStep, SameExecutions
    <2> QED BY <1>0, <1>1, <1>2, <1>10, <2>1 DEF ReceiveReportResponse
  <1>11. ASSUME NEW c \in Commands, ExecuteCommand(c) PROVE LinkTypeOK'
    <2>1. /\ plugin' \in Plugins /\ Len(plugin'.cache) <= MaxCachedResults
          /\ executions' \in [Commands -> Nat] /\ since' \in [Commands -> SUBSET Commands]
          /\ UNCHANGED plugin.events
      BY <1>11, CommandExecuted DEF ExecuteStep
    <2> QED BY <1>0, <1>2, <1>11, <2>1 DEF ExecuteCommand
  <1>12. ASSUME NEW m \in inbox,
                HandleUnauthorized(m) \/ (m = RegisterRequest /\ HandleRegister)
                  \/ HandleReport(m) \/ HandleRefused(m)
         PROVE  LinkTypeOK'
    <2>1. reply' \in Replies /\ inbox' \subseteq inbox
      BY <1>12, HandlerReply
    <2>2. UNCHANGED <<plugin, honoured, restarts, executions, since>>
      BY <1>12 DEF HandleUnauthorized, HandleRegister, HandleReport, HandleRefused, HandledOnce
    <2>3. ingested' \in Seq(1..EventBound)
      <3>1. CASE ingested' = ingested
        BY <1>0, <3>1
      <3>2. CASE HandleReport(m) /\ ingested' = ingested \o m.events
        <4>1. m.events \in Seq(1..EventBound)
          BY <1>0, <3>2 DEF HandleReport, Reports
        <4> QED BY <1>0, <3>2, <4>1, ConcatProperties
      <3> QED BY <1>12, <3>1, <3>2 DEF HandleUnauthorized, HandleRegister, HandleReport, HandleRefused
    <2>4. taken' \in Reports \cup {None}
      <3>1. taken' = taken \/ (taken' = m /\ m # RegisterRequest)
        BY <1>12 DEF HandleUnauthorized, HandleRegister, HandleReport, HandleRefused
      <3> QED BY <1>0, <3>1
    <2> QED BY <1>0, <1>2, <2>1, <2>2, <2>3, <2>4
  <1>13. CASE Restart
    <2>1. restarts' \in 0..RestartBound
      BY <1>0, <1>13 DEF Restart
    <2> QED BY <1>0, <1>1, <1>2, <1>13, <2>1 DEF Restart
  <1>14. CASE TokenForgotten
    BY <1>0, <1>2, <1>14 DEF TokenForgotten
  <1>15. CASE HostStep \/ UNCHANGED allVars
    <2>1. UNCHANGED linkVars
      BY <1>15 DEF HostStep, allVars
    <2> QED BY <1>0, <1>2, <2>1 DEF linkVars
  <1>16. HandleRegister => RegisterRequest \in inbox
    BY DEF HandleRegister
  <1> QED BY <1>4, <1>5, <1>6, <1>7, <1>8, <1>9, <1>10, <1>11, <1>12, <1>13, <1>14, <1>15, <1>16
          DEF LinkNext, PluginStep

LEMMA ShapeStep ==
  ASSUME LinkTypeOK, ShapeInv, TypeOK', [LinkNext]_allVars
  PROVE  ShapeInv'
  <1>0. /\ plugin \in Plugins /\ inbox \subseteq Reports \cup {RegisterRequest} /\ reply \in Replies
        /\ NoReply.status = 0 /\ RegisterRequest \notin Reports
    BY SentType DEF LinkTypeOK
  <1>1. ASSUME plugin'.pc = "top", reply' = NoReply,
               plugin'.pending # None => plugin'.pending.sequence = plugin'.sequence
        PROVE  ShapeInv'
    BY <1>1 DEF ShapeInv, Executing
  <1>2. ASSUME UNCHANGED <<plugin.pc, plugin.awaiting, plugin.sequence, plugin.todo>>,
               plugin'.pending \in {plugin.pending, None}, reply' \in {reply, NoReply},
               plugin'.pc = "ready" => plugin'.session = plugin.session
        PROVE  ShapeInv'
    BY <1>0, <1>2 DEF ShapeInv, Executing
  <1>3. CASE Retry
    <2>1. plugin' = Cleared(plugin) /\ plugin.pc # "ready" /\ reply' = reply
      BY <1>3 DEF Retry, Yielding, AtTop
    <2> QED BY <1>0, <1>2, <2>1 DEF Cleared, Plugins
  <1>4. CASE Pair
    <2>1. /\ plugin' = [Cleared(plugin) EXCEPT !.paired = TRUE] /\ plugin.pc = "top" /\ reply' = reply
      BY <1>4 DEF Pair, AtTop
    <2>2. reply = NoReply
      BY <2>1 DEF ShapeInv
    <2> QED BY <1>0, <1>1, <2>1, <2>2 DEF Cleared, Plugins
  <1>5. CASE SendRegister
    <2>1. /\ plugin' = [plugin EXCEPT !.pc = "registering", !.awaiting = RegisterRequest]
          /\ plugin.pc = "top" /\ plugin.todo = {} /\ reply' = reply
      BY <1>5 DEF SendRegister, AtTop
    <2>2. /\ plugin'.pc = "registering" /\ plugin'.awaiting = RegisterRequest
          /\ UNCHANGED <<plugin.pending, plugin.sequence, plugin.todo>>
      BY <1>0, <2>1 DEF Plugins
    <2> QED BY <1>0, <2>1, <2>2 DEF ShapeInv, Executing
  <1>6. CASE ReceiveRegistration
    <2>1. /\ plugin.pc = "registering" /\ reply' = NoReply
          /\ plugin' = IF reply.status = 200
                       THEN [plugin EXCEPT !.pc = "ready", !.session = reply.session]
                       ELSE [AfterRefusal(plugin) EXCEPT !.pc = "top"]
      BY <1>6 DEF ReceiveRegistration
    <2>2. CASE reply.status = 200
      <3>1. /\ plugin'.pc = "ready" /\ plugin'.session = reply.session
            /\ UNCHANGED <<plugin.pending, plugin.sequence, plugin.todo>>
        BY <1>0, <2>1, <2>2 DEF Plugins
      <3> QED BY <2>1, <2>2, <3>1 DEF ShapeInv, Executing
    <2>3. CASE reply.status # 200
      <3>1. /\ plugin'.pc = "top" /\ plugin'.pending \in {plugin.pending, None}
            /\ UNCHANGED plugin.sequence
        BY <1>0, <2>1, <2>3 DEF AfterRefusal, Cleared, Plugins
      <3> QED BY <1>1, <2>1, <3>1 DEF ShapeInv
    <2> QED BY <2>2, <2>3
  <1>7. CASE ReceiveReportResponse
    <2>1. /\ plugin' \in {[plugin EXCEPT !.pc = "top", !.pending = None, !.todo = reply.commands],
                          [AfterRefusal(plugin) EXCEPT !.pc = "top"]}
          /\ reply' = NoReply
      BY <1>7 DEF ReceiveReportResponse
    <2>2. /\ plugin'.pc = "top" /\ plugin'.pending \in {plugin.pending, None}
          /\ UNCHANGED plugin.sequence
      <3>1. plugin \in Plugins
        BY <1>0
      <3>2. CASE plugin' = [plugin EXCEPT !.pc = "top", !.pending = None, !.todo = reply.commands]
        BY <3>1, <3>2 DEF Plugins
      <3>3. CASE plugin' = [AfterRefusal(plugin) EXCEPT !.pc = "top"]
        BY <3>1, <3>3 DEF AfterRefusal, Cleared, Plugins
      <3> QED BY <2>1, <3>2, <3>3
    <2> QED BY <1>1, <2>1, <2>2 DEF ShapeInv
  <1>8. CASE RequestFails
    <2>1. plugin' = [plugin EXCEPT !.pc = "top"] /\ reply' = NoReply
      BY <1>8 DEF RequestFails
    <2>2. plugin'.pc = "top" /\ UNCHANGED <<plugin.pending, plugin.sequence>>
      BY <1>0, <2>1 DEF Plugins
    <2> QED BY <1>1, <2>1, <2>2 DEF ShapeInv
  <1>9. CASE StudioEvent
    <2>1. plugin' = [plugin EXCEPT !.events = plugin'.events, !.nextEvent = plugin'.nextEvent]
          /\ reply' = reply
      BY <1>9, EventQueued DEF StudioEvent
    <2>2. UNCHANGED <<plugin.pc, plugin.awaiting, plugin.sequence, plugin.todo, plugin.pending,
                      plugin.session>>
      BY <1>0, <2>1 DEF Plugins
    <2> QED BY <1>2, <2>1, <2>2
  <1>10. CASE SendReport
    <2>1. /\ reply = NoReply /\ plugin'.todo = {}
          /\ plugin'.pc \in {"top", "reporting"}
          /\ plugin'.pending \in Reports /\ plugin'.pending.sequence = plugin'.sequence
          /\ plugin'.pc = "reporting" => plugin'.awaiting = plugin'.pending
          /\ reply' = reply
      BY <1>10, ReportSent DEF SendReport
    <2> QED BY <2>1 DEF ShapeInv, Executing
  <1>11. ASSUME NEW c \in Commands, ExecuteCommand(c) PROVE ShapeInv'
    <2>1. /\ UNCHANGED <<plugin.pc, plugin.pending, plugin.sequence>> /\ reply' = reply
          /\ plugin.todo # {}
      BY <1>11, CommandExecuted DEF ExecuteStep
    <2>2. plugin.pc = "top" /\ reply = NoReply
      BY <2>1 DEF ShapeInv, Executing
    <2> QED BY <1>1, <2>1, <2>2 DEF ShapeInv
  <1>12. ASSUME NEW m \in inbox,
                HandleUnauthorized(m) \/ (m = RegisterRequest /\ HandleRegister)
                  \/ HandleReport(m) \/ HandleRefused(m)
         PROVE  ShapeInv'
    <2>1. /\ reply' # reply => Awaited(m)
          /\ reply' # reply /\ m = RegisterRequest /\ reply'.status = 200 => reply'.session \in SessionIds
      BY <1>12, HandlerReply
    <2>2. plugin' = plugin
      BY <1>12 DEF HandleUnauthorized, HandleRegister, HandleReport, HandleRefused, HandledOnce
    <2> QED BY <2>1, <2>2 DEF ShapeInv, Awaited, Executing
  <1>13. CASE Restart \/ TokenForgotten \/ HostStep \/ UNCHANGED allVars
    <2>1. plugin' = plugin /\ reply' \in {reply, NoReply}
      BY <1>13 DEF Restart, TokenForgotten, HostStep, linkVars, allVars
    <2> QED BY <1>2, <2>1
  <1>14. HandleRegister => RegisterRequest \in inbox
    BY DEF HandleRegister
  <1> QED BY <1>3, <1>4, <1>5, <1>6, <1>7, <1>8, <1>9, <1>10, <1>11, <1>12, <1>13, <1>14
          DEF LinkNext, PluginStep

----------------------------------------------------------------------------
(* Sessions and sequences                                                  *)

\* The daemon keeps at most one session for this plugin, and a live session
\* that a report names is that one.
LEMMA MineUnique ==
  ASSUME BridgeInv, UsedInv, LinkTypeOK
  PROVE  /\ \A s, t \in SessionIds : Mine(s) /\ Mine(t) => s = t
         /\ live \subseteq issued /\ live \subseteq SessionIds /\ None \notin live
         /\ \A m \in Sent : m.session \in SessionIds /\ m.session \in issued
         /\ \A m \in Sent : m.session \in live => Mine(m.session)
  <1>1. /\ \A s \in live : external[record[s].external] = s
        /\ live \subseteq issued /\ live \subseteq SessionIds /\ None \notin SessionIds
    BY NoneAssumption DEF BridgeInv, IndexInv, SessionIndexConsistent, IdsFresh, TypeOK
  <1>2. \A s, t \in SessionIds : Mine(s) /\ Mine(t) => s = t
    BY <1>1 DEF Mine
  <1>3. ASSUME NEW m \in Sent
        PROVE  m.session \in SessionIds /\ m.session \in issued /\ (m.session \in live => Mine(m.session))
    <2>1. m.session \in SessionIds
      BY SentType DEF Reports
    <2>2. m.session \in Used
      BY <1>1, <2>1 DEF Used
    <2> QED BY <2>1, <2>2 DEF UsedInv, Mine
  <1> QED BY <1>1, <1>2, <1>3

\* In a step that takes no report, the plugin's session is the old one or new,
\* and no report becomes fresh.
LEMMA QuietMine ==
  ASSUME BridgeInv, UsedInv, LinkTypeOK, BrokerQuiet
  PROVE  /\ \A s \in SessionIds : Mine(s)' => (Mine(s) /\ SameSession(s)) \/ BrandNew(s)
         /\ \A m \in Sent : Fresh(m)' => Fresh(m)
  <1>1. ASSUME NEW s \in SessionIds, Mine(s)'
        PROVE  (Mine(s) /\ SameSession(s)) \/ BrandNew(s)
    BY <1>1 DEF Mine, BrokerQuiet, SameSession
  <1>2. ASSUME NEW m \in Sent, Fresh(m)' PROVE Fresh(m)
    <2>1. m.session \in live' /\ m.sequence > record'[m.session].lastSequence
      BY <1>2 DEF Fresh
    <2>2. m.session \in issued
      BY MineUnique
    <2>3. m.session \in live /\ SameSession(m.session)
      BY <2>1, <2>2 DEF BrokerQuiet, BrandNew
    <2> QED BY <2>1, <2>3 DEF Fresh, SameSession
  <1> QED BY <1>1, <1>2

\* When a report is taken, that is in the plugin's session, and only reports
\* with a higher sequence are fresh afterwards.
LEMMA TakenMine ==
  ASSUME BridgeInv, UsedInv, LinkTypeOK, NEW m \in inbox, TakeStep(m)
  PROVE  /\ m.session \in SessionIds /\ Mine(m.session) /\ m.sequence \in Nat
         /\ \A s \in SessionIds : Mine(s)' => s = m.session
         /\ \A n \in Sent : Fresh(n)' => Fresh(n) /\ n.sequence > m.sequence
         /\ Sent' \subseteq Sent
  <1>0. /\ m \in Sent /\ Fresh(m) /\ live' = live /\ plugin' = plugin /\ inbox' \subseteq inbox
        /\ \A s \in SessionIds \ {m.session} : record'[s] = record[s]
        /\ record'[m.session].external = record[m.session].external
        /\ record'[m.session].lastSequence = m.sequence
    BY DEF TakeStep
  <1>1. /\ m.session \in SessionIds /\ Mine(m.session)
        /\ \A s, t \in SessionIds : Mine(s) /\ Mine(t) => s = t
        /\ \A n \in Sent : n.session \in SessionIds /\ (n.session \in live => Mine(n.session))
    BY <1>0, MineUnique DEF Fresh
  <1>2. Sent' \subseteq Sent
    BY <1>0 DEF Sent
  <1>3. ASSUME NEW s \in SessionIds, Mine(s)' PROVE s = m.session
    <2>1. Mine(s)
      BY <1>0, <1>3 DEF Mine
    <2> QED BY <1>1, <2>1
  <1>4. \A n \in Sent : n.sequence \in Nat
    <2>1. \A n \in Sent : n.sequence \in 1..SequenceBound
      BY SentType DEF Reports
    <2>2. SequenceBound \in Nat
      BY LimitsAssumption
    <2> QED BY <2>1, <2>2
  <1>5. record[m.session].lastSequence \in Nat \cup {NoReport}
    BY <1>1 DEF BridgeInv, TypeOK, SessionRecords
  <1>6. ASSUME NEW n \in Sent, Fresh(n)' PROVE Fresh(n) /\ n.sequence > m.sequence
    <2>1. n.session \in live /\ n.sequence > record'[n.session].lastSequence
      BY <1>0, <1>6 DEF Fresh
    <2>2. n.session = m.session
      BY <1>1, <2>1
    <2>3. n.sequence > m.sequence
      BY <1>0, <2>1, <2>2
    <2>4. n.sequence > record[m.session].lastSequence
      BY <1>0, <1>4, <1>5, <2>3 DEF Fresh, NoReport
    <2> QED BY <2>1, <2>2, <2>3, <2>4 DEF Fresh
  <1> QED BY <1>0, <1>1, <1>2, <1>3, <1>4, <1>6

\* What all steps but the taking of a report have in common.
QuietStep ==
  \/ IdleStep
  \/ \E m \in inbox : ReplayStep(m)
  \/ EventStep
  \/ BuildStep
  \/ AcknowledgeStep
  \/ \E c \in Commands : ExecuteStep(c)

LEMMA QuietIsQuiet == QuietStep => BrokerQuiet
  <1>1. UNCHANGED vars => BrokerQuiet
    BY UnchangedQuiet
  <1> QED BY <1>1 DEF QuietStep, IdleStep, ReplayStep, EventStep, BuildStep, AcknowledgeStep, ExecuteStep

LEMMA ReplaySent == \A m \in inbox : ReplayStep(m) => Sent' \subseteq Sent
  BY DEF ReplayStep, Sent

LEMMA UsedStep ==
  ASSUME LinkInv, BridgeInv', QuietStep \/ (\E m \in inbox : TakeStep(m))
  PROVE  UsedInv'
  <1>0. /\ BridgeInv /\ UsedInv /\ LinkTypeOK
    BY DEF LinkInv
  <1>1. CASE QuietStep
    <2>1. BrokerQuiet
      BY <1>1, QuietIsQuiet
    <2>2. Used' \subseteq Used \cup {external'[Self]}
      <3>1. ASSUME NEW m \in inbox, ReplayStep(m) PROVE Used' \subseteq Used
        <4>1. Sent' \subseteq Sent /\ plugin' = plugin
          BY <3>1, ReplaySent DEF ReplayStep
        <4>2. reply' = reply \/ reply'.session = None
          BY <3>1 DEF ReplayStep, Response
        <4> QED BY <4>1, <4>2 DEF Used
      <3> QED BY <1>1, <3>1 DEF QuietStep, IdleStep, EventStep, BuildStep, AcknowledgeStep, ExecuteStep
    <2>3. external'[Self] # None => external'[Self] \in live' /\ record'[external'[Self]].external = Self
      BY LinkAssumption DEF BridgeInv, IndexInv, SessionIndexConsistent
    <2>4. live' \subseteq issued'
      BY DEF BridgeInv, IndexInv, IdsFresh
    <2>5. ASSUME NEW s \in Used PROVE s \in issued' /\ (s \in live' => record'[s].external = Self)
      <3>1. s \in issued /\ (s \in live => record[s].external = Self)
        BY <1>0 DEF UsedInv
      <3> QED BY <2>1, <3>1 DEF BrokerQuiet, BrandNew, SameSession
    <2>6. None \notin Used'
      BY DEF Used
    <2> QED BY <2>2, <2>3, <2>4, <2>5, <2>6 DEF UsedInv
  <1>2. ASSUME NEW m \in inbox, TakeStep(m) PROVE UsedInv'
    <2>1. Used' \subseteq Used
      <3>1. Sent' \subseteq Sent /\ plugin' = plugin
        BY <1>0, <1>2, TakenMine DEF TakeStep
      <3>2. reply' = reply \/ reply'.session = None
        BY <1>2 DEF TakeStep, Response
      <3> QED BY <3>1, <3>2 DEF Used
    <2>2. /\ live' = live /\ issued' = issued
          /\ \A s \in live : record'[s].external = record[s].external
      <3>1. live \subseteq SessionIds
        BY <1>0, MineUnique
      <3> QED BY <1>2, <3>1 DEF TakeStep
    <2> QED BY <1>0, <2>1, <2>2 DEF UsedInv
  <1> QED BY <1>1, <1>2

LEMMA SequenceStep ==
  ASSUME LinkInv, BridgeInv', LinkTypeOK', QuietStep \/ (\E m \in inbox : TakeStep(m))
  PROVE  SequenceInv'
  <1>0. /\ BridgeInv /\ UsedInv /\ LinkTypeOK /\ SequenceInv
        /\ plugin.sequence \in Nat
    <2>1. plugin.sequence \in 0..SequenceBound /\ SequenceBound \in Nat
      BY LimitsAssumption DEF LinkInv, LinkTypeOK, Plugins
    <2> QED BY <2>1 DEF LinkInv
  <1>1. \A m \in Sent : m.sequence \in Nat
    <2>1. \A m \in Sent : m.sequence \in 1..SequenceBound
      BY <1>0, SentType DEF Reports
    <2>2. SequenceBound \in Nat
      BY LimitsAssumption
    <2> QED BY <2>1, <2>2
  <1>2. \A s \in SessionIds : record[s].lastSequence \in Nat \cup {NoReport}
    BY <1>0 DEF BridgeInv, TypeOK, SessionRecords
  <1>3. CASE QuietStep
    <2>1. \A s \in SessionIds : Mine(s)' => (Mine(s) /\ SameSession(s)) \/ BrandNew(s)
      BY <1>0, <1>3, QuietIsQuiet, QuietMine
    <2>2. \A s \in SessionIds : Mine(s)' => record'[s].lastSequence <= plugin.sequence
      BY <1>0, <2>1 DEF SequenceInv, SameSession, BrandNew, NoReport
    <2>3. CASE BuildStep
      <3>1. plugin'.sequence = plugin.sequence + 1 /\ plugin'.pending.sequence = plugin'.sequence
            /\ Sent' \subseteq Sent \cup {plugin'.pending}
        BY <2>3 DEF BuildStep
      <3>2. \A s \in SessionIds : Mine(s)' => record'[s].lastSequence \in Nat \cup {NoReport}
        BY DEF BridgeInv, TypeOK, SessionRecords
      <3>3. \A s \in SessionIds : Mine(s)' => record'[s].lastSequence <= plugin'.sequence
        BY <1>0, <2>2, <3>1, <3>2 DEF NoReport
      <3>4. \A m \in Sent' : m.sequence <= plugin'.sequence
        BY <1>0, <1>1, <3>1 DEF SequenceInv
      <3> QED BY <3>3, <3>4 DEF SequenceInv
    <2>4. CASE ~BuildStep
      <3>1. Sent' \subseteq Sent /\ plugin'.sequence = plugin.sequence
        BY <1>3, <2>4, ReplaySent DEF QuietStep, IdleStep, ReplayStep, SameController, EventStep,
           AcknowledgeStep, ExecuteStep
      <3> QED BY <1>0, <2>2, <3>1 DEF SequenceInv
    <2> QED BY <2>3, <2>4
  <1>4. ASSUME NEW m \in inbox, TakeStep(m) PROVE SequenceInv'
    <2>1. /\ Sent' \subseteq Sent /\ \A s \in SessionIds : Mine(s)' => s = m.session
      BY <1>0, <1>4, TakenMine
    <2>2. m \in Sent /\ record'[m.session].lastSequence = m.sequence /\ plugin' = plugin
      BY <1>4 DEF TakeStep
    <2> QED BY <1>0, <2>1, <2>2 DEF SequenceInv
  <1> QED BY <1>3, <1>4

----------------------------------------------------------------------------
(* Events                                                                  *)

LEMMA ConcatNumbers ==
  ASSUME NEW S, NEW p \in Seq(S), NEW q \in Seq(S)
  PROVE  /\ Increasing(p) /\ Increasing(q) /\ Below(p, q) => Increasing(p \o q)
         /\ \A w : Below(p, w) /\ Below(q, w) => Below(p \o q, w)
         /\ \A b : (\A i \in DOMAIN p : p[i] < b) /\ (\A i \in DOMAIN q : q[i] < b) =>
              \A i \in DOMAIN (p \o q) : (p \o q)[i] < b
  <1> DEFINE pq == p \o q
  <1>1. /\ DOMAIN p = 1..Len(p) /\ DOMAIN q = 1..Len(q) /\ DOMAIN pq = 1..(Len(p) + Len(q))
        /\ Len(p) \in Nat /\ Len(q) \in Nat
        /\ \A i \in 1..(Len(p) + Len(q)) : pq[i] = IF i <= Len(p) THEN p[i] ELSE q[i - Len(p)]
    BY LenProperties, ConcatProperties
  <1> HIDE DEF pq
  <1>2. ASSUME NEW i \in DOMAIN pq
        PROVE  \/ i \in DOMAIN p /\ pq[i] = p[i]
               \/ i - Len(p) \in DOMAIN q /\ pq[i] = q[i - Len(p)] /\ i > Len(p)
    BY <1>1
  <1>3. ASSUME Increasing(p), Increasing(q), Below(p, q) PROVE Increasing(pq)
    <2>1. ASSUME NEW i \in DOMAIN pq, NEW j \in DOMAIN pq, i < j PROVE pq[i] < pq[j]
      <3>1. CASE j \in DOMAIN p /\ pq[j] = p[j]
        <4>1. i \in DOMAIN p /\ pq[i] = p[i]
          BY <1>1, <2>1, <3>1
        <4> QED BY <1>3, <2>1, <3>1, <4>1 DEF Increasing
      <3>2. CASE j - Len(p) \in DOMAIN q /\ pq[j] = q[j - Len(p)] /\ j > Len(p)
        <4>1. CASE i \in DOMAIN p /\ pq[i] = p[i]
          BY <1>3, <3>2, <4>1 DEF Below
        <4>2. CASE i - Len(p) \in DOMAIN q /\ pq[i] = q[i - Len(p)] /\ i > Len(p)
          <5>1. i - Len(p) < j - Len(p)
            BY <1>1, <2>1
          <5> QED BY <1>3, <3>2, <4>2, <5>1 DEF Increasing
        <4> QED BY <1>2, <4>1, <4>2
      <3> QED BY <1>2, <3>1, <3>2
    <2> QED BY <2>1 DEF Increasing
  <1>4. ASSUME NEW w, Below(p, w), Below(q, w) PROVE Below(pq, w)
    BY <1>2, <1>4 DEF Below
  <1>5. ASSUME NEW b, \A i \in DOMAIN p : p[i] < b, \A i \in DOMAIN q : q[i] < b
        PROVE  \A i \in DOMAIN pq : pq[i] < b
    BY <1>2, <1>5
  <1> QED BY <1>3, <1>4, <1>5 DEF pq

\* Bounds on numbers that have been given out only weaken.
LEMMA NumberedLater ==
  ASSUME NEW q \in Seq(1..EventBound), Numbered(q), plugin.nextEvent <= plugin'.nextEvent,
         plugin.nextEvent \in Nat, plugin'.nextEvent \in Nat
  PROVE  Increasing(q) /\ \A i \in DOMAIN q : q[i] < plugin'.nextEvent
  <1>1. DOMAIN q = 1..Len(q) /\ \A i \in 1..Len(q) : q[i] \in 1..EventBound
    BY LenProperties, ElementOfSeq
  <1>2. EventBound \in Nat
    BY LimitsAssumption
  <1>3. ASSUME NEW i \in DOMAIN q PROVE q[i] < plugin'.nextEvent
    <2>1. q[i] < plugin.nextEvent /\ q[i] \in Int
      BY <1>1, <1>2 DEF Numbered
    <2> QED BY <2>1
  <1> QED BY <1>3 DEF Numbered

LEMMA EventInvStep ==
  ASSUME LinkInv, BridgeInv', LinkTypeOK', QuietStep \/ (\E m \in inbox : TakeStep(m))
  PROVE  EventInv'
  <1>0. /\ BridgeInv /\ UsedInv /\ LinkTypeOK /\ SequenceInv /\ EventInv
        /\ plugin \in Plugins /\ Len(plugin.events) <= MaxQueuedEvents
        /\ ingested \in Seq(1..EventBound) /\ Sent \subseteq Reports
    BY SentType DEF LinkInv, LinkTypeOK
  <1>1. /\ plugin.nextEvent \in Nat /\ plugin'.nextEvent \in Nat /\ plugin.sequence \in Nat
    <2>1. /\ plugin.nextEvent \in 1..(EventBound + 1) /\ plugin'.nextEvent \in 1..(EventBound + 1)
          /\ plugin.sequence \in 0..SequenceBound
      BY <1>0 DEF LinkTypeOK, Plugins
    <2>2. EventBound \in Nat /\ SequenceBound \in Nat
      BY LimitsAssumption
    <2> QED BY <2>1, <2>2
  <1>2. \A m \in Sent : m.events \in Seq(1..EventBound) /\ m.sequence \in Nat
    <2>1. \A m \in Sent : m.events \in Seq(1..EventBound) /\ m.sequence \in 1..SequenceBound
      BY <1>0 DEF Reports
    <2>2. SequenceBound \in Nat
      BY LimitsAssumption
    <2> QED BY <2>1, <2>2
  <1>3. QuietStep => \A m \in Sent : Fresh(m)' => Fresh(m)
    BY <1>0, QuietIsQuiet, QuietMine
  <1>4. CASE QuietStep /\ ~EventStep /\ ~BuildStep
    <2>1. Sent' \subseteq Sent /\ UNCHANGED <<plugin.events, plugin.nextEvent, ingested>>
      BY <1>4, ReplaySent DEF QuietStep, IdleStep, ReplayStep, SameController,
         AcknowledgeStep, ExecuteStep
    <2> QED BY <1>0, <1>3, <1>4, <2>1 DEF EventInv, Numbered
  <1> DEFINE e == Enqueued(plugin)
  <1>5. /\ e \in Plugins /\ plugin.nextEvent <= e.nextEvent
        /\ Increasing(plugin.events) /\ (\A i \in DOMAIN plugin.events : plugin.events[i] < plugin.nextEvent) =>
             Increasing(e.events) /\ (\A i \in DOMAIN e.events : e.events[i] < e.nextEvent)
        /\ \A q : Below(q, plugin.events) /\ (\A i \in DOMAIN q : q[i] < plugin.nextEvent) =>
             Below(q, e.events)
    BY <1>0, EnqueuedEvents
  <1>6. EventStep \/ BuildStep =>
          plugin'.nextEvent = e.nextEvent /\ ingested' = ingested /\ live' = live /\ record' = record
    BY DEF EventStep, BuildStep, vars
  <1>7. EventStep => plugin'.events = e.events /\ Sent' \subseteq Sent
    BY DEF EventStep
  <1>8. BuildStep => /\ plugin'.events = <<>> /\ plugin'.pending.events = e.events
                     /\ plugin'.pending.sequence = plugin.sequence + 1
                     /\ Sent' \subseteq Sent \cup {plugin'.pending}
    BY DEF BuildStep
  <1> HIDE DEF e
  <1>9. ASSUME EventStep \/ BuildStep
        PROVE  /\ Increasing(e.events) /\ \A i \in DOMAIN e.events : e.events[i] < plugin'.nextEvent
               /\ Numbered(ingested)' /\ Below(ingested, e.events)
               /\ \A m \in Sent :
                    /\ Increasing(m.events) /\ \A i \in DOMAIN m.events : m.events[i] < plugin'.nextEvent
                    /\ Below(m.events, e.events)
                    /\ Fresh(m)' => Below(ingested, m.events)
    <2>1. plugin.nextEvent <= plugin'.nextEvent
      BY <1>5, <1>6, <1>9
    <2>2. Increasing(e.events) /\ \A i \in DOMAIN e.events : e.events[i] < plugin'.nextEvent
      BY <1>0, <1>5, <1>6, <1>9 DEF EventInv, Numbered
    <2>3. Increasing(ingested) /\ \A i \in DOMAIN ingested : ingested[i] < plugin'.nextEvent
      BY <1>0, <1>1, <2>1, NumberedLater DEF EventInv
    <2>4. Numbered(ingested)'
      BY <1>6, <1>9, <2>3 DEF Numbered, Increasing
    <2>5. Below(ingested, e.events)
      BY <1>0, <1>5 DEF EventInv, Numbered
    <2>6. ASSUME NEW m \in Sent
          PROVE  /\ Increasing(m.events) /\ \A i \in DOMAIN m.events : m.events[i] < plugin'.nextEvent
                 /\ Below(m.events, e.events)
                 /\ Fresh(m)' => Below(ingested, m.events)
      <3>1. Numbered(m.events) /\ Below(m.events, plugin.events) /\ (Fresh(m) => Below(ingested, m.events))
        BY <1>0 DEF EventInv
      <3>2. Fresh(m)' => Fresh(m)
        BY <1>3, <1>9 DEF QuietStep
      <3>3. Increasing(m.events) /\ \A i \in DOMAIN m.events : m.events[i] < plugin'.nextEvent
        BY <1>1, <1>2, <2>1, <3>1, NumberedLater
      <3>4. Below(m.events, e.events)
        BY <1>5, <3>1 DEF Numbered
      <3> QED BY <3>1, <3>2, <3>3, <3>4
    <2> QED BY <2>2, <2>4, <2>5, <2>6
  <1>10. \A m, n \in Sent : /\ m.sequence < n.sequence => Below(m.events, n.events)
                            /\ m.sequence = n.sequence => m = n
    BY <1>0 DEF EventInv
  <1>11. CASE EventStep
    <2>1. Numbered(plugin.events)' /\ Below(ingested, plugin.events)'
      BY <1>6, <1>7, <1>9, <1>11 DEF Numbered
    <2>2. ASSUME NEW m \in Sent'
          PROVE  /\ Numbered(m.events)' /\ Below(m.events, plugin'.events)
                 /\ Fresh(m)' => Below(ingested', m.events)
      BY <1>6, <1>7, <1>9, <1>11, <2>2 DEF Numbered
    <2>3. \A m, n \in Sent' : /\ m.sequence < n.sequence => Below(m.events, n.events)
                              /\ m.sequence = n.sequence => m = n
      BY <1>7, <1>10, <1>11
    <2> QED BY <1>9, <1>11, <2>1, <2>2, <2>3 DEF EventInv
  <1>12. CASE BuildStep
    <2> DEFINE b == plugin'.pending
    <2>0. /\ plugin'.events = <<>> /\ b.events = e.events /\ b.sequence = plugin.sequence + 1
          /\ Sent' \subseteq Sent \cup {b} /\ ingested' = ingested
      BY <1>6, <1>8, <1>12
    <2> HIDE DEF b
    <2>1. /\ \A q : Below(q, <<>>)
          /\ Increasing(<<>>) /\ DOMAIN <<>> = {}
      BY DEF Below, Increasing
    <2>2. Numbered(plugin.events)' /\ Below(ingested, plugin.events)'
      BY <2>0, <2>1 DEF Numbered
    <2>3. ASSUME NEW m \in Sent'
          PROVE  /\ Numbered(m.events)' /\ Below(m.events, plugin'.events)
                 /\ Fresh(m)' => Below(ingested', m.events)
      <3>1. CASE m = b
        BY <1>9, <1>12, <2>0, <2>1, <3>1 DEF Numbered
      <3>2. CASE m \in Sent
        BY <1>9, <1>12, <2>0, <2>1, <3>2 DEF Numbered
      <3> QED BY <2>0, <3>1, <3>2
    <2>4. ASSUME NEW m \in Sent', NEW n \in Sent'
          PROVE  /\ m.sequence < n.sequence => Below(m.events, n.events)
                 /\ m.sequence = n.sequence => m = n
      <3>1. \A x \in Sent : x.sequence <= plugin.sequence /\ Below(x.events, e.events)
        BY <1>0, <1>9, <1>12 DEF SequenceInv
      <3>2. \A x \in Sent : ~(b.sequence < x.sequence) /\ b.sequence # x.sequence
        BY <1>1, <1>2, <2>0, <3>1
      <3>3. ~(b.sequence < b.sequence)
        BY <1>1, <2>0
      <3> QED BY <1>10, <2>0, <3>1, <3>2, <3>3
    <2> QED BY <1>9, <1>12, <2>2, <2>3, <2>4 DEF EventInv
  <1>13. ASSUME NEW m \in inbox, TakeStep(m) PROVE EventInv'
    <2>1. /\ m \in Sent /\ Fresh(m) /\ plugin' = plugin /\ ingested' = ingested \o m.events
      BY <1>13 DEF TakeStep
    <2>2. /\ Sent' \subseteq Sent
          /\ \A n \in Sent : Fresh(n)' => Fresh(n) /\ n.sequence > m.sequence
      BY <1>0, <1>13, TakenMine
    <2>3. /\ Numbered(m.events) /\ Below(m.events, plugin.events) /\ Below(ingested, m.events)
          /\ Numbered(ingested) /\ Below(ingested, plugin.events)
      BY <1>0, <2>1 DEF EventInv
    <2>4. /\ Increasing(ingested') /\ \A i \in DOMAIN ingested' : ingested'[i] < plugin.nextEvent
          /\ \A w : Below(ingested, w) /\ Below(m.events, w) => Below(ingested', w)
      <3> DEFINE S == 1..EventBound
      <3>1. ingested \in Seq(S) /\ m.events \in Seq(S)
        BY <1>0, <1>2, <2>1
      <3> HIDE DEF S
      <3>2. /\ Increasing(ingested) /\ Increasing(m.events)
            /\ \A i \in DOMAIN ingested : ingested[i] < plugin.nextEvent
            /\ \A i \in DOMAIN m.events : m.events[i] < plugin.nextEvent
        BY <2>3 DEF Numbered
      <3>3. /\ Increasing(ingested \o m.events)
            /\ \A w : Below(ingested, w) /\ Below(m.events, w) => Below(ingested \o m.events, w)
            /\ \A i \in DOMAIN (ingested \o m.events) : (ingested \o m.events)[i] < plugin.nextEvent
        BY <2>3, <3>1, <3>2, ConcatNumbers
      <3> QED BY <2>1, <3>3
    <2>5. Numbered(ingested)' /\ Below(ingested', plugin'.events) /\ Numbered(plugin.events)'
      BY <1>0, <2>1, <2>3, <2>4 DEF Numbered, EventInv, Increasing
    <2>6. ASSUME NEW n \in Sent, Fresh(n)' PROVE Below(ingested', n.events)
      <3>1. Fresh(n) /\ m.sequence < n.sequence
        BY <1>2, <2>1, <2>2, <2>6
      <3>2. Below(ingested, n.events) /\ Below(m.events, n.events)
        BY <1>0, <2>1, <3>1 DEF EventInv
      <3> QED BY <2>4, <3>2
    <2>7. ASSUME NEW n \in Sent' PROVE Numbered(n.events)' /\ Below(n.events, plugin'.events)
      BY <1>0, <2>1, <2>2 DEF EventInv, Numbered
    <2> QED BY <1>10, <2>2, <2>5, <2>6, <2>7 DEF EventInv
  <1> QED BY <1>4, <1>11, <1>12, <1>13

\* A report under way that is not the one taken has another sequence; and a
\* new report has a sequence the broker has not seen.
LEMMA TakenInvStep ==
  ASSUME LinkInv, BridgeInv', LinkTypeOK', QuietStep \/ (\E m \in inbox : TakeStep(m))
  PROVE  TakenInv'
  <1>0. /\ BridgeInv /\ UsedInv /\ LinkTypeOK /\ SequenceInv /\ EventInv /\ TakenInv
        /\ plugin.sequence \in Nat
    <2>1. plugin.sequence \in 0..SequenceBound /\ SequenceBound \in Nat
      BY LimitsAssumption DEF LinkInv, LinkTypeOK, Plugins
    <2> QED BY <2>1 DEF LinkInv
  <1>1. \A m \in Sent : m.session \in issued /\ (m.session \in live => Mine(m.session))
                        /\ m.session \in SessionIds
    BY <1>0, MineUnique
  <1>2. CASE QuietStep
    <2>1. \A m \in Sent : m.session \in live' => m.session \in live /\ SameSession(m.session)
      BY <1>1, <1>2, QuietIsQuiet DEF BrokerQuiet, BrandNew
    <2>2. taken' = taken \/ live' = {}
      BY <1>2 DEF QuietStep, IdleStep, ReplayStep, EventStep, BuildStep, AcknowledgeStep, ExecuteStep
    <2>3. ASSUME NEW m \in Sent, m.session \in live', m.sequence = record'[m.session].lastSequence
          PROVE  m = taken'
      BY <1>0, <2>1, <2>2, <2>3 DEF TakenInv, SameSession
    <2>4. CASE BuildStep
      <3>1. /\ plugin'.pending.sequence = plugin.sequence + 1
            /\ plugin'.pending.session = plugin.session /\ plugin.session \in SessionIds
            /\ Sent' \subseteq Sent \cup {plugin'.pending}
            /\ live' = live /\ record' = record
        BY <2>4 DEF BuildStep, vars
      <3>2. plugin.session \in live => Mine(plugin.session)
        <4>1. plugin.session \in Used
          BY <3>1, NoneAssumption DEF Used
        <4> QED BY <1>0, <4>1 DEF UsedInv, Mine
      <3>3. plugin.session \in live => record[plugin.session].lastSequence <= plugin.sequence
        BY <1>0, <3>1, <3>2 DEF SequenceInv
      <3>4. record[plugin.session].lastSequence \in Nat \cup {NoReport}
        BY <1>0, <3>1 DEF BridgeInv, TypeOK, SessionRecords
      <3>5. plugin.session \in live => plugin.sequence + 1 # record[plugin.session].lastSequence
        BY <1>0, <3>3, <3>4 DEF NoReport
      <3> QED BY <2>3, <3>1, <3>5 DEF TakenInv
    <2>5. CASE ~BuildStep
      <3>1. Sent' \subseteq Sent
        BY <1>2, <2>5, ReplaySent DEF QuietStep, IdleStep, ReplayStep, EventStep, AcknowledgeStep, ExecuteStep
      <3> QED BY <2>3, <3>1 DEF TakenInv
    <2> QED BY <2>4, <2>5
  <1>3. ASSUME NEW m \in inbox, TakeStep(m) PROVE TakenInv'
    <2>1. /\ Sent' \subseteq Sent /\ m.session \in SessionIds
          /\ \A s \in SessionIds : Mine(s)' => s = m.session
      BY <1>0, <1>3, TakenMine
    <2>2. /\ m \in Sent /\ taken' = m /\ live' = live
          /\ record'[m.session].lastSequence = m.sequence
          /\ record'[m.session].external = record[m.session].external
          /\ \A s \in SessionIds \ {m.session} : record'[s] = record[s]
      BY <1>3 DEF TakeStep
    <2>3. ASSUME NEW n \in Sent, n.session \in live', n.sequence = record'[n.session].lastSequence
          PROVE  n = m
      <3>1. n.session = m.session
        BY <1>1, <2>1, <2>2, <2>3 DEF Mine
      <3> QED BY <1>0, <2>2, <2>3, <3>1 DEF EventInv
    <2> QED BY <2>1, <2>2, <2>3 DEF TakenInv
  <1> QED BY <1>2, <1>3

----------------------------------------------------------------------------
(* Executions and the cache                                                *)

\* What is in the cache after c was appended: c, and some of what was in it.
LEMMA CacheContents ==
  ASSUME NEW q \in Seq(Commands), NEW w \in Seq(Commands), NEW c \in Commands, SuffixThen(w, q, c)
  PROVE  /\ c \in ToSet(w) /\ ToSet(w) \subseteq ToSet(q) \cup {c}
         /\ \A x \in ToSet(q) \ ToSet(w) : Len(w) <= Len(q) /\ \E k \in 1..(Len(q) + 1 - Len(w)) : q[k] = x
  <1>1. /\ DOMAIN q = 1..Len(q) /\ DOMAIN w = 1..Len(w) /\ Len(q) \in Nat /\ Len(w) \in Nat \ {0}
        /\ w[Len(w)] = c /\ Len(w) <= Len(q) + 1
        /\ \A i \in 1..(Len(w) - 1) :
             /\ i + (Len(q) + 1 - Len(w)) \in 1..Len(q)
             /\ w[i] = q[i + (Len(q) + 1 - Len(w))]
    BY LenProperties DEF SuffixThen
  <1>2. c \in ToSet(w)
    BY <1>1 DEF ToSet
  <1>3. ASSUME NEW i \in DOMAIN w PROVE w[i] \in ToSet(q) \cup {c}
    <2>1. CASE i = Len(w)
      BY <1>1, <2>1
    <2>2. CASE i # Len(w)
      <3>1. i \in 1..(Len(w) - 1)
        BY <1>1, <2>2
      <3> QED BY <1>1, <3>1 DEF ToSet
    <2> QED BY <2>1, <2>2
  <1>4. ASSUME NEW x \in ToSet(q) \ ToSet(w)
        PROVE  Len(w) <= Len(q) /\ \E k \in 1..(Len(q) + 1 - Len(w)) : q[k] = x
    <2>1. PICK k \in 1..Len(q) : q[k] = x
      BY <1>1 DEF ToSet
    <2>2. CASE k > Len(q) + 1 - Len(w)
      <3> DEFINE i == k - (Len(q) + 1 - Len(w))
      <3>1. i \in 1..(Len(w) - 1) /\ i + (Len(q) + 1 - Len(w)) = k /\ i \in DOMAIN w
        BY <1>1, <2>2
      <3>2. w[i] = x
        BY <1>1, <2>1, <3>1
      <3> HIDE DEF i
      <3> QED BY <3>1, <3>2 DEF ToSet
    <2>3. CASE ~(k > Len(q) + 1 - Len(w))
      <3>1. k \in 1..(Len(q) + 1 - Len(w))
        BY <1>1, <2>3
      <3>2. Len(w) <= Len(q)
        BY <1>1, <3>1
      <3> QED BY <2>1, <3>1, <3>2
    <2> QED BY <2>2, <2>3
  <1> QED BY <1>2, <1>3, <1>4 DEF ToSet

\* A cache without repetitions holds as many commands as it is long.
LEMMA CacheSize ==
  ASSUME NEW q \in Seq(Commands), \A i, j \in DOMAIN q : i < j => q[i] # q[j]
  PROVE  Cardinality(ToSet(q)) = Len(q)
  <1>1. DOMAIN q = 1..Len(q) /\ Len(q) \in Nat /\ q \in [1..Len(q) -> Commands]
    BY LenProperties
  <1>2. \A i, j \in 1..Len(q) : q[i] = q[j] => i = j
    <2>1. ASSUME NEW i \in 1..Len(q), NEW j \in 1..Len(q), q[i] = q[j] PROVE i = j
      <3>1. i < j \/ j < i \/ i = j
        OBVIOUS
      <3> QED BY <1>1, <2>1, <3>1
    <2> QED BY <2>1
  <1>3. q \in Bijection(1..Len(q), ToSet(q))
    BY <1>1, <1>2 DEF Bijection, Injection, Surjection, IsInjective, ToSet
  <1>4. ExistsBijection(1..Len(q), ToSet(q))
    BY <1>3 DEF ExistsBijection
  <1> QED BY <1>1, <1>4, FS_CountingElements

\* A command executed for real, or again.
LEMMA RanAfter ==
  ASSUME LinkTypeOK, NEW c \in Commands, ExecuteStep(c), c \notin ToSet(plugin.cache)
  PROVE  /\ Ran' = Ran \cup {c}
         /\ \A x \in Commands \ Ran : executions[x] = 0
         /\ since'[c] = {}
         /\ \A x \in Commands \ Ran : since'[x] = {}
         /\ \A x \in Ran \ {c} : since'[x] = since[x] \cup {c}
  <1>1. executions \in [Commands -> Nat]
    BY DEF LinkTypeOK
  <1>2. /\ executions' = [executions EXCEPT ![c] = @ + 1]
        /\ since' = [x \in Commands |-> IF x = c \/ executions[x] = 0 THEN {} ELSE since[x] \cup {c}]
    BY DEF ExecuteStep
  <1>3. Ran' = Ran \cup {c}
    <2>1. \A x \in Commands : executions'[x] = IF x = c THEN executions[x] + 1 ELSE executions[x]
      BY <1>1, <1>2
    <2>2. \A x \in Commands : executions[x] \in Nat
      BY <1>1
    <2>3. \A x \in Commands : executions'[x] >= 1 <=> x = c \/ executions[x] >= 1
      BY <2>1, <2>2
    <2> QED BY <2>3 DEF Ran
  <1>4. \A x \in Commands \ Ran : executions[x] = 0
    BY <1>1 DEF Ran
  <1>5. \A x \in Ran : executions[x] # 0 /\ x \in Commands
    BY <1>1 DEF Ran
  <1> QED BY <1>2, <1>3, <1>4, <1>5

SameRuns ==
  \/ \E m \in inbox : TakeStep(m) \/ ReplayStep(m)
  \/ IdleStep
  \/ EventStep
  \/ BuildStep
  \/ AcknowledgeStep
  \/ \E c \in Commands : ExecuteStep(c) /\ c \in ToSet(plugin.cache)

LEMMA SameRunsSame == SameRuns => SameExecutions /\ Ran' = Ran
  <1>1. SameRuns => SameExecutions
    BY DEF SameRuns, TakeStep, ReplayStep, IdleStep, EventStep, BuildStep, AcknowledgeStep,
           ExecuteStep, SameController, SameExecutions
  <1>2. SameExecutions => Ran' = Ran
    BY DEF SameExecutions, Ran
  <1> QED BY <1>1, <1>2

LEMMA CacheInvStep ==
  ASSUME LinkInv, LinkTypeOK', SameRuns \/ (\E c \in Commands : ExecuteStep(c))
  PROVE  CacheInv'
  <1>0. /\ LinkTypeOK /\ CacheInv /\ ToSet(plugin.cache) \subseteq Ran
        /\ since \in [Commands -> SUBSET Commands] /\ since' \in [Commands -> SUBSET Commands]
        /\ MaxCachedResults \in Nat \ {0}
        /\ plugin.cache \in Seq(Commands) /\ plugin'.cache \in Seq(Commands)
        /\ Len(plugin.cache) <= MaxCachedResults /\ Len(plugin'.cache) <= MaxCachedResults
    BY LinkAssumption DEF LinkInv, ExecutionInv, LinkTypeOK, Plugins
  <1>1. CASE SameRuns
    BY <1>0, <1>1, SameRunsSame DEF SameExecutions, CacheInv
  <1>2. ASSUME NEW c \in Commands, ExecuteStep(c), c \notin ToSet(plugin.cache) PROVE CacheInv'
    <2> DEFINE q == plugin.cache
               w == plugin'.cache
               d == Len(q) + 1 - Len(w)
    <2>1. /\ q \in Seq(Commands) /\ w \in Seq(Commands)
          /\ Len(q) <= MaxCachedResults /\ Len(w) <= MaxCachedResults
          /\ DOMAIN q = 1..Len(q) /\ DOMAIN w = 1..Len(w) /\ Len(q) \in Nat /\ Len(w) \in Nat
      BY <1>0, LenProperties
    <2>2. /\ Len(w) = IF Len(q) < MaxCachedResults THEN Len(q) + 1 ELSE MaxCachedResults
          /\ SuffixThen(w, q, c)
      BY <1>2 DEF ExecuteStep
    <2>3. /\ Ran' = Ran \cup {c}
          /\ since'[c] = {}
          /\ \A x \in Commands \ Ran : since'[x] = {}
          /\ \A x \in Ran \ {c} : since'[x] = since[x] \cup {c}
      BY <1>0, <1>2, RanAfter
    <2>4. \A i, j \in DOMAIN q : i < j => q[i] # q[j] /\ q[j] \in since[q[i]]
      BY <1>0 DEF CacheInv
    <2>5. \A i \in DOMAIN q : q[i] \in Ran \ {c}
      BY <1>0, <1>2 DEF ToSet
    <2>6. \A x \in Ran \ ToSet(q) : Cardinality(since[x]) >= MaxCachedResults
      BY <1>0 DEF CacheInv
    <2> HIDE DEF q, w
    <2>7. ASSUME NEW i \in DOMAIN w, NEW j \in DOMAIN w, i < j
          PROVE  w[i] # w[j] /\ w[j] \in since'[w[i]]
      <3>1. i \in 1..(Len(w) - 1) /\ i + d \in DOMAIN q /\ w[i] = q[i + d]
        BY <2>1, <2>2, <2>7 DEF SuffixThen
      <3>2. w[i] \in Ran \ {c} /\ since'[w[i]] = since[w[i]] \cup {c}
        BY <2>3, <2>5, <3>1
      <3>3. CASE j = Len(w)
        BY <2>2, <3>2, <3>3 DEF SuffixThen
      <3>4. CASE j # Len(w)
        <4>1. j \in 1..(Len(w) - 1) /\ j + d \in DOMAIN q /\ w[j] = q[j + d]
          BY <2>1, <2>2, <2>7, <3>4 DEF SuffixThen
        <4>2. i + d < j + d
          BY <2>1, <2>7
        <4> QED BY <2>4, <3>1, <3>2, <4>1, <4>2
      <3> QED BY <3>3, <3>4
    <2>8. /\ c \in ToSet(w)
          /\ \A x \in ToSet(q) \ ToSet(w) : Len(w) <= Len(q) /\ \E k \in 1..d : q[k] = x
      BY <2>1, <2>2, CacheContents
    <2>9. ASSUME NEW x \in Ran' \ ToSet(w)
          PROVE  Cardinality(since'[x]) >= MaxCachedResults
      <3>1. x \in Ran \ {c} /\ since'[x] = since[x] \cup {c} /\ x \in Commands
        BY <2>3, <2>8 DEF Ran
      <3>2. since'[x] \in SUBSET Commands /\ since[x] \in SUBSET Commands
        BY <1>0, <3>1
      <3>3. /\ IsFiniteSet(since'[x]) /\ Cardinality(since'[x]) \in Nat
            /\ Cardinality(since[x]) \in Nat
        BY <3>2, CommandSets
      <3>4. CASE x \notin ToSet(q)
        <4>1. Cardinality(since[x]) >= MaxCachedResults
          BY <2>6, <3>1, <3>4
        <4>2. Cardinality(since[x]) <= Cardinality(since'[x])
          BY <3>1, <3>3, FS_Subset
        <4> QED BY <1>0, <3>3, <4>1, <4>2
      <3>5. CASE x \in ToSet(q)
        <4>1. Len(w) = MaxCachedResults /\ d = 1 /\ q[1] = x /\ 1 \in DOMAIN q
          <5>1. Len(w) <= Len(q) /\ \E k \in 1..d : q[k] = x
            BY <2>8, <2>9, <3>5
          <5>2. Len(w) = MaxCachedResults /\ d = 1
            BY <1>0, <2>1, <2>2, <5>1
          <5>3. \A k \in 1..d : k = 1
            BY <5>2
          <5> QED BY <1>0, <2>1, <5>1, <5>2, <5>3
        <4>2. ToSet(w) \subseteq since'[x]
          <5>1. ASSUME NEW i \in DOMAIN w PROVE w[i] \in since'[x]
            <6>1. CASE i = Len(w)
              BY <2>2, <3>1, <6>1 DEF SuffixThen
            <6>2. CASE i # Len(w)
              <7>1. i \in 1..(Len(w) - 1) /\ i + d \in DOMAIN q /\ w[i] = q[i + d]
                BY <2>1, <2>2, <6>2 DEF SuffixThen
              <7>2. 1 < i + d
                BY <4>1, <7>1
              <7>3. q[i + d] \in since[q[1]]
                BY <2>4, <4>1, <7>1, <7>2
              <7> QED BY <3>1, <4>1, <7>1, <7>3
            <6> QED BY <6>1, <6>2
          <5> QED BY <5>1 DEF ToSet
        <4>3. Cardinality(ToSet(w)) = MaxCachedResults
          BY <2>1, <2>7, <4>1, CacheSize
        <4>4. Cardinality(ToSet(w)) <= Cardinality(since'[x])
          BY <3>3, <4>2, FS_Subset
        <4> QED BY <1>0, <3>3, <4>3, <4>4
      <3> QED BY <3>4, <3>5
    <2>10. \A x \in Commands \ Ran' : since'[x] = {}
      BY <2>3
    <2> QED BY <2>7, <2>9, <2>10 DEF CacheInv, w
  <1> QED BY <1>1, <1>2 DEF SameRuns

\* The kinds of steps once more, by what the invariants ask of them.
LinkStep == QuietStep \/ \E m \in inbox : TakeStep(m)

LEMMA SentResults ==
  ASSUME LinkInv
  PROVE  /\ \A m \in Sent : m.results \subseteq Ran
         /\ plugin.results \subseteq Ran /\ ToSet(plugin.cache) \subseteq Ran
         /\ Ran \subseteq delivered /\ plugin.todo \subseteq delivered /\ reply.commands \subseteq delivered
         /\ delivered \subseteq Commands
         /\ \A c \in Commands : call[c] = "answered" => c \in Ran
  BY DEF LinkInv, ExecutionInv, AnsweredWasExecuted, Ran, BridgeInv, TypeOK

LEMMA ExecutionStep ==
  ASSUME LinkInv, BridgeInv', LinkTypeOK', LinkStep
  PROVE  ExecutionInv'
  <1>0. /\ LinkTypeOK /\ BridgeInv /\ UsedInv
        /\ plugin.cache \in Seq(Commands) /\ plugin'.cache \in Seq(Commands)
    BY DEF LinkInv, LinkTypeOK, Plugins
  <1>1. ASSUME Ran \subseteq Ran', delivered \subseteq delivered',
               plugin'.results \cup ToSet(plugin'.cache) \subseteq Ran',
               \A m \in Sent' \ Sent : m.results \subseteq Ran',
               Ran' \cup plugin'.todo \cup reply'.commands \subseteq delivered',
               \A c \in Commands : call'[c] = "answered" => call[c] = "answered" \/ c \in Ran'
        PROVE  ExecutionInv'
    <2>1. \A m \in Sent' : m.results \subseteq Ran'
      BY <1>1, SentResults
    <2>2. AnsweredWasExecuted'
      BY <1>1, SentResults DEF AnsweredWasExecuted, Ran
    <2> QED BY <1>1, <2>1, <2>2 DEF ExecutionInv
  <1>2. QuietStep => /\ delivered \subseteq delivered'
                     /\ \A c \in Commands : call'[c] = "answered" => call[c] = "answered"
    BY QuietIsQuiet DEF BrokerQuiet
  <1>3. CASE IdleStep \/ EventStep \/ AcknowledgeStep
    <2>1. /\ Sent' \subseteq Sent /\ plugin'.results = plugin.results /\ plugin'.cache = plugin.cache
          /\ plugin'.todo \subseteq plugin.todo \cup reply.commands
          /\ reply'.commands \subseteq reply.commands
      BY <1>3 DEF IdleStep, EventStep, AcknowledgeStep, SameController, SameExecutions
    <2>2. Ran' = Ran
      BY <1>3, SameRunsSame DEF SameRuns
    <2> QED BY <1>1, <1>2, <1>3, <2>1, <2>2, SentResults DEF QuietStep
  <1>4. ASSUME NEW m \in inbox, ReplayStep(m) PROVE ExecutionInv'
    <2>1. /\ Sent' \subseteq Sent /\ plugin' = plugin
          /\ reply' = reply \/ reply'.commands \subseteq delivered'
      BY <1>4, ReplaySent DEF ReplayStep, Response
    <2>2. Ran' = Ran
      BY <1>4, SameRunsSame DEF SameRuns
    <2> QED BY <1>1, <1>2, <1>4, <2>1, <2>2, SentResults DEF QuietStep
  <1>5. ASSUME NEW m \in inbox, TakeStep(m) PROVE ExecutionInv'
    <2>1. /\ Sent' \subseteq Sent /\ plugin' = plugin /\ delivered \subseteq delivered'
          /\ reply' = reply \/ reply'.commands \subseteq delivered'
          /\ \A c \in Commands : call'[c] = "answered" => call[c] = "answered" \/ c \in m.results
          /\ m \in Sent
      BY <1>0, <1>5, TakenMine DEF TakeStep, Response
    <2>2. Ran' = Ran
      BY <1>5, SameRunsSame DEF SameRuns
    <2> QED BY <1>1, <2>1, <2>2, SentResults
  <1>6. CASE BuildStep
    <2>1. /\ Sent' \subseteq Sent \cup {plugin'.pending} /\ plugin'.pending.results = plugin.results
          /\ plugin'.results = {} /\ plugin'.cache = plugin.cache /\ plugin'.todo = {}
          /\ reply' = reply
      BY <1>6 DEF BuildStep, SameExecutions
    <2>2. Ran' = Ran
      BY <1>6, SameRunsSame DEF SameRuns
    <2> QED BY <1>1, <1>2, <1>6, <2>1, <2>2, SentResults DEF QuietStep
  <1>7. ASSUME NEW c \in Commands, ExecuteStep(c) PROVE ExecutionInv'
    <2>1. /\ Sent' \subseteq Sent /\ plugin'.results = plugin.results \cup {c}
          /\ c \in plugin.todo /\ plugin'.todo \subseteq plugin.todo /\ reply' = reply
      BY <1>7 DEF ExecuteStep
    <2>2. CASE c \in ToSet(plugin.cache)
      <3>1. Ran' = Ran /\ plugin'.cache = plugin.cache
        BY <1>7, <2>2, SameRunsSame DEF SameRuns, ExecuteStep, SameExecutions
      <3> QED BY <1>1, <1>2, <1>7, <2>1, <2>2, <3>1, SentResults DEF QuietStep
    <2>3. CASE c \notin ToSet(plugin.cache)
      <3>1. Ran' = Ran \cup {c}
        BY <1>0, <1>7, <2>3, RanAfter
      <3>2. ToSet(plugin'.cache) \subseteq ToSet(plugin.cache) \cup {c}
        <4>1. SuffixThen(plugin'.cache, plugin.cache, c)
          BY <1>7, <2>3 DEF ExecuteStep
        <4> DEFINE q == plugin.cache
                   w == plugin'.cache
        <4>2. q \in Seq(Commands) /\ w \in Seq(Commands) /\ SuffixThen(w, q, c)
          BY <1>0, <4>1
        <4> HIDE DEF q, w
        <4>3. ToSet(w) \subseteq ToSet(q) \cup {c}
          BY <4>2, CacheContents
        <4> QED BY <4>3 DEF q, w
      <3> QED BY <1>1, <1>2, <1>7, <2>1, <3>1, <3>2, SentResults DEF QuietStep
    <2> QED BY <2>2, <2>3
  <1> QED BY <1>3, <1>4, <1>5, <1>6, <1>7 DEF LinkStep, QuietStep

----------------------------------------------------------------------------
(* Between an answer and the executions it asks for                        *)

\* Once the broker has answered the current report, no other is fresh.
LEMMA CurrentIsLast ==
  ASSUME LinkInv, NEW m \in Sent, m.session \in live,
         plugin.pc = "reporting", m = plugin.awaiting
  PROVE  \A n \in Sent : Fresh(n) => n.session = m.session /\ ~(n.sequence > m.sequence)
  <1>1. /\ BridgeInv /\ UsedInv /\ LinkTypeOK
        /\ m.sequence = plugin.sequence
        /\ \A n \in Sent : n.sequence <= plugin.sequence
    BY DEF LinkInv, ShapeInv, SequenceInv
  <1>2. \A n \in Sent : n.sequence \in Nat
    <2>1. \A n \in Sent : n.sequence \in 1..SequenceBound
      BY <1>1, SentType DEF Reports
    <2>2. SequenceBound \in Nat
      BY LimitsAssumption
    <2> QED BY <2>1, <2>2
  <1>3. \A n \in Sent : Fresh(n) => n.session = m.session
    BY <1>1, MineUnique DEF Fresh
  <1>4. \A n \in Sent : ~(n.sequence > m.sequence)
    BY <1>1, <1>2
  <1> QED BY <1>3, <1>4

LEMMA QuietInvStep ==
  ASSUME LinkInv, BridgeInv', LinkTypeOK', LinkStep
  PROVE  QuietInv'
  <1>0. BridgeInv /\ UsedInv /\ LinkTypeOK /\ QuietInv
    BY DEF LinkInv
  <1>1. QuietStep => \A m \in Sent : Fresh(m)' => Fresh(m)
    BY <1>0, QuietIsQuiet, QuietMine
  <1>2. CASE IdleStep \/ EventStep \/ AcknowledgeStep \/ \E c \in Commands : ExecuteStep(c)
    <2>1. Sent' \subseteq Sent
      BY <1>2 DEF IdleStep, EventStep, AcknowledgeStep, ExecuteStep
    <2>2. Acknowledged' \/ Executing' => Acknowledged \/ Executing
      BY <1>2 DEF IdleStep, EventStep, AcknowledgeStep, ExecuteStep, SameController, Executing
    <2> QED BY <1>0, <1>1, <1>2, <2>1, <2>2 DEF QuietInv, QuietStep
  <1>3. CASE BuildStep
    BY <1>3 DEF BuildStep, QuietInv, Executing
  <1>4. ASSUME NEW m \in inbox, ReplayStep(m) PROVE QuietInv'
    <2>1. Sent' \subseteq Sent /\ plugin' = plugin
      BY <1>4, ReplaySent DEF ReplayStep
    <2>2. CASE reply' = reply
      <3>1. Acknowledged' \/ Executing' => Acknowledged \/ Executing
        BY <2>1, <2>2 DEF Acknowledged, Executing
      <3> QED BY <1>0, <1>1, <1>4, <2>1, <3>1 DEF QuietInv, QuietStep
    <2>3. CASE plugin.pc = "reporting" /\ m = plugin.awaiting
      <3>1. m \in Sent /\ m.session \in live /\ record[m.session].lastSequence = m.sequence
        BY <1>4 DEF ReplayStep
      <3>2. \A n \in Sent : ~Fresh(n)
        BY <2>3, <3>1, CurrentIsLast DEF Fresh
      <3> QED BY <1>1, <1>4, <2>1, <3>2 DEF QuietInv, QuietStep
    <2> QED BY <1>4, <2>2, <2>3 DEF ReplayStep
  <1>5. ASSUME NEW m \in inbox, TakeStep(m) PROVE QuietInv'
    <2>1. /\ Sent' \subseteq Sent /\ plugin' = plugin /\ m \in Sent /\ Fresh(m)
          /\ \A n \in Sent : Fresh(n)' => Fresh(n) /\ n.sequence > m.sequence
      BY <1>0, <1>5, TakenMine DEF TakeStep
    <2>2. ~Acknowledged /\ ~Executing
      BY <1>0, <2>1 DEF QuietInv
    <2>3. CASE reply' = reply
      BY <2>1, <2>2, <2>3 DEF QuietInv, Acknowledged, Executing
    <2>4. CASE plugin.pc = "reporting" /\ m = plugin.awaiting
      <3>1. \A n \in Sent : ~Fresh(n)'
        BY <2>1, <2>4, CurrentIsLast DEF Fresh
      <3> QED BY <2>1, <3>1 DEF QuietInv
    <2> QED BY <1>5, <2>3, <2>4 DEF TakeStep
  <1> QED BY <1>2, <1>3, <1>4, <1>5 DEF LinkStep, QuietStep

LEMMA CoverStep ==
  ASSUME LinkInv, BridgeInv', LinkTypeOK', LinkStep
  PROVE  CoverInv'
  <1>0. /\ BridgeInv /\ UsedInv /\ LinkTypeOK /\ QuietInv /\ CoverInv /\ ShapeInv
        /\ \A s \in SessionIds : record[s].inFlight \subseteq record[s].lastResponse.commands
    BY DEF LinkInv, BridgeInv, WorkInv, WorkOK
  <1>1. QuietStep => \A s \in SessionIds : Mine(s)' => (Mine(s) /\ SameSession(s)) \/ BrandNew(s)
    BY <1>0, QuietIsQuiet, QuietMine
  <1>2. CASE IdleStep \/ EventStep
    <2>1. /\ Executing' => Executing
          /\ plugin'.todo = plugin.todo /\ plugin'.results = plugin.results
          /\ Acknowledged' => Acknowledged /\ reply'.commands = reply.commands
      BY <1>2 DEF IdleStep, EventStep, SameController, Executing
    <2>2. \A s \in SessionIds : Mine(s)' => (Mine(s) /\ SameSession(s)) \/ BrandNew(s)
      BY <1>1, <1>2 DEF QuietStep
    <2> QED BY <1>0, <2>1, <2>2 DEF CoverInv, SameSession, BrandNew
  <1>3. CASE BuildStep
    BY <1>3 DEF BuildStep, CoverInv, Executing
  <1>4. CASE AcknowledgeStep
    <2>1. /\ live' = live /\ record' = record /\ Acknowledged /\ ~Acknowledged'
          /\ plugin'.todo = reply.commands
      BY <1>4 DEF AcknowledgeStep, vars
    <2> QED BY <1>0, <2>1 DEF CoverInv, Mine
  <1>5. ASSUME NEW c \in Commands, ExecuteStep(c) PROVE CoverInv'
    <2>1. /\ live' = live /\ record' = record /\ Executing /\ ~Acknowledged'
          /\ plugin'.todo = plugin.todo \ {c} /\ plugin'.results = plugin.results \cup {c}
      BY <1>5 DEF ExecuteStep, vars, Executing
    <2> QED BY <1>0, <2>1 DEF CoverInv, Mine
  <1>6. ASSUME NEW m \in inbox, ReplayStep(m) PROVE CoverInv'
    <2>1. /\ live' = live /\ record' = record /\ plugin' = plugin /\ m \in Sent /\ m.session \in live
          /\ \/ reply' = reply
             \/ reply'.commands = record[m.session].lastResponse.commands
      BY <1>6 DEF ReplayStep, Response
    <2>2. \A s \in SessionIds : Mine(s) => s = m.session
      BY <1>0, <2>1, MineUnique
    <2> QED BY <1>0, <2>1, <2>2 DEF CoverInv, Mine, Acknowledged, Executing
  <1>7. ASSUME NEW m \in inbox, TakeStep(m) PROVE CoverInv'
    <2>1. /\ m \in Sent /\ Fresh(m) /\ plugin' = plugin
          /\ record'[m.session].lastResponse.commands = record'[m.session].inFlight
          /\ reply' = reply \/ reply'.commands = record'[m.session].lastResponse.commands
          /\ \A s \in SessionIds : Mine(s)' => s = m.session
      BY <1>0, <1>7, TakenMine DEF TakeStep, Response
    <2>2. ~Acknowledged /\ ~Executing
      BY <1>0, <2>1 DEF QuietInv
    <2> QED BY <2>1, <2>2 DEF CoverInv, Acknowledged, Executing
  <1> QED BY <1>2, <1>3, <1>4, <1>5, <1>6, <1>7 DEF LinkStep, QuietStep

LEMMA JointStep ==
  ASSUME LinkInv, BridgeInv', LinkTypeOK', LinkStep
  PROVE  JointInv'
  <1>0. /\ BridgeInv /\ UsedInv /\ LinkTypeOK /\ QuietInv /\ CoverInv /\ ShapeInv /\ JointInv
        /\ Ran \subseteq delivered
    BY SentResults DEF LinkInv
  <1>1. QuietStep => /\ \A s \in SessionIds : Mine(s)' => (Mine(s) /\ SameSession(s)) \/ BrandNew(s)
                     /\ \A m \in Sent : Fresh(m)' => Fresh(m)
    BY <1>0, QuietIsQuiet, QuietMine
  <1>2. ASSUME QuietStep, SameRuns, Sent' \subseteq Sent, plugin'.results = plugin.results,
               plugin.todo \subseteq plugin'.todo
        PROVE  JointInv'
    <2>1. Ran' = Ran /\ since' = since
      BY <1>2, SameRunsSame DEF SameExecutions
    <2> QED BY <1>0, <1>1, <1>2, <2>1 DEF JointInv, SameSession, BrandNew
  <1>3. CASE IdleStep \/ EventStep
    <2>1. Sent' \subseteq Sent /\ plugin'.results = plugin.results /\ plugin'.todo = plugin.todo
      BY <1>3 DEF IdleStep, EventStep, SameController
    <2> QED BY <1>2, <1>3, <2>1 DEF QuietStep, SameRuns
  <1>4. ASSUME NEW m \in inbox, ReplayStep(m) PROVE JointInv'
    <2>1. Sent' \subseteq Sent /\ plugin' = plugin
      BY <1>4, ReplaySent DEF ReplayStep
    <2> QED BY <1>2, <1>4, <2>1 DEF QuietStep, SameRuns
  <1>5. CASE AcknowledgeStep
    <2>1. Sent' \subseteq Sent /\ plugin'.results = plugin.results /\ plugin.todo = {}
      BY <1>0, <1>5 DEF AcknowledgeStep, Acknowledged, ShapeInv, Executing
    <2> QED BY <1>2, <1>5, <2>1 DEF QuietStep, SameRuns
  <1>6. CASE BuildStep
    <2>1. /\ live' = live /\ record' = record /\ plugin.todo = {}
          /\ plugin'.results = {} /\ plugin'.pending.results = plugin.results
          /\ Sent' \subseteq Sent \cup {plugin'.pending}
      BY <1>6 DEF BuildStep, vars
    <2>2. Ran' = Ran /\ since' = since
      BY <1>6, SameRunsSame DEF SameExecutions, SameRuns
    <2> DEFINE b == plugin'.pending
    <2>3. b.results = plugin.results /\ Sent' \subseteq Sent \cup {b}
      BY <2>1
    <2> HIDE DEF b
    <2>4. ASSUME NEW s \in SessionIds, Mine(s)', NEW c \in record'[s].inFlight \cap Ran'
          PROVE  /\ since'[c] \cap plugin'.results = {}
                 /\ \A m \in Sent' : Fresh(m)' /\ since'[c] \cap m.results # {} => c \in m.results
      <3>1. Mine(s) /\ c \in record[s].inFlight \cap Ran
        BY <2>1, <2>2, <2>4 DEF Mine
      <3>2. since[c] \cap plugin.results # {} => c \in plugin.results
        BY <1>0, <2>1, <3>1 DEF JointInv
      <3>3. \A m \in Sent : Fresh(m) /\ since[c] \cap m.results # {} => c \in m.results
        BY <1>0, <3>1 DEF JointInv
      <3>4. \A m \in Sent : Fresh(m)' => Fresh(m)
        BY <1>1, <1>6 DEF QuietStep
      <3> QED BY <2>1, <2>2, <2>3, <3>2, <3>3, <3>4
    <2> QED BY <2>4 DEF JointInv
  <1>7. ASSUME NEW c \in Commands, ExecuteStep(c) PROVE JointInv'
    <2>1. /\ live' = live /\ record' = record /\ Executing /\ Sent' \subseteq Sent
          /\ plugin'.todo = plugin.todo \ {c} /\ plugin'.results = plugin.results \cup {c}
      BY <1>7 DEF ExecuteStep, vars, Executing
    <2>2. \A s \in SessionIds : Mine(s)' => record'[s].inFlight \subseteq plugin'.todo \cup plugin'.results
      BY <1>0, <2>1 DEF CoverInv, Mine
    <2>3. \A m \in Sent' : ~Fresh(m)'
      BY <1>0, <1>1, <1>7, <2>1 DEF QuietInv, QuietStep
    <2> QED BY <2>2, <2>3 DEF JointInv
  <1>8. ASSUME NEW m \in inbox, TakeStep(m) PROVE JointInv'
    <2>1. /\ plugin' = plugin /\ m.session \in SessionIds /\ Mine(m.session) /\ Sent' \subseteq Sent
          /\ \A s \in SessionIds : Mine(s)' => s = m.session
          /\ \A n \in Sent : Fresh(n)' => Fresh(n)
          /\ record'[m.session].inFlight \subseteq
               (record[m.session].inFlight \ m.results) \cup (Commands \ delivered)
      BY <1>0, <1>8, TakenMine DEF TakeStep
    <2>2. Ran' = Ran /\ since' = since
      BY <1>8, SameRunsSame DEF SameExecutions, SameRuns
    <2>3. record'[m.session].inFlight \cap Ran' \subseteq record[m.session].inFlight \cap Ran
      BY <1>0, <2>1, <2>2
    <2> QED BY <1>0, <2>1, <2>2, <2>3 DEF JointInv
  <1> QED BY <1>3, <1>4, <1>5, <1>6, <1>7, <1>8 DEF LinkStep, QuietStep

----------------------------------------------------------------------------
(* What is executed again was in vain                                      *)

LEMMA StaysInVain ==
  ASSUME NEW c \in Commands, InVain(c), LinkTypeOK,
         \A d \in Commands : call'[d] = "answered" => call[d] = "answered",
         since'[c] = since[c]
  PROVE  InVain(c)'
  <1>1. since[c] \subseteq Commands
    BY DEF LinkTypeOK
  <1> QED BY <1>1 DEF InVain

LEMMA VainStep ==
  ASSUME LinkInv, BridgeInv', LinkTypeOK', LinkStep
  PROVE  VainInv'
  <1>0. /\ BridgeInv /\ UsedInv /\ LinkTypeOK /\ QuietInv /\ ShapeInv /\ SequenceInv
        /\ CacheInv /\ JointInv /\ VainInv
        /\ plugin.todo \subseteq Commands /\ reply.commands \subseteq Commands
        /\ Ran \subseteq delivered
        /\ since \in [Commands -> SUBSET Commands]
        /\ \A s \in SessionIds : /\ record[s].inFlight \subseteq Commands
                                 /\ record[s].lastResponse.commands \subseteq Commands
                                 /\ record[s].lastSequence \in Nat \cup {NoReport}
        /\ plugin.sequence \in Nat
    <2>1. plugin.sequence \in 0..SequenceBound /\ SequenceBound \in Nat /\ plugin.todo \subseteq Commands
      BY LimitsAssumption DEF LinkInv, LinkTypeOK, Plugins
    <2>2. reply.commands \subseteq Commands
      BY DEF LinkInv, LinkTypeOK, Replies
    <2>3. \A s \in SessionIds : /\ record[s].inFlight \subseteq Commands
                                /\ record[s].lastResponse.commands \subseteq Commands
                                /\ record[s].lastSequence \in Nat \cup {NoReport}
      BY DEF LinkInv, BridgeInv, TypeOK, SessionRecords, Responses
    <2> QED BY <2>1, <2>2, <2>3, SentResults DEF LinkInv, LinkTypeOK
  <1>1. QuietStep => /\ \A s \in SessionIds : Mine(s)' => (Mine(s) /\ SameSession(s)) \/ BrandNew(s)
                     /\ \A c \in Commands : call'[c] = "answered" => call[c] = "answered"
    BY <1>0, QuietIsQuiet, QuietMine DEF BrokerQuiet
  <1>2. QuietStep /\ SameRuns => \A c \in Commands : InVain(c) => InVain(c)'
    BY <1>0, <1>1, SameRunsSame, StaysInVain DEF SameExecutions
  \* The part about the session, for the steps that give no answer and leave
  \* the sequence.
  <1>3. ASSUME QuietStep, plugin'.sequence = plugin.sequence,
               \A c \in Commands : InVain(c) => InVain(c)',
               NEW s \in SessionIds, Mine(s)'
        PROVE  /\ \A c \in record'[s].inFlight : InVain(c)'
               /\ record'[s].lastSequence = plugin'.sequence =>
                    \A c \in record'[s].lastResponse.commands : InVain(c)'
    <2>1. CASE BrandNew(s)
      BY <1>0, <1>3, <2>1 DEF BrandNew, NoReport
    <2>2. CASE Mine(s) /\ SameSession(s)
      BY <1>0, <1>3, <2>2 DEF VainInv, SameSession
    <2> QED BY <1>1, <1>3, <2>1, <2>2
  <1>4. CASE IdleStep \/ EventStep
    <2>1. /\ plugin'.todo = plugin.todo /\ plugin'.sequence = plugin.sequence
          /\ Acknowledged' => Acknowledged /\ reply'.commands = reply.commands
      BY <1>4 DEF IdleStep, EventStep, SameController
    <2>2. QuietStep /\ SameRuns
      BY <1>4 DEF QuietStep, SameRuns
    <2>3. \A c \in plugin'.todo : InVain(c)'
      BY <1>0, <1>2, <2>1, <2>2 DEF VainInv
    <2>4. Acknowledged' => \A c \in reply'.commands : InVain(c)'
      BY <1>0, <1>2, <2>1, <2>2 DEF VainInv
    <2> QED BY <1>2, <1>3, <2>1, <2>2, <2>3, <2>4 DEF VainInv
  <1>5. CASE AcknowledgeStep
    <2>1. /\ Acknowledged /\ ~Acknowledged' /\ plugin'.todo = reply.commands
          /\ plugin'.sequence = plugin.sequence
      BY <1>5 DEF AcknowledgeStep
    <2>2. QuietStep /\ SameRuns
      BY <1>5 DEF QuietStep, SameRuns
    <2>3. \A c \in plugin'.todo : InVain(c)'
      BY <1>0, <1>2, <2>1, <2>2 DEF VainInv
    <2> QED BY <1>2, <1>3, <2>1, <2>2, <2>3 DEF VainInv
  <1>6. CASE BuildStep
    <2>1. /\ plugin'.todo = {} /\ ~Acknowledged' /\ plugin'.sequence = plugin.sequence + 1
          /\ live' = live /\ record' = record
      BY <1>6 DEF BuildStep, vars
    <2>2. QuietStep /\ SameRuns
      BY <1>6 DEF QuietStep, SameRuns
    <2>3. ASSUME NEW s \in SessionIds, Mine(s)'
          PROVE  /\ \A c \in record'[s].inFlight : InVain(c)'
                 /\ record'[s].lastSequence # plugin'.sequence
      <3>1. Mine(s) /\ record[s].lastSequence <= plugin.sequence
        BY <1>0, <2>1, <2>3 DEF Mine, SequenceInv
      <3>2. record[s].lastSequence # plugin.sequence + 1
        BY <1>0, <3>1 DEF NoReport
      <3> QED BY <1>0, <1>2, <2>1, <2>2, <3>1, <3>2 DEF VainInv
    <2> QED BY <2>1, <2>3 DEF VainInv
  <1>7. ASSUME NEW x \in Commands, ExecuteStep(x) PROVE VainInv'
    <2>1. /\ plugin'.todo \subseteq plugin.todo /\ x \in plugin.todo /\ ~Acknowledged'
          /\ plugin'.sequence = plugin.sequence /\ call' = call
      BY <1>7 DEF ExecuteStep, vars
    <2>2. \A c \in Commands : InVain(c) => InVain(c)'
      <3>1. CASE x \in ToSet(plugin.cache)
        BY <1>2, <1>7, <3>1 DEF QuietStep, SameRuns
      <3>2. CASE x \notin ToSet(plugin.cache)
        <4>1. \A c \in Commands : since'[c] \subseteq since[c] \cup {x}
          BY <1>0, <1>7, <3>2 DEF ExecuteStep
        <4>2. call[x] # "answered"
          BY <1>0, <2>1 DEF VainInv, InVain
        <4> QED BY <2>1, <4>1, <4>2 DEF InVain
      <3> QED BY <3>1, <3>2
    <2>3. QuietStep
      BY <1>7 DEF QuietStep
    <2>4. \A c \in plugin'.todo : InVain(c)'
      BY <1>0, <2>1, <2>2 DEF VainInv
    <2> QED BY <1>3, <2>1, <2>2, <2>3, <2>4 DEF VainInv
  <1>8. ASSUME NEW m \in inbox, ReplayStep(m) PROVE VainInv'
    <2>1. /\ m \in Sent /\ m.session \in live /\ plugin' = plugin
          /\ record[m.session].lastSequence = m.sequence
          /\ \/ reply' = reply
             \/ /\ plugin.pc = "reporting" /\ m = plugin.awaiting
                /\ reply'.commands = record[m.session].lastResponse.commands
      BY <1>8 DEF ReplayStep, Response
    <2>2. QuietStep /\ SameRuns
      BY <1>8 DEF QuietStep, SameRuns
    <2>3. \A c \in plugin'.todo : InVain(c)'
      BY <1>0, <1>2, <2>1, <2>2 DEF VainInv
    <2>4. ASSUME Acknowledged' PROVE \A c \in reply'.commands : InVain(c)'
      <3>1. CASE reply' = reply
        <4>1. Acknowledged
          BY <2>1, <2>4, <3>1 DEF Acknowledged
        <4> QED BY <1>0, <1>2, <2>2, <3>1, <4>1 DEF VainInv
      <3>2. CASE /\ plugin.pc = "reporting" /\ m = plugin.awaiting
                 /\ reply'.commands = record[m.session].lastResponse.commands
        <4>1. m.session \in SessionIds /\ Mine(m.session)
          BY <1>0, <2>1, MineUnique
        <4>2. record[m.session].lastSequence = plugin.sequence
          BY <1>0, <2>1, <3>2 DEF ShapeInv
        <4>3. \A c \in record[m.session].lastResponse.commands : InVain(c) /\ c \in Commands
          BY <1>0, <4>1, <4>2 DEF VainInv
        <4> QED BY <1>2, <2>2, <3>2, <4>3
      <3> QED BY <2>1, <3>1, <3>2
    <2> QED BY <1>2, <1>3, <2>1, <2>2, <2>3, <2>4 DEF VainInv
  <1>9. ASSUME NEW m \in inbox, TakeStep(m) PROVE VainInv'
    <2> DEFINE granted == record'[m.session].inFlight
    <2>1. /\ plugin' = plugin /\ m \in Sent /\ Fresh(m)
          /\ m.session \in SessionIds /\ Mine(m.session)
          /\ \A s \in SessionIds : Mine(s)' => s = m.session
          /\ record'[m.session].lastResponse.commands = granted
          /\ granted \subseteq (record[m.session].inFlight \ m.results) \cup (Commands \ delivered)
          /\ \A c \in Commands : call'[c] = "answered" => call[c] = "answered" \/ c \in m.results
          /\ reply' = reply \/ reply'.commands = granted
      BY <1>0, <1>9, TakenMine DEF TakeStep, Response
    <2>2. ~Acknowledged /\ ~Executing
      BY <1>0, <2>1 DEF QuietInv
    <2>3. since' = since
      BY <1>9 DEF TakeStep
    <2>4. m.results \subseteq Ran /\ \A c \in Commands : call[c] = "answered" => c \in Ran
      BY <2>1, SentResults
    <2> HIDE DEF granted
    <2>5. ASSUME NEW c \in granted PROVE InVain(c)'
      <3>1. CASE c \in record[m.session].inFlight \ m.results
        <4>1. c \in Commands /\ InVain(c)
          BY <1>0, <2>1, <3>1 DEF VainInv
        <4>2. call'[c] # "answered"
          BY <2>1, <3>1, <4>1 DEF InVain
        <4>3. since[c] \cap m.results = {}
          <5>1. CASE c \in Ran
            BY <1>0, <2>1, <3>1, <5>1 DEF JointInv
          <5>2. CASE c \notin Ran
            BY <1>0, <4>1, <5>2 DEF CacheInv
          <5> QED BY <5>1, <5>2
        <4>4. since[c] \subseteq Commands
          BY <1>0, <4>1
        <4>5. \A d \in since[c] : call'[d] # "answered"
          BY <2>1, <4>1, <4>3, <4>4 DEF InVain
        <4> QED BY <2>3, <4>2, <4>5 DEF InVain
      <3>2. CASE c \in Commands \ delivered
        <4>1. c \in Commands \ Ran /\ c \notin m.results
          BY <1>0, <2>4, <3>2
        <4>2. since[c] = {}
          BY <1>0, <4>1 DEF CacheInv
        <4>3. call'[c] # "answered"
          BY <2>1, <2>4, <4>1
        <4> QED BY <2>3, <4>2, <4>3 DEF InVain
      <3> QED BY <2>1, <3>1, <3>2
    <2>6. plugin'.todo = {}
      BY <2>1, <2>2 DEF Executing
    <2>7. Acknowledged' => reply'.commands = granted
      BY <2>1, <2>2 DEF Acknowledged
    <2>8. \A s \in SessionIds : Mine(s)' =>
            record'[s].inFlight = granted /\ record'[s].lastResponse.commands = granted
      BY <2>1 DEF granted
    <2> QED BY <2>5, <2>6, <2>7, <2>8 DEF VainInv
  <1> QED BY <1>4, <1>5, <1>6, <1>7, <1>8, <1>9 DEF LinkStep, QuietStep

----------------------------------------------------------------------------
(* Theorems                                                                *)

LEMMA LinkInvInit == LinkInit => LinkInv
  <1> SUFFICES ASSUME LinkInit PROVE LinkInv
    OBVIOUS
  <1>0. /\ Init
        /\ plugin = [pc |-> "top", paired |-> FALSE, session |-> None, sequence |-> 0,
               pending |-> None, awaiting |-> None, events |-> <<>>, results |-> {}, todo |-> {},
               cache |-> <<>>, nextEvent |-> 1]
        /\ inbox = {} /\ reply = NoReply /\ honoured = FALSE /\ restarts = 0
        /\ executions = [c \in Commands |-> 0] /\ since = [c \in Commands |-> {}]
        /\ ingested = <<>> /\ taken = None
    BY DEF LinkInit
  <1>1. BridgeInv
    BY <1>0, TypeInit, IndexInit, WorkInit DEF BridgeInv
  <1>2. /\ plugin.pc = "top" /\ plugin.session = None /\ plugin.sequence = 0 /\ plugin.pending = None
        /\ plugin.events = <<>> /\ plugin.results = {} /\ plugin.todo = {} /\ plugin.cache = <<>>
        /\ plugin.nextEvent = 1
        /\ reply.status = 0 /\ reply.session = None /\ reply.commands = {}
    BY <1>0 DEF NoReply, Response
  <1>3. live = {} /\ \A c \in Commands : call[c] = "new"
    BY <1>0 DEF Init
  <1>4. DOMAIN <<>> = {} /\ ToSet(<<>>) = {} /\ Len(<<>>) = 0
    BY EmptySeq DEF ToSet
  <1>5. Sent = {} /\ Used = {} /\ Ran = {} /\ ~Acknowledged /\ ~Executing
    <2>1. Ran = {}
      BY <1>0 DEF Ran
    <2>2. Sent = {}
      BY <1>0, <1>2 DEF Sent
    <2> QED BY <1>2, <2>1, <2>2 DEF Used, Acknowledged, Executing
  <1>6. LinkTypeOK
    <2>1. plugin \in Plugins
      <3>1. EventBound \in Nat /\ SequenceBound \in Nat
        BY LimitsAssumption
      <3>2. 0 \in 0..SequenceBound /\ 1 \in 1..(EventBound + 1)
        BY <3>1
      <3>3. <<>> \in Seq(1..EventBound) /\ <<>> \in Seq(Commands)
        BY EmptySeq
      <3> QED BY <1>0, <3>2, <3>3 DEF Plugins
    <2>2. reply \in Replies
      BY <1>0, ResponseType DEF NoReply
    <2>3. restarts \in 0..RestartBound /\ Len(plugin.events) <= MaxQueuedEvents
          /\ Len(plugin.cache) <= MaxCachedResults
      BY <1>0, <1>2, <1>4, LinkAssumption
    <2>4. ingested \in Seq(1..EventBound)
      BY <1>0, EmptySeq
    <2> QED BY <1>0, <1>1, <2>1, <2>2, <2>3, <2>4 DEF LinkTypeOK, BridgeInv
  <1>7. ShapeInv
    BY <1>0, <1>2, <1>5 DEF ShapeInv
  <1>8. UsedInv /\ SequenceInv /\ CoverInv /\ JointInv /\ VainInv /\ QuietInv
    BY <1>2, <1>3, <1>5 DEF UsedInv, SequenceInv, CoverInv, JointInv, VainInv, QuietInv, Mine
  <1>9. EventInv /\ TakenInv
    BY <1>0, <1>2, <1>4, <1>5 DEF EventInv, TakenInv, Numbered, Increasing, Below
  <1>10. ExecutionInv /\ CacheInv
    BY <1>0, <1>2, <1>3, <1>4, <1>5 DEF ExecutionInv, CacheInv, AnsweredWasExecuted
  <1> QED BY <1>1, <1>6, <1>7, <1>8, <1>9, <1>10 DEF LinkInv

LEMMA LinkInvStep == LinkInv /\ [LinkNext]_allVars => LinkInv'
  <1> SUFFICES ASSUME LinkInv, [LinkNext]_allVars PROVE LinkInv'
    OBVIOUS
  <1>1. BridgeInv' /\ LinkStep
    BY StepKinds DEF LinkStep, QuietStep
  <1>2. TypeOK' /\ LinkTypeOK /\ ShapeInv
    BY <1>1 DEF BridgeInv, LinkInv
  <1>3. LinkTypeOK' /\ ShapeInv'
    BY <1>2, LinkTypeStep, ShapeStep
  <1>4. UsedInv' /\ SequenceInv' /\ EventInv' /\ TakenInv'
    BY <1>1, <1>3, UsedStep, SequenceStep, EventInvStep, TakenInvStep DEF LinkStep
  <1>5. ExecutionInv' /\ QuietInv' /\ CoverInv' /\ JointInv' /\ VainInv'
    BY <1>1, <1>3, ExecutionStep, QuietInvStep, CoverStep, JointStep, VainStep
  <1>6. CacheInv'
    BY <1>1, <1>3, CacheInvStep DEF LinkStep, QuietStep, SameRuns
  <1> QED BY <1>1, <1>3, <1>4, <1>5, <1>6 DEF LinkInv

\* The conjunction of the parts is inductive for the plugin, the network and
\* the broker together.
THEOREM LinkInvariant == LinkSpec => []LinkInv
  BY LinkInvInit, LinkInvStep, PTL DEF LinkSpec

\* The controller, the network and the daemon keep their types in every
\* interleaving, and the controller's two queues their bounds.
THEOREM LinkTypeCorrect == LinkSpec => []LinkTypeOK
  <1>1. LinkInv => LinkTypeOK
    BY DEF LinkInv
  <1> QED BY LinkInvariant, <1>1, PTL

\* The plugin never falls behind the session the broker keeps for it: the
\* report it would send next is not refused as out of order, and whatever the
\* broker answers without reading it is the report it took last.
THEOREM SequencesCorrect == LinkSpec => []SequencesAgree
  <1>1. LinkInv => SequencesAgree
    <2> SUFFICES ASSUME LinkInv, NEW s \in live, record[s].external = Self
                 PROVE  /\ record[s].lastSequence <= plugin.sequence
                        /\ PendingIn(s) => plugin.pending.sequence >= record[s].lastSequence
                        /\ \A m \in Sent : m.session = s /\ m.sequence = record[s].lastSequence =>
                             m = taken
      BY DEF SequencesAgree, Sent
    <2>1. s \in SessionIds /\ record[s].lastSequence \in Nat \cup {NoReport}
      BY DEF LinkInv, BridgeInv, TypeOK, SessionRecords
    <2>2. plugin.sequence \in 0..SequenceBound /\ SequenceBound \in Nat
      BY LimitsAssumption DEF LinkInv, LinkTypeOK, Plugins
    <2>3. record[s].lastSequence <= plugin.sequence
      BY <2>1 DEF LinkInv, SequenceInv, Mine
    <2>4. PendingIn(s) => plugin.pending.sequence = plugin.sequence
      BY DEF LinkInv, ShapeInv, PendingIn
    <2>5. \A m \in Sent : m.session = s /\ m.sequence = record[s].lastSequence => m = taken
      BY DEF LinkInv, TakenInv
    <2> QED BY <2>1, <2>2, <2>3, <2>4, <2>5 DEF NoReport
  <1> QED BY LinkInvariant, <1>1, PTL

\* The broker ingests the plugin's events at most once and in order, whatever
\* is lost, delayed, duplicated, re-registered or restarted.
THEOREM IngestedInOrder == LinkSpec => []IngestedOnceInOrder
  <1>1. LinkInv => IngestedOnceInOrder
    BY DEF LinkInv, EventInv, Numbered, Increasing, IngestedOnceInOrder
  <1> QED BY LinkInvariant, <1>1, PTL

\* A call is answered only if its command was executed in Studio; and a
\* command is executed a second time only after a cache full of other
\* commands whose results, like its own, have reached nobody.
THEOREM ExecutionCorrect == LinkSpec => ExecutedExactly
  <1>1. LinkInv => AnsweredWasExecuted
    BY DEF LinkInv, ExecutionInv
  <1>2. ASSUME LinkInv, [LinkNext]_allVars, NEW c \in Commands,
               executions[c] >= 1, executions'[c] # executions[c]
        PROVE  /\ Cardinality(since[c]) >= MaxCachedResults
               /\ \A d \in since[c] : call[d] # "answered"
    <2>0. LinkTypeOK /\ executions \in [Commands -> Nat]
      BY <1>2 DEF LinkInv, LinkTypeOK
    <2>1. \/ SameRuns
          \/ \E x \in Commands : ExecuteStep(x) /\ x \notin ToSet(plugin.cache)
      BY <1>2, StepKinds DEF SameRuns
    <2>2. ~SameRuns
      BY <1>2, SameRunsSame DEF SameExecutions
    <2>3. PICK x \in Commands : ExecuteStep(x) /\ x \notin ToSet(plugin.cache)
      BY <2>1, <2>2
    <2>4. x = c /\ c \in plugin.todo
      BY <1>2, <2>0, <2>3 DEF ExecuteStep
    <2>5. c \in Ran \ ToSet(plugin.cache)
      BY <1>2, <2>3, <2>4 DEF Ran
    <2> QED BY <1>2, <2>4, <2>5 DEF LinkInv, CacheInv, VainInv, InVain
  <1>3. LinkInv /\ [LinkNext]_allVars =>
          [\A c \in Commands : executions[c] >= 1 /\ executions'[c] # executions[c] =>
             /\ Cardinality(since[c]) >= MaxCachedResults
             /\ \A d \in since[c] : call[d] # "answered"]_allVars
    BY <1>2
  <1> QED BY LinkInvariant, <1>1, <1>3, PTL DEF LinkSpec, ExecutedExactly, RepeatedOnlyInVain

----------------------------------------------------------------------------
(* The daemon of the link is the broker of StudioBridge                    *)

\* No session has ingested more events than the broker took from the plugin.
AcceptedInv == \A s \in SessionIds : record[s].accepted <= Len(ingested)

\* A session ingests only in a report; a new one or a forgotten one starts at 0.
KeptAccepted == \A s \in SessionIds : record'[s].accepted \in {0, record[s].accepted}

\* Event numbers that increase are no more than there are numbers.
LEMMA IncreasingLength ==
  ASSUME NEW q \in Seq(1..EventBound), Increasing(q)
  PROVE  Len(q) <= EventBound
  <1>1. EventBound \in Nat
    BY LimitsAssumption
  <1>2. q \in [1..Len(q) -> 1..EventBound] /\ Len(q) \in Nat
    BY SeqDef, LenProperties
  <1>3. ASSUME NEW i \in 1..Len(q), NEW j \in 1..Len(q), q[i] = q[j] PROVE i = j
    <2>1. q[i] \in Nat /\ q[j] \in Nat
      BY <1>2
    <2>2. ~(i < j) /\ ~(j < i)
      BY <1>2, <1>3, <2>1 DEF Increasing
    <2> QED BY <2>2
  <1>4. q \in Injection(1..Len(q), 1..EventBound)
    BY <1>2, <1>3 DEF Injection, IsInjective
  <1>5. IsFiniteSet(1..EventBound) /\ Cardinality(1..EventBound) = EventBound
        /\ Cardinality(1..Len(q)) = Len(q)
    <2>1. ASSUME NEW n \in Nat PROVE IsFiniteSet(1..n) /\ Cardinality(1..n) = n
      <3>1. /\ IsFiniteSet(1..n)
            /\ Cardinality(1..n) = IF 1 > n THEN 0 ELSE n - 1 + 1
        BY FS_Interval
      <3> QED BY <3>1
    <2> QED BY <1>1, <1>2, <2>1
  <1>6. Cardinality(1..Len(q)) <= Cardinality(1..EventBound)
    BY <1>4, <1>5, FS_Injection
  <1> QED BY <1>5, <1>6

\* Whoever registers, calls or waits.
LEMMA HostAccepted ==
  ASSUME TypeOK,
         \/ \E e \in Externals : OtherStudio(e)
         \/ Host
  PROVE  KeptAccepted
  <1>0. record \in [SessionIds -> SessionRecords] /\ EmptyRecord.accepted = 0
    BY DEF TypeOK, EmptyRecord
  <1>1. \A s \in SessionIds : AfterExpiry.record[s].accepted \in {0, record[s].accepted}
    BY <1>0 DEF AfterExpiry
  <1>2. AfterExpiry.record \in [SessionIds -> SessionRecords]
    BY AfterExpiryType DEF TypeOK
  <1>3. ASSUME NEW e \in Externals, OtherStudio(e) PROVE KeptAccepted
    <2>1. CASE RegisterKnown(e)
      BY <1>1, <1>2, <2>1 DEF RegisterKnown, Refreshed, KeptAccepted
    <2>2. ASSUME NEW s \in SessionIds, RegisterNew(e, s) PROVE KeptAccepted
      <3>1. record' = [AfterExpiry.record EXCEPT ![s] = [EmptyRecord EXCEPT !.external = e]]
        BY <2>2 DEF RegisterNew
      <3>2. [EmptyRecord EXCEPT !.external = e].accepted = 0
        BY DEF EmptyRecord
      <3> QED BY <1>1, <1>2, <3>1, <3>2 DEF KeptAccepted
    <2>3. CASE RegisterRefused(e)
      BY <1>1, <2>3 DEF RegisterRefused, KeptAccepted
    <2> QED BY <1>3, <2>1, <2>2, <2>3 DEF OtherStudio
  <1>4. ASSUME NEW c \in Commands, NEW s \in SessionIds, Call(c, s) PROVE KeptAccepted
    <2> DEFINE r == [record[s] EXCEPT !.queued = Append(@, c), !.responders = @ \cup {c},
                                      !.counts.queued = Len(record[s].queued) + 1]
    <2>1. record' = [record EXCEPT ![s] = r]
      BY <1>0, <1>4 DEF Call
    <2>2. r.accepted = record[s].accepted
      BY <1>0 DEF SessionRecords
    <2> HIDE DEF r
    <2> QED BY <1>0, <2>1, <2>2 DEF KeptAccepted
  <1>5. ASSUME NEW c \in Commands, RemoveCommand(c) PROVE KeptAccepted
    <2>1. CASE home[c] \in live /\ record' = [record EXCEPT ![home[c]] = Removed(@, c)]
      <3>1. \A s \in SessionIds : Removed(record[s], c).accepted = record[s].accepted
        BY <1>0 DEF Removed, SessionRecords
      <3> QED BY <1>0, <2>1, <3>1 DEF KeptAccepted
    <2> QED BY <1>5, <2>1 DEF RemoveCommand, KeptAccepted
  <1>6. ASSUME NEW s \in SessionIds,
               \/ \E b \in Bindings : BindSession(s, b)
               \/ SessionGoesQuiet(s)
        PROVE  KeptAccepted
    <2>1. ASSUME NEW b \in Bindings, BindSession(s, b) PROVE KeptAccepted
      <3>1. record' = [record EXCEPT ![s] = [record[s] EXCEPT !.binding = b, !.state = "Bound"]]
        BY <1>0, <2>1 DEF BindSession
      <3>2. [record[s] EXCEPT !.binding = b, !.state = "Bound"].accepted = record[s].accepted
        BY <1>0 DEF SessionRecords
      <3> QED BY <1>0, <3>1, <3>2 DEF KeptAccepted
    <2>2. ASSUME SessionGoesQuiet(s) PROVE KeptAccepted
      <3>1. record' = [record EXCEPT ![s] = [record[s] EXCEPT !.overdue = TRUE]]
        BY <1>0, <2>2 DEF SessionGoesQuiet
      <3>2. [record[s] EXCEPT !.overdue = TRUE].accepted = record[s].accepted
        BY <1>0 DEF SessionRecords
      <3> QED BY <1>0, <3>1, <3>2 DEF KeptAccepted
    <2> QED BY <1>6, <2>1, <2>2
  <1>7. ASSUME NEW c \in Commands, CommandTimeout(c) \/ CallerGone(c) PROVE KeptAccepted
    BY <1>7 DEF CommandTimeout, CallerGone, KeptAccepted
  <1> QED BY <1>3, <1>4, <1>5, <1>6, <1>7 DEF Host

\* A report the broker takes counts its events.
LEMMA ReportAccepted ==
  ASSUME TypeOK, NEW s \in SessionIds, NEW q, NEW results \in SUBSET Commands, NEW n \in Nat,
         Report(s, q, results, n)
  PROVE  /\ record'[s].accepted = record[s].accepted + n
         /\ \A x \in SessionIds \ {s} : record'[x] = record[x]
  <1>1. record \in [SessionIds -> SessionRecords]
    BY DEF TypeOK
  <1>2. Ingested(record[s], results, n).accepted = record[s].accepted + n
    BY <1>1 DEF Ingested, Refreshed, SessionRecords
  <1> DEFINE r == Ingested(record[s], results, n)
  <1>3. r \in SessionRecords
    BY <1>1, IngestedType
  <1> HIDE DEF r
  <1>4. PICK commands : record' = [record EXCEPT ![s] =
               [r EXCEPT !.lastSequence = q, !.counts = CountsOf(r),
                         !.lastResponse = [sequence |-> q, commands |-> commands,
                                           dropped |-> r.dropped, backend |-> backend]]]
    BY DEF Report, r
  <1>5. record'[s].accepted = r.accepted
    BY <1>1, <1>3, <1>4 DEF SessionRecords
  <1> QED BY <1>1, <1>2, <1>4, <1>5 DEF r

LEMMA AcceptedStep ==
  ASSUME LinkInv, AcceptedInv, [LinkNext]_allVars
  PROVE  AcceptedInv'
  <1>0. /\ TypeOK /\ LinkTypeOK
        /\ \A s \in SessionIds : record[s].accepted \in Nat /\ record'[s].accepted \in Nat
        /\ Len(ingested) \in Nat
    <2>1. TypeOK' /\ TypeOK /\ LinkTypeOK
      BY StepKinds DEF LinkInv, BridgeInv
    <2>2. record \in [SessionIds -> SessionRecords] /\ record' \in [SessionIds -> SessionRecords]
      BY <2>1 DEF TypeOK
    <2>3. \A r \in SessionRecords : r.accepted \in Nat
      BY DEF SessionRecords
    <2>4. ingested \in Seq(1..EventBound)
      BY <2>1 DEF LinkTypeOK
    <2> QED BY <2>1, <2>2, <2>3, <2>4, LenProperties
  <1>1. ASSUME KeptAccepted, ingested' = ingested PROVE AcceptedInv'
    BY <1>0, <1>1 DEF AcceptedInv, KeptAccepted
  <1>2. ASSUME UNCHANGED <<record, ingested>> PROVE AcceptedInv'
    BY <1>2 DEF AcceptedInv
  <1>3. CASE HandleRegister \/ HostStep
    <2>1. KeptAccepted
      BY <1>0, <1>3, HostAccepted, LinkAssumption DEF HandleRegister, HostStep, OtherStudio
    <2> QED BY <1>1, <1>3, <2>1 DEF HandleRegister, HostStep, linkVars
  <1>4. CASE Restart
    BY <1>1, <1>4 DEF Restart, KeptAccepted, EmptyRecord
  <1>5. ASSUME NEW m \in inbox, HandleReport(m) PROVE AcceptedInv'
    <2>1. m \in Reports
      BY <1>0, <1>5 DEF HandleReport, LinkTypeOK
    <2>2. m.session \in SessionIds /\ m.results \in SUBSET Commands /\ Len(m.events) \in Nat
          /\ m.events \in Seq(1..EventBound)
      BY <2>1 DEF Reports
    <2>3. CASE Report(m.session, m.sequence, m.results, Len(m.events))
               /\ ingested' = ingested \o m.events
      <3>1. /\ record'[m.session].accepted = record[m.session].accepted + Len(m.events)
            /\ \A x \in SessionIds \ {m.session} : record'[x] = record[x]
        BY <1>0, <2>2, <2>3, ReportAccepted
      <3>2. Len(ingested') = Len(ingested) + Len(m.events)
        BY <1>0, <2>2, <2>3, ConcatProperties DEF LinkTypeOK
      <3>3. \A x \in SessionIds : record[x].accepted \in Nat /\ record[x].accepted <= Len(ingested)
        BY <1>0 DEF AcceptedInv
      <3>4. ASSUME NEW x \in SessionIds PROVE record'[x].accepted <= Len(ingested')
        <4>1. CASE x = m.session
          BY <1>0, <2>2, <3>1, <3>2, <3>3, <4>1
        <4>2. CASE x # m.session
          <5>1. record'[x] = record[x]
            BY <3>1, <4>2
          <5> QED BY <1>0, <2>2, <3>2, <3>3, <5>1
        <4> QED BY <4>1, <4>2
      <3> QED BY <3>4 DEF AcceptedInv
    <2>4. CASE ReportReplay(m.session) /\ UNCHANGED ingested
      BY <1>2, <2>4 DEF ReportReplay
    <2> QED BY <1>5, <2>3, <2>4 DEF HandleReport
  <1>6. CASE \/ PluginStep \/ Retry \/ StudioEvent \/ RequestFails \/ TokenForgotten
             \/ \E m \in inbox : HandleUnauthorized(m) \/ HandleRefused(m)
             \/ UNCHANGED allVars
    <2>1. UNCHANGED <<record, ingested>>
      BY <1>6 DEF PluginStep, Pair, SendRegister, ReceiveRegistration, SendReport,
                  ReceiveReportResponse, ExecuteCommand, Retry, StudioEvent, RequestFails,
                  TokenForgotten, HandleUnauthorized, HandleRefused, vars, allVars, linkVars
    <2> QED BY <1>2, <2>1
  <1> QED BY <1>3, <1>4, <1>5, <1>6 DEF LinkNext

\* A step of the link that is not a restart is a step of the broker, or leaves
\* it alone: what this plugin sends is what StudioBridge lets a plugin send.
LEMMA BrokerStep ==
  ASSUME LinkInv, AcceptedInv, [LinkNext]_allVars, ~Restart
  PROVE  [Next]_vars
  <1>0. TypeOK /\ LinkTypeOK /\ ExecutionInv
    BY DEF LinkInv, BridgeInv
  <1>1. CASE HandleRegister
    BY <1>1, LinkAssumption DEF HandleRegister, Next
  <1>2. CASE HostStep
    BY <1>2 DEF HostStep, Host, OtherStudio, Next
  <1>3. ASSUME NEW m \in inbox, HandleReport(m) PROVE [Next]_vars
    <2>1. m \in Reports /\ m \in Sent
      BY <1>0, <1>3, SentType DEF HandleReport
    <2>2. /\ m.session \in SessionIds /\ m.sequence \in 1..SequenceBound
          /\ m.results \subseteq delivered /\ Len(m.events) \in Nat
          /\ m.events \in Seq(1..EventBound)
      BY <1>0, <2>1 DEF Reports, ExecutionInv
    <2>3. CASE Report(m.session, m.sequence, m.results, Len(m.events))
               /\ ingested' = ingested \o m.events
      <3>1. LinkInv' /\ AcceptedInv'
        BY LinkInvStep, AcceptedStep
      <3>2. Len(ingested') <= EventBound
        BY <3>1, IncreasingLength DEF LinkInv, LinkTypeOK, EventInv, Numbered
      <3>3. record'[m.session].accepted = record[m.session].accepted + Len(m.events)
        BY <1>0, <2>2, <2>3, ReportAccepted DEF TypeOK
      <3>4. record'[m.session].accepted <= Len(ingested')
        BY <2>2, <3>1 DEF AcceptedInv
      <3>5. record[m.session].accepted \in Nat /\ Len(ingested') \in Nat
            /\ EventBound \in Nat /\ SequenceBound \in Nat /\ MaxEventsPerReport \in Nat
        <4>1. ingested' \in Seq(1..EventBound)
          BY <3>1 DEF LinkInv, LinkTypeOK
        <4> QED BY <1>0, <2>2, <4>1, LimitsAssumption DEF TypeOK, SessionRecords
      <3>6. record[m.session].accepted + Len(m.events) <= EventBound
        BY <2>2, <3>2, <3>3, <3>4, <3>5
      <3>7. Len(m.events) \in 0..MaxEventsPerReport /\ m.sequence \in 0..SequenceBound
        BY <2>2, <2>3, <3>5 DEF Report
      <3>8. PluginReports
        BY <2>2, <2>3, <3>6, <3>7 DEF PluginReports
      <3> QED BY <3>8 DEF Next
    <2>4. CASE ReportReplay(m.session)
      BY <2>2, <2>4 DEF Next
    <2> QED BY <1>3, <2>3, <2>4 DEF HandleReport
  <1>4. CASE \/ PluginStep \/ Retry \/ StudioEvent \/ RequestFails \/ TokenForgotten
             \/ \E m \in inbox : HandleUnauthorized(m) \/ HandleRefused(m)
             \/ UNCHANGED allVars
    <2>1. UNCHANGED vars
      BY <1>4 DEF PluginStep, Pair, SendRegister, ReceiveRegistration, SendReport,
                  ReceiveReportResponse, ExecuteCommand, Retry, StudioEvent, RequestFails,
                  TokenForgotten, HandleUnauthorized, HandleRefused, allVars
    <2> QED BY <2>1
  <1> QED BY <1>1, <1>2, <1>3, <1>4 DEF LinkNext

----------------------------------------------------------------------------
(* What follows for the daemon of the link                                 *)

BrokerPart == AcceptedInv /\ AccountInv /\ RoomInv /\ AnswersComeFromHome /\ HomeInv

LEMMA BrokerPartInit == LinkInit => BrokerPart
  <1> SUFFICES ASSUME LinkInit PROVE BrokerPart
    OBVIOUS
  <1>1. Init /\ ingested = <<>>
    BY DEF LinkInit
  <1>2. AcceptedInv
    BY <1>1, EmptySeq DEF Init, EmptyRecord, AcceptedInv
  <1>3. AccountInv /\ AnswersComeFromHome /\ HomeInv
    BY <1>1, EmptyAccounted DEF Init, AccountInv, AnswersComeFromHome, HomeInv
  <1> QED BY <1>1, <1>2, <1>3, RoomInit DEF BrokerPart

LEMMA BrokerPartStep == LinkInv /\ BrokerPart /\ [LinkNext]_allVars => BrokerPart'
  <1> SUFFICES ASSUME LinkInv, BrokerPart, [LinkNext]_allVars PROVE BrokerPart'
    OBVIOUS
  <1>0. TypeOK /\ WorkInv
    BY DEF LinkInv, BridgeInv
  <1>1. AcceptedInv'
    BY AcceptedStep DEF BrokerPart
  <1>2. CASE Restart
    <2>1. /\ live' = {} /\ record' = [s \in SessionIds |-> EmptyRecord]
          /\ call' = [c \in Commands |-> IF call[c] \in {"waiting", "timedOut", "closed"}
                                         THEN "abandoned" ELSE call[c]]
          /\ UNCHANGED <<home, answeredBy>>
      BY <1>2 DEF Restart
    <2>2. AccountInv'
      BY <2>1, EmptyAccounted DEF AccountInv
    <2>3. RoomInv'
      <3>1. Cardinality({}) = 0 /\ Len(EmptyRecord.events) = 0
        BY FS_EmptySet, EmptySeq DEF EmptyRecord
      <3> QED BY <2>1, <3>1, LimitsAssumption DEF RoomInv
    <2>4. \A c \in Commands : /\ call'[c] = "answered" <=> call[c] = "answered"
                              /\ call'[c] = "new" <=> call[c] = "new"
      BY <2>1
    <2>5. AnswersComeFromHome' /\ HomeInv'
      BY <2>1, <2>4 DEF BrokerPart, AnswersComeFromHome, HomeInv
    <2> QED BY <1>1, <2>2, <2>3, <2>5 DEF BrokerPart
  <1>3. CASE ~Restart
    <2>1. [Next]_vars
      BY <1>3, BrokerStep DEF BrokerPart
    <2> QED BY <1>0, <1>1, <2>1, AccountStep, RoomStep, AnswersStep, HomeStep DEF BrokerPart
  <1> QED BY <1>2, <1>3

LEMMA RestartCounted ==
  ASSUME LinkTypeOK, restarts' = restarts
  PROVE  ~Restart
  <1>1. restarts \in Nat
    BY LinkAssumption DEF LinkTypeOK
  <1> QED BY <1>1 DEF Restart

\* A restart is a crash of the contract.
LEMMA RestartCrashes ==
  ASSUME TypeOK, HomeInv, Restart
  PROVE  Contract!Crash
  <1>1. /\ record' = [s \in SessionIds |-> EmptyRecord]
        /\ call' = [c \in Commands |-> IF call[c] \in {"waiting", "timedOut", "closed"}
                                       THEN "abandoned" ELSE call[c]]
        /\ home' = home /\ call \in [Commands -> Phases]
    BY DEF Restart, TypeOK
  <1>2. ToSet(EmptyRecord.queued) = {} /\ EmptyRecord.inFlight = {}
    BY EmptySeq DEF EmptyRecord, ToSet
  <1>3. ASSUME NEW c \in Commands
        PROVE  /\ StageOf(c)' = IF StageOf(c) \in {"queued", "leased"} THEN "out" ELSE StageOf(c)
               /\ VerdictOf(c)' = IF StageOf(c) # "new" /\ VerdictOf(c) = "none"
                                  THEN "abandoned" ELSE VerdictOf(c)
    <2>1. CASE call[c] = "new"
      BY <1>1, <2>1 DEF StageOf, VerdictOf
    <2>2. CASE call[c] # "new"
      <3>1. record'[home'[c]] = EmptyRecord /\ call'[c] # "new"
        BY <1>1, <2>2 DEF HomeInv
      <3>2. StageOf(c)' = "out"
        BY <1>2, <3>1 DEF StageOf, Queued
      <3>3. StageOf(c) \in {"queued", "leased", "out"}
        BY <2>2 DEF StageOf
      <3>4. call[c] \in Phases /\ call'[c] = IF call[c] \in {"waiting", "timedOut", "closed"}
                                             THEN "abandoned" ELSE call[c]
        BY <1>1
      <3>5. VerdictOf(c)' = IF VerdictOf(c) = "none" THEN "abandoned" ELSE VerdictOf(c)
        BY <2>2, <3>4 DEF VerdictOf, Phases
      <3> QED BY <3>2, <3>3, <3>5
    <2> QED BY <2>1, <2>2
  <1>4. StageNow' = [c \in Commands |-> IF StageNow[c] \in {"queued", "leased"} THEN "out"
                                        ELSE StageNow[c]]
    BY <1>3 DEF StageNow
  <1>5. VerdictNow' = [c \in Commands |-> IF StageNow[c] # "new" /\ VerdictNow[c] = "none"
                                          THEN "abandoned" ELSE VerdictNow[c]]
    BY <1>3 DEF StageNow, VerdictNow
  <1> QED BY <1>4, <1>5
          DEF Contract!Crash, Contract!Moved, Contract!Held, StageNow, VerdictNow, StageOf, VerdictOf

\* The daemon of a real plugin is an instance of the broker whose plugins
\* StudioBridge leaves open: between restarts it takes only the steps proved
\* correct there.
THEOREM LinkIsBroker == LinkSpec => ActsAsBroker
  <1>1. LinkInv /\ BrokerPart /\ [LinkNext]_allVars => [restarts' = restarts => [Next]_vars]_allVars
    BY BrokerStep, RestartCounted DEF LinkInv, BrokerPart
  <1> QED BY <1>1, LinkInvariant, BrokerPartInit, BrokerPartStep, PTL DEF LinkSpec, ActsAsBroker

\* What the broker promises whatever its plugins send, it promises here too,
\* also over restarts of the daemon: commands are conserved, a lost answer can
\* be repeated, the session index is consistent, answers come from the session
\* that was called, unbound sessions hold nothing, limits are respected, and
\* counts and event rings add up.
THEOREM BrokerWithinLink ==
  LinkSpec => [](/\ LeaseConservation /\ ReplayRecoversLeases /\ SessionIndexConsistent
                 /\ UnboundHoldsNothing /\ AnswersComeFromHome /\ LimitsRespected
                 /\ SnapshotCountsExact /\ EventRingAccounting)
  <1>1. LinkInv => /\ LeaseConservation /\ ReplayRecoversLeases /\ SessionIndexConsistent
                   /\ UnboundHoldsNothing
    BY DEF LinkInv, BridgeInv, IndexInv, WorkInv, WorkOK, LeaseConservation, ReplayRecoversLeases,
           UnboundHoldsNothing, Held, Queued
  <1>2. LinkInv /\ BrokerPart => AnswersComeFromHome /\ LimitsRespected
    BY DEF LinkInv, BridgeInv, WorkInv, WorkOK, RoomInv, BrokerPart, LimitsRespected
  <1>3. LinkInv /\ BrokerPart => SnapshotCountsExact /\ EventRingAccounting
    BY AccountedExactly DEF LinkInv, BridgeInv, BrokerPart
  <1> QED BY <1>1, <1>2, <1>3, LinkInvariant, BrokerPartInit, BrokerPartStep, PTL DEF LinkSpec

\* And its callers are promised what CommandLeases promises, for every number
\* of restarts.
THEOREM LinkImplementsContract == LinkSpec => LinkImplementsCommandLeases
  <1>1. LinkInit => Contract!Init
    BY RefinementInit DEF LinkInit
  <1>2. LinkInv /\ BrokerPart /\ [LinkNext]_allVars =>
          Contract!Next \/ Contract!Crash \/ UNCHANGED MappedVars
    <2> SUFFICES ASSUME LinkInv, BrokerPart, [LinkNext]_allVars
                 PROVE  Contract!Next \/ Contract!Crash \/ UNCHANGED MappedVars
      OBVIOUS
    <2>1. BridgeInv /\ TypeOK /\ HomeInv /\ AcceptedInv
      BY DEF LinkInv, BridgeInv, BrokerPart
    <2>2. Restart => Contract!Crash
      BY <2>1, RestartCrashes
    <2>3. ~Restart => [Next]_vars
      BY <2>1, BrokerStep
    <2> QED BY <2>1, <2>2, <2>3, RefinementStep
  <1>3. UNCHANGED MappedVars <=> UNCHANGED <<StageNow, VerdictNow>>
    BY DEF MappedVars
  <1> QED BY <1>1, <1>2, <1>3, LinkInvariant, BrokerPartInit, BrokerPartStep, PTL
          DEF LinkSpec, LinkImplementsCommandLeases, Contract!RestartableSpec, StageNow, VerdictNow,
              StageOf, VerdictOf

=============================================================================
