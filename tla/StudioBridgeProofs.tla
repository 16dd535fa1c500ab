------------------------- MODULE StudioBridgeProofs -------------------------
(***************************************************************************)
(* Proofs about StudioBridge for every value of its constants.             *)
(***************************************************************************)
EXTENDS StudioBridge, FiniteSetTheorems, SequenceTheorems, TLAPS

----------------------------------------------------------------------------
(* Lemmas about the operators of StudioBridge                              *)

LEMMA LeastType ==
  ASSUME NEW a \in Nat, NEW b \in Nat
  PROVE  Least(a, b) \in Nat /\ Least(a, b) <= a /\ Least(a, b) <= b
  BY DEF Least

LEMMA MonusType ==
  ASSUME NEW a \in Nat, NEW b \in Nat
  PROVE  Monus(a, b) \in Nat /\ Monus(a, b) <= a
  BY DEF Monus

\* What taking the first n elements off a queue leaves.
LEMMA DropFirstProperties ==
  ASSUME NEW S, NEW q \in Seq(S), NEW n \in 0..Len(q)
  PROVE  /\ DropFirst(q, n) \in Seq(S)
         /\ Len(DropFirst(q, n)) = Len(q) - n
         /\ \A i \in 1..(Len(q) - n) : DropFirst(q, n)[i] = q[n + i]
  <1>1. Len(q) \in Nat /\ \A i \in 1..Len(q) : q[i] \in S
    BY LenProperties, ElementOfSeq
  <1>2. n + 1 \in Int /\ Len(q) \in Int /\ \A i \in (n + 1)..Len(q) : q[i] \in S
    BY <1>1
  <1>3. /\ SubSeq(q, n + 1, Len(q)) \in Seq(S)
        /\ Len(SubSeq(q, n + 1, Len(q))) =
             IF n + 1 <= Len(q) THEN Len(q) - (n + 1) + 1 ELSE 0
        /\ \A i \in 1..(Len(q) - (n + 1) + 1) : SubSeq(q, n + 1, Len(q))[i] = q[(n + 1) + i - 1]
    BY <1>2, SubSeqProperties
  <1> QED BY <1>1, <1>3 DEF DropFirst

\* Removing a command that is queued closes the gap at one of its positions.
LEMMA WithoutShape ==
  ASSUME NEW S, NEW q \in Seq(S), NEW c, \E i \in DOMAIN q : q[i] = c
  PROVE  \E k \in 1..Len(q) :
           /\ q[k] = c
           /\ Without(q, c) \in Seq(S)
           /\ Len(Without(q, c)) = Len(q) - 1
           /\ \A i \in 1..(Len(q) - 1) : Without(q, c)[i] = IF i <= k - 1 THEN q[i] ELSE q[i + 1]
  <1> DEFINE k == CHOOSE i \in DOMAIN q : q[i] = c
             left == SubSeq(q, 1, k - 1)
             right == SubSeq(q, k + 1, Len(q))
             w == left \o right
  <1>0. Len(q) \in Nat /\ DOMAIN q = 1..Len(q) /\ \A i \in 1..Len(q) : q[i] \in S
    BY LenProperties, ElementOfSeq
  <1>1. k \in 1..Len(q) /\ q[k] = c
    BY <1>0
  <1>2. Without(q, c) = w
    BY DEF Without, RemoveAt
  <1> HIDE DEF k
  <1>3. left \in Seq(S) /\ Len(left) = k - 1 /\ \A i \in 1..(k - 1) : left[i] = q[i]
    <2>1. 1 \in Int /\ k - 1 \in Int /\ \A i \in 1..(k - 1) : q[i] \in S
      BY <1>0, <1>1
    <2>2. /\ left \in Seq(S)
          /\ Len(left) = IF 1 <= k - 1 THEN (k - 1) - 1 + 1 ELSE 0
          /\ \A i \in 1..((k - 1) - 1 + 1) : left[i] = q[1 + i - 1]
      BY <2>1, SubSeqProperties
    <2> HIDE DEF left
    <2> QED BY <1>0, <1>1, <2>2
  <1>4. right \in Seq(S) /\ Len(right) = Len(q) - k /\ \A i \in 1..(Len(q) - k) : right[i] = q[k + i]
    <2>1. k \in 0..Len(q)
      BY <1>0, <1>1
    <2>2. right = DropFirst(q, k)
      BY DEF DropFirst
    <2> QED BY <2>1, <2>2, DropFirstProperties
  <1> HIDE DEF left, right
  <1>5. /\ w \in Seq(S)
        /\ Len(w) = Len(left) + Len(right)
        /\ \A i \in 1..(Len(left) + Len(right)) :
             w[i] = IF i <= Len(left) THEN left[i] ELSE right[i - Len(left)]
    BY <1>3, <1>4, ConcatProperties
  <1> HIDE DEF w
  <1>6. Len(w) = Len(q) - 1
    BY <1>0, <1>1, <1>3, <1>4, <1>5
  <1>7. ASSUME NEW i \in 1..(Len(q) - 1)
        PROVE  w[i] = IF i <= k - 1 THEN q[i] ELSE q[i + 1]
    <2>1. w[i] = IF i <= k - 1 THEN left[i] ELSE right[i - (k - 1)]
      BY <1>0, <1>1, <1>3, <1>4, <1>5
    <2>2. CASE i <= k - 1
      BY <1>0, <1>1, <1>3, <2>1, <2>2
    <2>3. CASE ~(i <= k - 1)
      <3>1. i - (k - 1) \in 1..(Len(q) - k) /\ k + (i - (k - 1)) = i + 1
        BY <1>0, <1>1, <2>3
      <3> QED BY <1>4, <2>1, <2>3, <3>1
    <2> QED BY <2>2, <2>3
  <1> QED BY <1>1, <1>2, <1>5, <1>6, <1>7

LEMMA WithoutType ==
  ASSUME NEW S, NEW q \in Seq(S), NEW c
  PROVE  Without(q, c) \in Seq(S) /\ Len(Without(q, c)) <= Len(q)
  <1>1. Len(q) \in Nat
    BY LenProperties
  <1>2. CASE \E i \in DOMAIN q : q[i] = c
    BY <1>1, <1>2, WithoutShape
  <1>3. CASE ~ \E i \in DOMAIN q : q[i] = c
    BY <1>1, <1>3 DEF Without
  <1> QED BY <1>2, <1>3

\* Removing a command that is queued at most once leaves exactly the others.
LEMMA WithoutProperties ==
  ASSUME NEW S, NEW q \in Seq(S), NEW c,
         \A i, j \in DOMAIN q : q[i] = q[j] => i = j
  PROVE  /\ ToSet(Without(q, c)) = ToSet(q) \ {c}
         /\ \A i, j \in DOMAIN Without(q, c) : Without(q, c)[i] = Without(q, c)[j] => i = j
  <1> DEFINE w == Without(q, c)
  <1>0. Len(q) \in Nat /\ DOMAIN q = 1..Len(q)
    BY LenProperties
  <1>1. CASE ~ \E i \in DOMAIN q : q[i] = c
    BY <1>0, <1>1 DEF Without, ToSet
  <1>2. CASE \E i \in DOMAIN q : q[i] = c
    <2>1. PICK k \in 1..Len(q) :
            /\ q[k] = c
            /\ w \in Seq(S)
            /\ Len(w) = Len(q) - 1
            /\ \A i \in 1..(Len(q) - 1) : w[i] = IF i <= k - 1 THEN q[i] ELSE q[i + 1]
      BY <1>2, WithoutShape
    <2> HIDE DEF w
    <2>2. DOMAIN w = 1..(Len(q) - 1)
      BY <2>1, LenProperties
    <2>3. ASSUME NEW x \in ToSet(w) PROVE x \in ToSet(q) \ {c}
      <3>1. PICK i \in 1..(Len(q) - 1) : x = w[i]
        BY <2>2, <2>3 DEF ToSet
      <3>2. PICK j \in 1..Len(q) : j # k /\ x = q[j]
        BY <1>0, <2>1, <3>1
      <3> QED BY <1>0, <2>1, <3>2 DEF ToSet
    <2>4. ASSUME NEW x \in ToSet(q) \ {c} PROVE x \in ToSet(w)
      <3>1. PICK j \in 1..Len(q) : x = q[j] /\ j # k
        BY <1>0, <2>1, <2>4 DEF ToSet
      <3>2. CASE j < k
        <4>1. j \in 1..(Len(q) - 1) /\ w[j] = x
          BY <1>0, <2>1, <3>1, <3>2
        <4> QED BY <2>2, <4>1 DEF ToSet
      <3>3. CASE j > k
        <4>1. j - 1 \in 1..(Len(q) - 1) /\ w[j - 1] = x
          BY <1>0, <2>1, <3>1, <3>3
        <4> QED BY <2>2, <4>1 DEF ToSet
      <3> QED BY <1>0, <2>1, <3>1, <3>2, <3>3
    <2>5. ASSUME NEW i \in DOMAIN w, NEW j \in DOMAIN w, w[i] = w[j] PROVE i = j
      <3> DEFINE up(m) == IF m <= k - 1 THEN m ELSE m + 1
      <3>1. \A m \in DOMAIN w : up(m) \in 1..Len(q) /\ w[m] = q[up(m)]
        BY <1>0, <2>1, <2>2
      <3>2. up(i) = up(j)
        BY <1>0, <2>5, <3>1
      <3> QED BY <1>0, <2>2, <3>2
    <2> QED BY <2>3, <2>4, <2>5 DEF w
  <1> QED BY <1>1, <1>2

\* A leased set is finite, because every set of commands is.
LEMMA CommandSets ==
  ASSUME NEW T \in SUBSET Commands
  PROVE  IsFiniteSet(T) /\ Cardinality(T) \in Nat
  BY LimitsAssumption, FS_Subset, FS_CardinalityType

----------------------------------------------------------------------------
(* Type correctness                                                        *)

LEMMA EmptyRecordType == EmptyRecord \in SessionRecords
  <1>1. NoResponse \in Responses
    BY DEF NoResponse, Responses, NoReport
  <1>2. <<>> \in Seq(Commands) /\ <<>> \in Seq(Nat)
    BY EmptySeq
  <1> QED BY <1>1, <1>2 DEF EmptyRecord, SessionRecords, Counts, NoReport

LEMMA RefreshedType ==
  ASSUME NEW r \in SessionRecords
  PROVE  /\ Refreshed(r) \in SessionRecords
         /\ Refreshed(r) = [r EXCEPT !.overdue = FALSE, !.state = Refreshed(r).state]
  BY DEF Refreshed, FreshState, SessionRecords

LEMMA AfterExpiryType ==
  ASSUME TypeOK
  PROVE  /\ AfterExpiry.live \subseteq SessionIds
         /\ AfterExpiry.record \in [SessionIds -> SessionRecords]
         /\ AfterExpiry.external \in [Externals -> SessionIds \cup {None}]
         /\ AfterExpiry.call \in [Commands -> Phases]
  BY EmptyRecordType DEF TypeOK, AfterExpiry, KeptExternals, Phases

LEMMA CountsOfType ==
  ASSUME NEW r \in SessionRecords
  PROVE  CountsOf(r) \in Counts
  <1>1. r.queued \in Seq(Commands) /\ r.inFlight \in SUBSET Commands /\ r.events \in Seq(Nat)
    BY DEF SessionRecords
  <1> QED BY <1>1, CommandSets, LenProperties DEF CountsOf, Counts

LEMMA IngestType ==
  ASSUME NEW r \in SessionRecords, NEW n \in Nat
  PROVE  /\ Ingest(r, n).events \in Seq(Nat)
         /\ Len(Ingest(r, n).events) <= MaxEvents
         /\ Ingest(r, n).dropped \in Nat
  <1> DEFINE new == [i \in 1..n |-> r.accepted + i]
             all == r.events \o new
             over == Monus(Len(all), MaxEvents)
  <1>1. r.events \in Seq(Nat) /\ r.accepted \in Nat /\ r.dropped \in Nat /\ MaxEvents \in Nat
    BY LimitsAssumption DEF SessionRecords
  <1>2. new \in Seq(Nat)
    BY <1>1
  <1>3. all \in Seq(Nat) /\ Len(all) \in Nat
    BY <1>1, <1>2, ConcatProperties, LenProperties
  <1> HIDE DEF all
  <1>4. over \in 0..Len(all) /\ Len(all) - over <= MaxEvents
    BY <1>1, <1>3 DEF Monus
  <1>5. DropFirst(all, over) \in Seq(Nat) /\ Len(DropFirst(all, over)) = Len(all) - over
    BY <1>3, <1>4, DropFirstProperties
  <1>6. Ingest(r, n) = [events |-> DropFirst(all, over), dropped |-> r.dropped + over]
    BY DEF Ingest, all
  <1> HIDE DEF over
  <1> QED BY <1>1, <1>3, <1>4, <1>5, <1>6

\* The commands a fresh report leases fit the response.
LEMMA LeaseCountType ==
  ASSUME NEW r \in SessionRecords, NEW results
  PROVE  /\ LeaseCount(r, results) \in 0..Len(r.queued)
         /\ LeaseCount(r, results) <=
              Monus(MaxCommandsPerReport, Cardinality(r.inFlight \ results))
  <1>1. /\ r.inFlight \ results \in SUBSET Commands
        /\ r.queued \in Seq(Commands)
        /\ MaxCommandsPerReport \in Nat
    BY LimitsAssumption DEF SessionRecords
  <1>2. Cardinality(r.inFlight \ results) \in Nat /\ Len(r.queued) \in Nat
    BY <1>1, CommandSets, LenProperties
  <1>3. Monus(MaxCommandsPerReport, Cardinality(r.inFlight \ results)) \in Nat
    BY <1>1, <1>2, MonusType
  <1> QED BY <1>2, <1>3 DEF LeaseCount, Least

LEMMA IngestedType ==
  ASSUME NEW r \in SessionRecords, NEW results, NEW n \in Nat
  PROVE  Ingested(r, results, n) \in SessionRecords
  <1> DEFINE k == LeaseCount(r, results)
             ring == Ingest(r, n)
  <1>1. r.queued \in Seq(Commands) /\ r.inFlight \in SUBSET Commands /\ r.accepted \in Nat
    BY DEF SessionRecords
  <1>2. k \in 0..Len(r.queued) /\ Len(r.queued) \in Nat
    BY <1>1, LeaseCountType, LenProperties
  <1>3. ring.events \in Seq(Nat) /\ ring.dropped \in Nat
    BY IngestType
  <1> HIDE DEF k, ring
  <1>4. DropFirst(r.queued, k) \in Seq(Commands)
    BY <1>1, <1>2, DropFirstProperties
  <1>5. {r.queued[i] : i \in 1..k} \subseteq Commands
    BY <1>1, <1>2, ElementOfSeq
  <1>6. r.accepted + n \in Nat
    BY <1>1
  <1>7. Refreshed(r) \in SessionRecords
    BY RefreshedType
  <1> QED BY <1>1, <1>3, <1>4, <1>5, <1>6, <1>7 DEF Ingested, SessionRecords, k, ring

LEMMA RemovedType ==
  ASSUME NEW r \in SessionRecords, NEW c \in Commands
  PROVE  Removed(r, c) \in SessionRecords
  <1>1. r.queued \in Seq(Commands) /\ r.inFlight \in SUBSET Commands
    BY DEF SessionRecords
  <1>2. Without(r.queued, c) \in Seq(Commands)
    BY <1>1, WithoutType
  <1>3. Len(Without(r.queued, c)) \in Nat /\ Cardinality(r.inFlight \ {c}) \in Nat
    BY <1>1, <1>2, LenProperties, CommandSets
  <1> QED BY <1>1, <1>2, <1>3 DEF Removed, SessionRecords, Counts

LEMMA CalledType ==
  ASSUME NEW r \in SessionRecords, NEW c \in Commands
  PROVE  [r EXCEPT !.queued = Append(@, c),
                   !.responders = @ \cup {c},
                   !.counts.queued = Len(r.queued) + 1] \in SessionRecords
  <1>1. /\ Append(r.queued, c) \in Seq(Commands)
        /\ Len(r.queued) + 1 \in Nat
    BY AppendProperties, LenProperties DEF SessionRecords
  <1> QED BY <1>1 DEF SessionRecords, Counts

LEMMA DrainedType ==
  ASSUME NEW r \in SessionRecords, NEW n \in 0..Len(r.events)
  PROVE  [r EXCEPT !.events = DropFirst(@, n), !.drained = @ + n,
                   !.counts.retained = Len(r.events) - n] \in SessionRecords
  <1>1. r.events \in Seq(Nat) /\ Len(r.events) \in Nat /\ r.drained \in Nat
    BY LenProperties DEF SessionRecords
  <1>2. DropFirst(r.events, n) \in Seq(Nat)
    BY <1>1, DropFirstProperties
  <1>3. n \in Nat /\ Len(r.events) - n \in Nat /\ r.drained + n \in Nat
    BY <1>1
  <1> QED BY <1>2, <1>3 DEF SessionRecords, Counts

\* The single-field updates of register, bind_session, the stale mark and the clock.
LEMMA UpdatedType ==
  ASSUME NEW r \in SessionRecords
  PROVE  /\ \A e \in Externals : [r EXCEPT !.external = e] \in SessionRecords
         /\ \A b \in Bindings : [r EXCEPT !.binding = b, !.state = "Bound"] \in SessionRecords
         /\ [r EXCEPT !.state = "Stale"] \in SessionRecords
         /\ [r EXCEPT !.overdue = TRUE] \in SessionRecords
  BY DEF SessionRecords

LEMMA TypeInit == Init => TypeOK
  BY EmptyRecordType DEF Init, TypeOK, Phases

\* A fresh report, whatever number it carries.
LEMMA ReportType ==
  ASSUME TypeOK, NEW s \in SessionIds, NEW q \in Nat, NEW results, NEW n \in Nat,
         Report(s, q, results, n)
  PROVE  TypeOK'
  <1> USE DEF TypeOK
  <1> DEFINE r == Ingested(record[s], results, n)
  <1>1. r \in SessionRecords
    BY IngestedType
  <1>2. PICK commands \in Leased(r) :
          /\ record' = [record EXCEPT ![s] =
               [r EXCEPT !.lastSequence = q,
                         !.counts = CountsOf(r),
                         !.lastResponse = [sequence |-> q, commands |-> commands,
                                           dropped |-> r.dropped, backend |-> backend]]]
          /\ delivered' = delivered \cup commands
    BY DEF Report
  <1> HIDE DEF r
  <1>3. CountsOf(r) \in Counts
    BY <1>1, CountsOfType
  <1>4. commands \in SUBSET Commands
    BY <1>1 DEF Leased, SessionRecords
  <1>5. [sequence |-> q, commands |-> commands, dropped |-> r.dropped, backend |-> backend]
          \in Responses
    BY <1>1, <1>4 DEF Responses, SessionRecords
  <1>6. record' \in [SessionIds -> SessionRecords]
    BY <1>1, <1>2, <1>3, <1>5 DEF SessionRecords
  <1>7. delivered' \subseteq Commands
    BY <1>2, <1>4
  <1> QED BY <1>6, <1>7 DEF Report, Phases

\* The type invariant over a step, action by action.
LEMMA TypeStep ==
  ASSUME TypeOK, [Next]_vars
  PROVE  TypeOK'
  <1> USE DEF TypeOK
  <1>1. ASSUME NEW e \in Externals, RegisterKnown(e) PROVE TypeOK'
    BY <1>1, AfterExpiryType, RefreshedType DEF RegisterKnown
  <1>2. ASSUME NEW e \in Externals, NEW s \in SessionIds, RegisterNew(e, s) PROVE TypeOK'
    <2>1. [EmptyRecord EXCEPT !.external = e] \in SessionRecords
      BY EmptyRecordType, UpdatedType
    <2> QED BY <1>2, <2>1, AfterExpiryType DEF RegisterNew
  <1>3. ASSUME NEW e \in Externals, RegisterRefused(e) PROVE TypeOK'
    BY <1>3, AfterExpiryType DEF RegisterRefused
  <1>4. ASSUME NEW s \in SessionIds, NEW b \in Bindings, BindSession(s, b) PROVE TypeOK'
    <2>1. [record[s] EXCEPT !.binding = b, !.state = "Bound"] \in SessionRecords
      BY UpdatedType
    <2> QED BY <1>4, <2>1 DEF BindSession
  <1>5. ASSUME ListSessions PROVE TypeOK'
    <2>1. \A s \in SessionIds : [record[s] EXCEPT !.state = "Stale"] \in SessionRecords
      BY UpdatedType
    <2> QED BY <1>5, <2>1 DEF ListSessions, MarkedStale
  <1>6. ASSUME NEW b \in Backends, SetBackendState(b) PROVE TypeOK'
    BY <1>6 DEF SetBackendState
  <1>7. ASSUME NEW s \in SessionIds, SessionGoesQuiet(s) PROVE TypeOK'
    <2>1. [record[s] EXCEPT !.overdue = TRUE] \in SessionRecords
      BY UpdatedType
    <2> QED BY <1>7, <2>1 DEF SessionGoesQuiet
  <1>9. ASSUME NEW s \in SessionIds, ReportReplay(s) PROVE TypeOK'
    <2>1. record[s].lastResponse.commands \subseteq Commands
      BY DEF SessionRecords, Responses
    <2> QED BY <1>9, <2>1 DEF ReportReplay
  <1>10. ASSUME NEW c \in Commands, NEW s \in SessionIds, Call(c, s) PROVE TypeOK'
    <2>2. [record[s] EXCEPT !.queued = Append(@, c),
                            !.responders = @ \cup {c},
                            !.counts.queued = Len(record[s].queued) + 1] \in SessionRecords
      BY CalledType
    <2> QED BY <1>10, <2>2 DEF Call, Phases
  <1>11. ASSUME NEW c \in Commands, CommandTimeout(c) PROVE TypeOK'
    BY <1>11 DEF CommandTimeout, Phases
  <1>12. ASSUME NEW c \in Commands, CallerGone(c) PROVE TypeOK'
    BY <1>12 DEF CallerGone, Phases
  <1>13. ASSUME NEW c \in Commands, RemoveCommand(c) PROVE TypeOK'
    BY <1>13, RemovedType DEF RemoveCommand, Phases
  <1>14. ASSUME NEW s \in SessionIds, NEW limit \in 1..MaxEvents, DrainEvents(s, limit)
         PROVE  TypeOK'
    <2> DEFINE n == Least(limit, Len(record[s].events))
    <2>1. record[s].events \in Seq(Nat) /\ Len(record[s].events) \in Nat /\ limit \in Nat
      BY LimitsAssumption, LenProperties DEF SessionRecords
    <2>2. n \in 0..Len(record[s].events)
      BY <2>1 DEF Least
    <2> HIDE DEF n
    <2>4. [record[s] EXCEPT !.events = DropFirst(@, n), !.drained = @ + n,
                            !.counts.retained = Len(record[s].events) - n] \in SessionRecords
      BY <2>2, DrainedType
    <2> QED BY <1>14, <2>4 DEF DrainEvents, n
  <1>15. CASE UNCHANGED vars
    BY <1>15 DEF vars
  <1> HIDE DEF TypeOK
  <1>16. SequenceBound \in Nat /\ MaxEventsPerReport \in Nat
    BY LimitsAssumption
  <1>17. CASE PluginReports
    BY <1>16, <1>17, ReportType DEF PluginReports
  <1> QED BY <1>1, <1>2, <1>3, <1>4, <1>5, <1>6, <1>7, <1>9, <1>10, <1>11, <1>12, <1>13, <1>14,
             <1>15, <1>17 DEF Next

\* The broker's state keeps its type, whatever the plugins and callers do.
THEOREM TypeCorrect == Spec => []TypeOK
  <1>1. TypeOK /\ [Next]_vars => TypeOK'
    BY TypeStep
  <1> QED BY TypeInit, <1>1, PTL DEF Spec

----------------------------------------------------------------------------
(* The session index                                                       *)

\* Session ids are never reused, and nothing is kept for a session that is
\* not registered.
IdsFresh ==
  /\ live \subseteq issued
  /\ \A s \in SessionIds \ live : record[s] = EmptyRecord

IndexInv == SessionIndexConsistent /\ IdsFresh

LEMMA IndexInit == Init => IndexInv
  BY DEF Init, IndexInv, IdsFresh, SessionIndexConsistent

\* What the expiry sweep does to the index.
LEMMA ExpiryIndex ==
  ASSUME TypeOK, IndexInv
  PROVE  /\ \A e \in Externals : AfterExpiry.external[e] # None =>
              /\ AfterExpiry.external[e] \in AfterExpiry.live
              /\ AfterExpiry.record[AfterExpiry.external[e]].external = e
         /\ \A s \in AfterExpiry.live :
              /\ AfterExpiry.record[s].external \in Externals
              /\ AfterExpiry.external[AfterExpiry.record[s].external] = s
         /\ AfterExpiry.live \subseteq live
         /\ \A s \in SessionIds \ AfterExpiry.live : AfterExpiry.record[s] = EmptyRecord
  BY DEF TypeOK, IndexInv, IdsFresh, SessionIndexConsistent, AfterExpiry, KeptExternals, Expired

\* An action that changes neither the index nor the identity of a record.
LEMMA IndexUntouched ==
  ASSUME TypeOK, TypeOK', IndexInv, UNCHANGED <<live, external, issued>>,
         \A s \in live : record'[s].external = record[s].external,
         \A s \in SessionIds \ live : record'[s] = record[s]
  PROVE  IndexInv'
  BY DEF TypeOK, IndexInv, IdsFresh, SessionIndexConsistent

\* What register leaves of the index, once the sweep and the entry it makes or
\* refreshes are taken together.
LEMMA IndexRebuilt ==
  ASSUME TypeOK', IdsFresh,
         \A e \in Externals : external'[e] # None =>
           external'[e] \in live' /\ record'[external'[e]].external = e,
         \A s \in live' : record'[s].external \in Externals /\ external'[record'[s].external] = s,
         live' \subseteq issued', \A s \in SessionIds \ live' : record'[s] = EmptyRecord
  PROVE  IndexInv'
  BY DEF IndexInv, IdsFresh, SessionIndexConsistent

\* Updates that keep the identity of a record.
LEMMA SameIdentity ==
  ASSUME NEW r \in SessionRecords
  PROVE  /\ [r EXCEPT !.state = "Stale"].external = r.external
         /\ \A c \in Commands : Removed(r, c).external = r.external
         /\ \A c \in Commands : [r EXCEPT !.queued = Append(@, c),
                                       !.responders = @ \cup {c},
                                       !.counts.queued = Len(r.queued) + 1].external = r.external
  BY DEF SessionRecords, Removed

LEMMA ReportIndex ==
  ASSUME TypeOK, TypeOK', IndexInv,
         NEW s \in SessionIds, NEW q \in Nat, NEW results, NEW n \in Nat,
         Report(s, q, results, n)
  PROVE  IndexInv'
  <1>1. Ingested(record[s], results, n).external = record[s].external
    BY DEF Ingested, Refreshed, TypeOK, SessionRecords
  <1>2. Ingested(record[s], results, n) \in SessionRecords
    BY IngestedType DEF TypeOK
  <1>3. /\ record'[s].external = record[s].external
        /\ \A x \in SessionIds \ {s} : record'[x] = record[x]
        /\ s \in live /\ UNCHANGED <<live, external, issued>>
    BY <1>1, <1>2 DEF Report, TypeOK, SessionRecords
  <1> QED BY <1>3, IndexUntouched DEF TypeOK

LEMMA IndexStep ==
  ASSUME TypeOK, TypeOK', IndexInv, [Next]_vars
  PROVE  IndexInv'
  <1> DEFINE kept == AfterExpiry
  <1>0. /\ kept.live \subseteq SessionIds
        /\ kept.record \in [SessionIds -> SessionRecords]
        /\ kept.external \in [Externals -> SessionIds \cup {None}]
        /\ kept.live \subseteq issued
    BY AfterExpiryType, ExpiryIndex DEF IndexInv, IdsFresh
  <1>1. ASSUME NEW e \in Externals, RegisterKnown(e) PROVE IndexInv'
    <2> DEFINE t == kept.external[e]
    <2>1. /\ live' = kept.live /\ external' = kept.external /\ issued' = issued
          /\ record' = [kept.record EXCEPT ![t] = Refreshed(@)]
          /\ t # None
      BY <1>1 DEF RegisterKnown
    <2>2. t \in kept.live
      BY <2>1, ExpiryIndex
    <2>3. Refreshed(kept.record[t]).external = kept.record[t].external
      BY <1>0, <2>2 DEF Refreshed, SessionRecords
    <2>4. \A s \in SessionIds : s # t => record'[s] = kept.record[s]
      BY <1>0, <2>1
    <2>5. record'[t].external = kept.record[t].external
      BY <1>0, <2>1, <2>2, <2>3
    <2>6. \A s \in kept.live : record'[s].external = kept.record[s].external
      BY <1>0, <2>4, <2>5
    <2> HIDE DEF kept, t
    <2>7. \A x \in Externals : kept.external[x] # None =>
            kept.external[x] \in kept.live /\ record'[kept.external[x]].external = x
      BY <2>6, ExpiryIndex DEF kept
    <2>8. \A s \in kept.live :
            record'[s].external \in Externals /\ kept.external[record'[s].external] = s
      BY <2>6, ExpiryIndex DEF kept
    <2>9. \A s \in SessionIds \ kept.live : record'[s] = EmptyRecord
      BY <2>2, <2>4, ExpiryIndex DEF kept
    <2> QED BY <1>0, <2>1, <2>7, <2>8, <2>9, IndexRebuilt DEF IndexInv
  <1>2. ASSUME NEW e \in Externals, NEW s \in SessionIds, RegisterNew(e, s) PROVE IndexInv'
    <2>1. /\ live' = kept.live \cup {s} /\ issued' = issued \cup {s} /\ s \notin issued
          /\ external' = [kept.external EXCEPT ![e] = s]
          /\ record' = [kept.record EXCEPT ![s] = [EmptyRecord EXCEPT !.external = e]]
          /\ kept.external[e] = None
      BY <1>2 DEF RegisterNew
    <2>2. s \notin kept.live
      BY <1>0, <2>1
    <2>3. /\ record'[s].external = e /\ external'[e] = s
          /\ \A x \in SessionIds : x # s => record'[x] = kept.record[x]
          /\ \A x \in Externals : x # e => external'[x] = kept.external[x]
      BY <1>0, <2>1 DEF EmptyRecord
    <2> HIDE DEF kept
    <2>4. \A x \in Externals : external'[x] # None =>
            external'[x] \in live' /\ record'[external'[x]].external = x
      BY <1>0, <2>1, <2>2, <2>3, ExpiryIndex DEF kept
    <2>5. \A x \in live' : record'[x].external \in Externals /\ external'[record'[x].external] = x
      <3>1. ASSUME NEW x \in kept.live
            PROVE  record'[x].external \in Externals /\ external'[record'[x].external] = x
        <4>1. /\ record'[x] = kept.record[x]
              /\ kept.record[x].external \in Externals
              /\ kept.external[kept.record[x].external] = x
          BY <1>0, <2>2, <2>3, <3>1, ExpiryIndex DEF kept
        <4>2. kept.record[x].external # e
          BY <1>0, <2>1, <4>1, NoneAssumption
        <4> QED BY <2>3, <4>1, <4>2
      <3> QED BY <2>1, <2>3, <3>1
    <2>6. \A x \in SessionIds \ live' : record'[x] = EmptyRecord
      BY <2>1, <2>3, ExpiryIndex DEF kept
    <2>7. live' \subseteq issued'
      BY <1>0, <2>1
    <2> QED BY <2>4, <2>5, <2>6, <2>7, IndexRebuilt DEF IndexInv
  <1>3. ASSUME NEW e \in Externals, RegisterRefused(e) PROVE IndexInv'
    <2>1. live' = kept.live /\ record' = kept.record /\ external' = kept.external /\ issued' = issued
      BY <1>3 DEF RegisterRefused
    <2> HIDE DEF kept
    <2> QED BY <1>0, <2>1, ExpiryIndex, IndexRebuilt DEF kept, IndexInv
  <1>4. ASSUME NEW s \in SessionIds, NEW b \in Bindings, BindSession(s, b) PROVE IndexInv'
    <2>1. /\ [record[s] EXCEPT !.binding = b, !.state = "Bound"].external = record[s].external
          /\ \A x \in SessionIds \ {s} : record'[x] = record[x]
          /\ record'[s] = [record[s] EXCEPT !.binding = b, !.state = "Bound"]
      BY <1>4 DEF BindSession, TypeOK, SessionRecords
    <2> QED BY <1>4, <2>1, IndexUntouched DEF BindSession, TypeOK
  <1>5. ASSUME ListSessions PROVE IndexInv'
    <2>1. \A s \in SessionIds : record[s] \in SessionRecords
      BY DEF TypeOK
    <2>2. /\ \A s \in live : record'[s].external = record[s].external
          /\ \A s \in SessionIds \ live : record'[s] = record[s]
      BY <1>5, <2>1, SameIdentity DEF ListSessions, MarkedStale, Expired, TypeOK
    <2> QED BY <1>5, <2>2, IndexUntouched DEF ListSessions
  <1>6. ASSUME NEW b \in Backends, SetBackendState(b) PROVE IndexInv'
    BY <1>6, IndexUntouched DEF SetBackendState
  <1>7. ASSUME NEW s \in SessionIds, SessionGoesQuiet(s) PROVE IndexInv'
    <2>1. /\ [record[s] EXCEPT !.overdue = TRUE].external = record[s].external
          /\ \A x \in SessionIds \ {s} : record'[x] = record[x]
          /\ record'[s] = [record[s] EXCEPT !.overdue = TRUE]
      BY <1>7 DEF SessionGoesQuiet, TypeOK, SessionRecords
    <2> QED BY <1>7, <2>1, IndexUntouched DEF SessionGoesQuiet, TypeOK
  <1>9. ASSUME NEW s \in SessionIds, ReportReplay(s) PROVE IndexInv'
    BY <1>9, IndexUntouched DEF ReportReplay
  <1>10. ASSUME NEW c \in Commands, NEW s \in SessionIds, Call(c, s) PROVE IndexInv'
    <2> DEFINE called == [record[s] EXCEPT !.queued = Append(@, c),
                                           !.responders = @ \cup {c},
                                           !.counts.queued = Len(record[s].queued) + 1]
    <2>1. record \in [SessionIds -> SessionRecords] /\ live \subseteq SessionIds
      BY DEF TypeOK
    <2>2. called.external = record[s].external
      BY <2>1, SameIdentity
    <2>3. s \in live /\ record' = [record EXCEPT ![s] = called]
      BY <1>10, <2>1 DEF Call
    <2> HIDE DEF called
    <2>4. /\ \A x \in live : record'[x].external = record[x].external
          /\ \A x \in SessionIds \ live : record'[x] = record[x]
      BY <2>1, <2>2, <2>3
    <2> QED BY <1>10, <2>4, IndexUntouched DEF Call
  <1>11. ASSUME NEW c \in Commands, CommandTimeout(c) PROVE IndexInv'
    BY <1>11, IndexUntouched DEF CommandTimeout
  <1>12. ASSUME NEW c \in Commands, CallerGone(c) PROVE IndexInv'
    BY <1>12, IndexUntouched DEF CallerGone
  <1>13. ASSUME NEW c \in Commands, RemoveCommand(c) PROVE IndexInv'
    <2>1. record \in [SessionIds -> SessionRecords] /\ live \subseteq SessionIds
      BY DEF TypeOK
    <2>2. \A s \in SessionIds : Removed(record[s], c).external = record[s].external
      BY <2>1, SameIdentity
    <2>3. /\ \A x \in live : record'[x].external = record[x].external
          /\ \A x \in SessionIds \ live : record'[x] = record[x]
      BY <1>13, <2>1, <2>2 DEF RemoveCommand
    <2> QED BY <1>13, <2>3, IndexUntouched DEF RemoveCommand
  <1>14. ASSUME NEW s \in SessionIds, NEW limit \in 1..MaxEvents, DrainEvents(s, limit)
         PROVE  IndexInv'
    BY <1>14, IndexUntouched DEF DrainEvents, TypeOK, SessionRecords
  <1>15. CASE UNCHANGED vars
    BY <1>15, IndexUntouched DEF vars
  <1>16. SequenceBound \in Nat /\ MaxEventsPerReport \in Nat
    BY LimitsAssumption
  <1>17. CASE PluginReports
    BY <1>16, <1>17, ReportIndex DEF PluginReports
  <1> QED BY <1>1, <1>2, <1>3, <1>4, <1>5, <1>6, <1>7, <1>9, <1>10, <1>11, <1>12, <1>13, <1>14,
             <1>15, <1>17 DEF Next

\* external_sessions and sessions never disagree: register cannot run into a
\* session that is indexed but gone, and no live session is orphaned.
THEOREM IndexCorrect == Spec => []SessionIndexConsistent
  <1>1. TypeOK /\ IndexInv /\ [Next]_vars => TypeOK' /\ IndexInv'
    BY TypeStep, IndexStep
  <1>2. IndexInv => SessionIndexConsistent
    BY DEF IndexInv
  <1> QED BY TypeInit, IndexInit, <1>1, <1>2, PTL DEF Spec

----------------------------------------------------------------------------
(* Commands and leases                                                     *)

\* What one session's record satisfies by itself.
WorkOK(r) ==
  /\ \A i, j \in DOMAIN r.queued : r.queued[i] = r.queued[j] => i = j
  /\ ToSet(r.queued) \cap r.inFlight = {}
  /\ r.responders = ToSet(r.queued) \cup r.inFlight
  /\ r.inFlight \subseteq r.lastResponse.commands
  /\ r.lastResponse.sequence = r.lastSequence
  /\ r.binding = None => r.responders = {}
  /\ Cardinality(r.inFlight) <= MaxCommandsPerReport
  /\ Len(r.queued) + Cardinality(r.inFlight) <= MaxPending

\* The inductive invariant. What a plugin has been sent is never queued, so
\* that a result can only settle a lease; and only a call that may still come
\* back for its command has one, in the session it named.
WorkInv ==
  /\ \A s \in SessionIds :
       /\ WorkOK(record[s])
       /\ record[s].lastResponse.commands \subseteq delivered
       /\ ToSet(record[s].queued) \cap delivered = {}
       /\ \A c \in record[s].responders :
            home[c] = s /\ call[c] \in {"waiting", "timedOut", "abandoned"}
  /\ \A c \in Commands :
       call[c] = "waiting" => home[c] \in live /\ c \in record[home[c]].responders
  /\ \A c \in delivered : call[c] # "new"

LEMMA EmptyWork == WorkOK(EmptyRecord)
  <1>1. Cardinality({}) = 0 /\ Len(<<>>) = 0
    BY FS_EmptySet, EmptySeq
  <1>2. MaxCommandsPerReport \in Nat /\ MaxPending \in Nat
    BY LimitsAssumption
  <1>3. ToSet(<<>>) = {}
    BY DEF ToSet
  <1> QED BY <1>1, <1>2, <1>3 DEF EmptyRecord, WorkOK, NoResponse

LEMMA CalledWork ==
  ASSUME NEW r \in SessionRecords, WorkOK(r), NEW c \in Commands \ r.responders,
         r.binding # None, HasRoom(r),
         NEW w, w = [r EXCEPT !.queued = Append(@, c),
                              !.responders = @ \cup {c},
                              !.counts.queued = Len(r.queued) + 1]
  PROVE  WorkOK(w) /\ ToSet(w.queued) = ToSet(r.queued) \cup {c}
  <1>1. /\ w.queued = Append(r.queued, c) /\ w.responders = r.responders \cup {c}
        /\ w.inFlight = r.inFlight /\ w.lastResponse = r.lastResponse
        /\ w.lastSequence = r.lastSequence /\ w.binding = r.binding
    BY DEF SessionRecords
  <1>2. /\ r.queued \in Seq(Commands) /\ Len(r.queued) \in Nat
        /\ DOMAIN r.queued = 1..Len(r.queued)
        /\ Cardinality(r.inFlight) \in Nat /\ MaxPending \in Nat
    BY LenProperties, CommandSets, LimitsAssumption DEF SessionRecords
  <1>3. /\ w.queued \in Seq(Commands)
        /\ Len(w.queued) = Len(r.queued) + 1
        /\ \A i \in 1..Len(r.queued) : w.queued[i] = r.queued[i]
        /\ w.queued[Len(r.queued) + 1] = c
    BY <1>1, <1>2, AppendProperties
  <1>4. DOMAIN w.queued = 1..(Len(r.queued) + 1)
    BY <1>3, LenProperties
  <1>5. ToSet(w.queued) = ToSet(r.queued) \cup {c}
    BY <1>2, <1>3, <1>4 DEF ToSet
  <1>6. c \notin ToSet(r.queued) /\ c \notin r.inFlight
    BY DEF WorkOK
  <1>7. \A i, j \in DOMAIN w.queued : w.queued[i] = w.queued[j] => i = j
    <2>1. \A i \in 1..Len(r.queued) : r.queued[i] # c
      BY <1>2, <1>6 DEF ToSet
    <2> QED BY <1>2, <1>3, <1>4, <2>1 DEF WorkOK
  <1>8. Len(w.queued) + Cardinality(w.inFlight) <= MaxPending
    BY <1>1, <1>2, <1>3 DEF HasRoom
  <1> QED BY <1>1, <1>5, <1>6, <1>7, <1>8 DEF WorkOK

LEMMA RemovedWork ==
  ASSUME NEW r \in SessionRecords, WorkOK(r), NEW c \in Commands, NEW w, w = Removed(r, c)
  PROVE  /\ WorkOK(w)
         /\ ToSet(w.queued) = ToSet(r.queued) \ {c}
         /\ w.responders = r.responders \ {c}
         /\ w.lastResponse = r.lastResponse
  <1>1. /\ w.queued = Without(r.queued, c) /\ w.responders = r.responders \ {c}
        /\ w.inFlight = r.inFlight \ {c} /\ w.lastResponse = r.lastResponse
        /\ w.lastSequence = r.lastSequence /\ w.binding = r.binding
    BY DEF SessionRecords, Removed
  <1>2. r.queued \in Seq(Commands) /\ r.inFlight \in SUBSET Commands
    BY DEF SessionRecords
  <1>3. /\ ToSet(w.queued) = ToSet(r.queued) \ {c}
        /\ \A i, j \in DOMAIN w.queued : w.queued[i] = w.queued[j] => i = j
        /\ w.queued \in Seq(Commands)
        /\ Len(w.queued) <= Len(r.queued)
    BY <1>1, <1>2, WithoutProperties, WithoutType DEF WorkOK
  <1>4. Len(w.queued) \in Nat /\ Len(r.queued) \in Nat
    BY <1>2, <1>3, LenProperties
  <1>5. /\ Cardinality(w.inFlight) \in Nat /\ Cardinality(r.inFlight) \in Nat
        /\ Cardinality(w.inFlight) <= Cardinality(r.inFlight)
    BY <1>1, <1>2, CommandSets, FS_Subset
  <1>6. MaxPending \in Nat /\ MaxCommandsPerReport \in Nat
    BY LimitsAssumption
  <1> QED BY <1>1, <1>3, <1>4, <1>5, <1>6 DEF WorkOK

LEMMA PrefixCardinality ==
  ASSUME NEW q \in Seq(Commands), NEW k \in 0..Len(q)
  PROVE  Cardinality({q[i] : i \in 1..k}) <= k
  <1> DEFINE P == {q[i] : i \in 1..k}
             f == [i \in 1..k |-> q[i]]
  <1>1. k \in Nat
    BY LenProperties
  <1>2. IsFiniteSet(1..k) /\ Cardinality(1..k) = k
    BY <1>1, FS_Interval
  <1>3. f \in Surjection(1..k, P)
    BY DEF Surjection
  <1> QED BY <1>1, <1>2, <1>3, FS_Surjection

\* Leasing k of a queued commands keeps queue and leases within the limit m.
LEMMA GrantKeepsRoom ==
  ASSUME NEW a \in Nat, NEW b \in Nat, NEW c \in Nat, NEW k \in Nat, NEW m \in Nat,
         NEW q, q = a - k, a + b <= m, c <= b + k
  PROVE  q + c <= m
  OBVIOUS

\* A fresh report moves a prefix of the queue into the leases, drops the
\* leases its results settle, and touches nothing else.
LEMMA IngestedWork ==
  ASSUME NEW r \in SessionRecords, WorkOK(r), NEW results \in SUBSET Commands, NEW n \in Nat,
         results \cap ToSet(r.queued) = {},
         NEW w, w = Ingested(r, results, n)
  PROVE  /\ \A i, j \in DOMAIN w.queued : w.queued[i] = w.queued[j] => i = j
         /\ ToSet(w.queued) \subseteq ToSet(r.queued)
         /\ ToSet(w.queued) \cap w.inFlight = {}
         /\ w.responders = ToSet(w.queued) \cup w.inFlight
         /\ w.responders = r.responders \ results
         /\ w.binding = r.binding
         /\ Cardinality(w.inFlight) <= MaxCommandsPerReport
         /\ Len(w.queued) + Cardinality(w.inFlight) <= MaxPending
  <1> DEFINE k == LeaseCount(r, results)
             granted == {r.queued[i] : i \in 1..k}
             kept == r.inFlight \ results
  <1>1. /\ w.queued = DropFirst(r.queued, k)
        /\ w.inFlight = kept \cup granted
        /\ w.responders = r.responders \ results
        /\ w.binding = r.binding
    <2> DEFINE fresh == Refreshed(r)
               ring == Ingest(r, n)
    <2>1. fresh.binding = r.binding /\ fresh \in SessionRecords
      BY RefreshedType DEF SessionRecords, Refreshed
    <2>2. w = [fresh EXCEPT !.inFlight = kept \cup granted,
                            !.queued = DropFirst(r.queued, k),
                            !.responders = r.responders \ results,
                            !.events = ring.events,
                            !.dropped = ring.dropped,
                            !.accepted = r.accepted + n]
      BY DEF Ingested
    <2> HIDE DEF fresh, ring, kept, granted, k
    <2> QED BY <2>1, <2>2 DEF SessionRecords
  <1>2. /\ r.queued \in Seq(Commands) /\ Len(r.queued) \in Nat
        /\ DOMAIN r.queued = 1..Len(r.queued)
        /\ kept \in SUBSET Commands /\ r.inFlight \in SUBSET Commands
    BY LenProperties DEF SessionRecords
  <1>3. k \in 0..Len(r.queued) /\ k <= Monus(MaxCommandsPerReport, Cardinality(kept))
    BY LeaseCountType
  <1> HIDE DEF k
  <1>4. granted \in SUBSET Commands /\ granted \subseteq ToSet(r.queued)
    BY <1>2, <1>3, ElementOfSeq DEF ToSet
  <1>5. /\ Cardinality(kept) \in Nat /\ Cardinality(granted) \in Nat
        /\ Cardinality(r.inFlight) \in Nat /\ Cardinality(w.inFlight) \in Nat
        /\ Cardinality(granted) <= k
        /\ Cardinality(kept) <= Cardinality(r.inFlight)
    <2>1. Cardinality(granted) <= k
      BY <1>2, <1>3, PrefixCardinality
    <2>2. kept \in SUBSET r.inFlight /\ w.inFlight \in SUBSET Commands
      BY <1>1, <1>2, <1>4
    <2> HIDE DEF kept, granted
    <2>3. Cardinality(kept) <= Cardinality(r.inFlight)
      BY <1>2, <2>2, CommandSets, FS_Subset
    <2> QED BY <1>2, <1>4, <2>1, <2>2, <2>3, CommandSets
  <1>6. Cardinality(w.inFlight) <= Cardinality(kept) + Cardinality(granted)
    <2> HIDE DEF kept, granted
    <2>1. IsFiniteSet(kept) /\ IsFiniteSet(granted) /\ IsFiniteSet(kept \cap granted)
      BY <1>2, <1>4, CommandSets
    <2>2. Cardinality(kept \cap granted) \in Nat
      BY <1>2, CommandSets
    <2>3. Cardinality(kept \cup granted) =
            Cardinality(kept) + Cardinality(granted) - Cardinality(kept \cap granted)
      BY <2>1, FS_Union
    <2> QED BY <1>1, <1>5, <2>2, <2>3
  <1>7. /\ w.queued \in Seq(Commands)
        /\ Len(w.queued) = Len(r.queued) - k
        /\ DOMAIN w.queued = 1..(Len(r.queued) - k)
        /\ \A i \in 1..(Len(r.queued) - k) : w.queued[i] = r.queued[k + i]
    <2>1. /\ DropFirst(r.queued, k) \in Seq(Commands)
          /\ Len(DropFirst(r.queued, k)) = Len(r.queued) - k
          /\ \A i \in 1..(Len(r.queued) - k) : DropFirst(r.queued, k)[i] = r.queued[k + i]
      BY <1>2, <1>3, DropFirstProperties
    <2> QED BY <1>1, <2>1, LenProperties
  <1>8. MaxCommandsPerReport \in Nat /\ MaxPending \in Nat
    BY LimitsAssumption
  <1>9. Cardinality(w.inFlight) <= MaxCommandsPerReport
    <2>1. Cardinality(kept) <= MaxCommandsPerReport
      BY <1>5, <1>8 DEF WorkOK
    <2>2. k <= MaxCommandsPerReport - Cardinality(kept)
      BY <1>3, <1>5, <1>8, <2>1 DEF Monus
    <2> HIDE DEF kept, granted
    <2> QED BY <1>3, <1>5, <1>6, <1>8, <2>2
  <1>10. Len(w.queued) + Cardinality(w.inFlight) <= MaxPending
    <2>1. Len(r.queued) + Cardinality(r.inFlight) <= MaxPending
      BY DEF WorkOK
    <2> HIDE DEF kept, granted
    <2>2. Cardinality(w.inFlight) <= Cardinality(r.inFlight) + k
      BY <1>2, <1>3, <1>5, <1>6
    <2>3. k \in Nat /\ k <= Len(r.queued)
      BY <1>2, <1>3
    <2> QED BY <1>2, <1>5, <1>7, <1>8, <2>1, <2>2, <2>3, GrantKeepsRoom
  <1>11. \A i, j \in DOMAIN r.queued : r.queued[i] = r.queued[j] => i = j
    BY DEF WorkOK
  <1>12. \A i, j \in DOMAIN w.queued : w.queued[i] = w.queued[j] => i = j
    <2> HIDE DEF kept, granted
    <2>0. ASSUME NEW i \in 1..(Len(r.queued) - k) PROVE k + i \in 1..Len(r.queued)
      BY <1>2, <1>3
    <2>1. \A i \in DOMAIN w.queued : k + i \in DOMAIN r.queued /\ w.queued[i] = r.queued[k + i]
      BY <1>2, <1>7, <2>0
    <2>2. ASSUME NEW i \in DOMAIN w.queued, NEW j \in DOMAIN w.queued, w.queued[i] = w.queued[j]
          PROVE  i = j
      <3>1. k + i = k + j
        BY <1>11, <2>1, <2>2
      <3> QED BY <1>2, <1>3, <1>7, <3>1
    <2> QED BY <2>2
  <1>13. ToSet(w.queued) = ToSet(r.queued) \ granted
    <2>1. ASSUME NEW x \in ToSet(w.queued) PROVE x \in ToSet(r.queued) \ granted
      <3>1. PICK i \in 1..(Len(r.queued) - k) : x = r.queued[k + i]
        BY <1>7, <2>1 DEF ToSet
      <3>2. k + i \in DOMAIN r.queued /\ k + i \notin 1..k /\ 1..k \subseteq DOMAIN r.queued
        BY <1>2, <1>3
      <3>3. \A j \in 1..k : r.queued[j] # x
        BY <1>11, <3>1, <3>2
      <3> QED BY <3>1, <3>2, <3>3 DEF ToSet
    <2>2. ASSUME NEW x \in ToSet(r.queued) \ granted PROVE x \in ToSet(w.queued)
      <3>1. PICK j \in 1..Len(r.queued) : x = r.queued[j]
        BY <1>2, <2>2 DEF ToSet
      <3>2. j \notin 1..k
        BY <2>2, <3>1
      <3>3. j - k \in 1..(Len(r.queued) - k) /\ k + (j - k) = j
        BY <1>2, <1>3, <3>2
      <3> QED BY <1>7, <3>1, <3>3 DEF ToSet
    <2> QED BY <2>1, <2>2
  <1> HIDE DEF granted
  <1>14. ToSet(w.queued) \cap w.inFlight = {}
    BY <1>1, <1>13 DEF WorkOK
  <1>15. w.responders = ToSet(w.queued) \cup w.inFlight
    BY <1>1, <1>4, <1>13 DEF WorkOK
  <1> QED BY <1>1, <1>9, <1>10, <1>12, <1>13, <1>14, <1>15

LEMMA WorkInit == Init => WorkInv
  <1>1. /\ EmptyRecord.responders = {} /\ EmptyRecord.lastResponse.commands = {}
        /\ ToSet(EmptyRecord.queued) = {}
    BY DEF EmptyRecord, NoResponse, ToSet
  <1> QED BY <1>1, EmptyWork DEF Init, WorkInv

\* Two records that hold the same commands.
SameWork(r, o) ==
  /\ r.queued = o.queued /\ r.inFlight = o.inFlight /\ r.responders = o.responders
  /\ r.lastSequence = o.lastSequence /\ r.lastResponse = o.lastResponse
  /\ r.binding = None => o.binding = None

LEMMA SameWorkOK ==
  ASSUME NEW r, NEW o, WorkOK(o), SameWork(r, o)
  PROVE  WorkOK(r)
  BY DEF WorkOK, SameWork

\* An action that settles, sends and accepts no command, but may drop the
\* sessions of D and close the channels of their calls.
LEMMA WorkUntouched ==
  ASSUME TypeOK, IndexInv, WorkInv, NEW D \in SUBSET live,
         live \ D \subseteq live',
         \A s \in SessionIds : SameWork(record'[s], IF s \in D THEN EmptyRecord ELSE record[s]),
         call' = [c \in Commands |->
                    IF c \in UNION {record[s].responders : s \in D} /\ call[c] = "waiting"
                    THEN "closed" ELSE call[c]],
         home' = home, delivered' = delivered
  PROVE  WorkInv'
  <1>0. live \subseteq SessionIds /\ delivered \subseteq Commands /\ home \in [Commands -> SessionIds \cup {None}]
        /\ \A s \in SessionIds : record[s].responders \subseteq Commands
    BY DEF TypeOK, SessionRecords
  <1>1. ASSUME NEW s \in D
        PROVE  /\ record'[s].responders = {} /\ ToSet(record'[s].queued) = {}
               /\ record'[s].lastResponse.commands = {}
    BY <1>0, <1>1 DEF SameWork, EmptyRecord, NoResponse, ToSet
  <1>2. ASSUME NEW s \in SessionIds \ D
        PROVE  /\ record'[s].responders = record[s].responders
               /\ record'[s].queued = record[s].queued
               /\ record'[s].lastResponse = record[s].lastResponse
    BY <1>2 DEF SameWork
  <1>3. ASSUME NEW s \in SessionIds PROVE WorkOK(record'[s])
    BY EmptyWork, SameWorkOK DEF WorkInv
  <1>4. ASSUME NEW s \in SessionIds
        PROVE  /\ record'[s].lastResponse.commands \subseteq delivered'
               /\ ToSet(record'[s].queued) \cap delivered' = {}
    <2>1. CASE s \in D
      BY <1>1, <2>1
    <2>2. CASE s \notin D
      BY <1>2, <2>2 DEF WorkInv
    <2> QED BY <2>1, <2>2
  <1>5. ASSUME NEW s \in SessionIds, NEW c \in record'[s].responders
        PROVE  home'[c] = s /\ call'[c] \in {"waiting", "timedOut", "abandoned"}
    <2>1. s \notin D /\ c \in record[s].responders /\ c \in Commands
      BY <1>0, <1>1, <1>2, <1>5
    <2>2. home[c] = s /\ call[c] \in {"waiting", "timedOut", "abandoned"}
      BY <2>1 DEF WorkInv
    <2>3. c \notin UNION {record[x].responders : x \in D}
      BY <1>0, <2>1, <2>2 DEF WorkInv
    <2> QED BY <2>1, <2>2, <2>3
  <1>6. ASSUME NEW c \in Commands, call'[c] = "waiting"
        PROVE  home'[c] \in live' /\ c \in record'[home'[c]].responders
    <2>1. call[c] = "waiting" /\ c \notin UNION {record[x].responders : x \in D}
      BY <1>6
    <2>2. home[c] \in live /\ c \in record[home[c]].responders
      BY <2>1 DEF WorkInv
    <2>3. home[c] \notin D
      BY <2>1, <2>2
    <2> QED BY <1>0, <1>2, <2>2, <2>3
  <1>7. \A c \in delivered' : call'[c] # "new"
    BY <1>0 DEF WorkInv
  <1> QED BY <1>3, <1>4, <1>5, <1>6, <1>7 DEF WorkInv

\* The same for an action that drops no session.
LEMMA WorkUntouchedAll ==
  ASSUME TypeOK, IndexInv, WorkInv, live \subseteq live',
         \A s \in SessionIds : SameWork(record'[s], record[s]),
         UNCHANGED <<call, home, delivered>>
  PROVE  WorkInv'
  <1> DEFINE D == {}
  <1>1. D \in SUBSET live /\ live \ D \subseteq live'
    OBVIOUS
  <1>2. \A s \in SessionIds : SameWork(record'[s], IF s \in D THEN EmptyRecord ELSE record[s])
    OBVIOUS
  <1>3. call' = [c \in Commands |->
                   IF c \in UNION {record[s].responders : s \in D} /\ call[c] = "waiting"
                   THEN "closed" ELSE call[c]]
    BY DEF TypeOK
  <1> HIDE DEF D
  <1> QED BY <1>1, <1>2, <1>3, WorkUntouched

\* A call whose phase changes after it has been submitted, to one in which it
\* does not wait; its command stays where it is.
LEMMA PhaseChange ==
  ASSUME TypeOK, WorkInv, NEW c \in Commands, NEW p \in {"timedOut", "abandoned"},
         call[c] \in {"waiting", "timedOut", "closed"},
         call' = [call EXCEPT ![c] = p],
         UNCHANGED <<live, record, home, delivered>>
  PROVE  WorkInv'
  <1>1. delivered \subseteq Commands /\ call \in [Commands -> Phases]
        /\ \A s \in SessionIds : record[s].responders \subseteq Commands
    BY DEF TypeOK, SessionRecords
  <1>2. call'[c] = p /\ \A x \in Commands \ {c} : call'[x] = call[x]
    BY <1>1
  <1> QED BY <1>1, <1>2 DEF WorkInv

\* A fresh report, the one action that settles, leases and sends commands.
LEMMA ReportWork ==
  ASSUME TypeOK, IndexInv, WorkInv,
         NEW s \in SessionIds, NEW q \in Nat, NEW results \in SUBSET delivered, NEW n \in Nat,
         Report(s, q, results, n)
  PROVE  WorkInv'
  <1> DEFINE r == Ingested(record[s], results, n)
  <1>0. /\ live \subseteq SessionIds /\ delivered \subseteq Commands
        /\ call \in [Commands -> Phases] /\ record \in [SessionIds -> SessionRecords]
        /\ \A x \in SessionIds : record[x].responders \subseteq Commands
    BY DEF TypeOK, SessionRecords
  <1>1. r \in SessionRecords
    BY <1>0, IngestedType
  <1>2. results \cap ToSet(record[s].queued) = {} /\ WorkOK(record[s]) /\ results \in SUBSET Commands
    BY <1>0 DEF WorkInv
  <1>3. /\ \A i, j \in DOMAIN r.queued : r.queued[i] = r.queued[j] => i = j
        /\ ToSet(r.queued) \subseteq ToSet(record[s].queued)
        /\ ToSet(r.queued) \cap r.inFlight = {}
        /\ r.responders = ToSet(r.queued) \cup r.inFlight
        /\ r.responders = record[s].responders \ results
        /\ r.binding = record[s].binding
        /\ Cardinality(r.inFlight) <= MaxCommandsPerReport
        /\ Len(r.queued) + Cardinality(r.inFlight) <= MaxPending
    BY <1>0, <1>2, IngestedWork
  <1>4. PICK commands \in Leased(r) :
          /\ record' = [record EXCEPT ![s] =
               [r EXCEPT !.lastSequence = q,
                         !.counts = CountsOf(r),
                         !.lastResponse = [sequence |-> q, commands |-> commands,
                                           dropped |-> r.dropped, backend |-> backend]]]
          /\ delivered' = delivered \cup commands
    BY DEF Report
  <1>5. /\ live' = live /\ home' = home
        /\ \A c \in Commands : call'[c] = IF c \in Settled(s, results) /\ call[c] = "waiting"
                                          THEN "answered" ELSE call[c]
    BY DEF Report
  <1> HIDE DEF r
  <1>6. commands = r.inFlight
    <2>1. r.inFlight \in SUBSET Commands /\ commands \in SUBSET r.inFlight
      BY <1>1 DEF Leased, SessionRecords
    <2>2. Cardinality(r.inFlight) \in Nat /\ IsFiniteSet(r.inFlight) /\ MaxCommandsPerReport \in Nat
      BY <2>1, CommandSets, LimitsAssumption
    <2>3. Cardinality(commands) = Cardinality(r.inFlight)
      BY <1>3, <2>2 DEF Leased, Least
    <2> QED BY <2>1, <2>2, <2>3, FS_Subset
  <1>7. /\ record'[s].queued = r.queued /\ record'[s].inFlight = r.inFlight
        /\ record'[s].responders = r.responders /\ record'[s].binding = r.binding
        /\ record'[s].lastSequence = q
        /\ record'[s].lastResponse.sequence = q /\ record'[s].lastResponse.commands = r.inFlight
        /\ \A x \in SessionIds \ {s} : record'[x] = record[x]
    BY <1>0, <1>1, <1>4, <1>6 DEF SessionRecords
  <1>8. r.responders \subseteq record[s].responders /\ r.inFlight \subseteq record[s].responders
    BY <1>3
  <1>9. WorkOK(record'[s])
    <2>1. r.binding = None => r.responders = {}
      BY <1>2, <1>3 DEF WorkOK
    <2> QED BY <1>3, <1>7, <2>1 DEF WorkOK
  <1>10. ASSUME NEW x \in SessionIds \ {s}
         PROVE  record[x].responders \cap record[s].responders = {}
    BY DEF WorkInv
  <1>11. ASSUME NEW x \in SessionIds
         PROVE  /\ WorkOK(record'[x])
                /\ record'[x].lastResponse.commands \subseteq delivered'
                /\ ToSet(record'[x].queued) \cap delivered' = {}
    <2>1. CASE x = s
      <3>1. ToSet(r.queued) \cap delivered = {}
        BY <1>3 DEF WorkInv
      <3> QED BY <1>3, <1>4, <1>6, <1>7, <1>9, <2>1, <3>1
    <2>2. CASE x # s
      <3>1. ToSet(record[x].queued) \subseteq record[x].responders
        BY DEF WorkInv, WorkOK
      <3>2. ToSet(record[x].queued) \cap r.inFlight = {}
        BY <1>8, <1>10, <2>2, <3>1
      <3>3. /\ WorkOK(record[x]) /\ record[x].lastResponse.commands \subseteq delivered
            /\ ToSet(record[x].queued) \cap delivered = {}
        BY DEF WorkInv
      <3> QED BY <1>4, <1>6, <1>7, <2>2, <3>2, <3>3
    <2> QED BY <2>1, <2>2
  <1>12. ASSUME NEW x \in SessionIds, NEW c \in record'[x].responders
         PROVE  home'[c] = x /\ call'[c] \in {"waiting", "timedOut", "abandoned"}
    <2>1. c \in record[x].responders /\ c \in Commands
      BY <1>0, <1>7, <1>8, <1>12
    <2>2. home[c] = x /\ call[c] \in {"waiting", "timedOut", "abandoned"}
      BY <2>1 DEF WorkInv
    <2>3. c \notin Settled(s, results)
      BY <1>3, <1>7, <1>10, <1>12, <2>1 DEF Settled
    <2> QED BY <1>5, <2>1, <2>2, <2>3
  <1>13. ASSUME NEW c \in Commands, call'[c] = "waiting"
         PROVE  home'[c] \in live' /\ c \in record'[home'[c]].responders
    <2>1. call[c] = "waiting" /\ c \notin Settled(s, results)
      BY <1>5, <1>13
    <2>2. home[c] \in live /\ c \in record[home[c]].responders
      BY <2>1 DEF WorkInv
    <2>3. CASE home[c] = s
      BY <1>3, <1>5, <1>7, <2>1, <2>2, <2>3 DEF Settled
    <2>4. CASE home[c] # s
      BY <1>0, <1>5, <1>7, <2>2, <2>4
    <2> QED BY <2>3, <2>4
  <1>14. ASSUME NEW c \in delivered' PROVE call'[c] # "new"
    <2>1. CASE c \in delivered
      BY <1>0, <1>5, <2>1 DEF WorkInv
    <2>2. CASE c \in r.inFlight
      BY <1>0, <1>5, <1>8, <2>2 DEF WorkInv
    <2> QED BY <1>4, <1>6, <1>14, <2>1, <2>2
  <1> QED BY <1>11, <1>12, <1>13, <1>14 DEF WorkInv

LEMMA CallWork ==
  ASSUME TypeOK, IndexInv, WorkInv, NEW c \in Commands, NEW s \in SessionIds, Call(c, s)
  PROVE  WorkInv'
  <1> DEFINE w == [record[s] EXCEPT !.queued = Append(@, c),
                                    !.responders = @ \cup {c},
                                    !.counts.queued = Len(record[s].queued) + 1]
  <1>0. /\ live \subseteq SessionIds /\ delivered \subseteq Commands
        /\ call \in [Commands -> Phases] /\ record \in [SessionIds -> SessionRecords]
        /\ home \in [Commands -> SessionIds \cup {None}]
    BY DEF TypeOK
  <1>1. /\ call[c] = "new" /\ s \in live /\ record[s].binding # None /\ HasRoom(record[s])
        /\ call' = [call EXCEPT ![c] = "waiting"] /\ home' = [home EXCEPT ![c] = s]
        /\ live' = live /\ delivered' = delivered
    BY DEF Call
  <1>2. record'[s] = w /\ \A x \in SessionIds \ {s} : record'[x] = record[x]
    BY <1>0 DEF Call
  <1>3. \A x \in SessionIds : c \notin record[x].responders
    BY <1>1 DEF WorkInv
  <1>4. w.responders = record[s].responders \cup {c} /\ w.lastResponse = record[s].lastResponse
    BY <1>0 DEF SessionRecords
  <1>5. record[s] \in SessionRecords /\ WorkOK(record[s]) /\ c \in Commands \ record[s].responders
    BY <1>0, <1>3 DEF WorkInv
  <1>6. WorkOK(w) /\ ToSet(w.queued) = ToSet(record[s].queued) \cup {c}
    BY <1>1, <1>5, CalledWork
  <1> HIDE DEF w
  <1>7. c \notin delivered
    BY <1>1 DEF WorkInv
  <1>8. ASSUME NEW x \in SessionIds
        PROVE  /\ WorkOK(record'[x])
               /\ record'[x].lastResponse.commands \subseteq delivered'
               /\ ToSet(record'[x].queued) \cap delivered' = {}
    BY <1>1, <1>2, <1>4, <1>6, <1>7 DEF WorkInv
  <1>9. ASSUME NEW x \in SessionIds, NEW d \in record'[x].responders
        PROVE  home'[d] = x /\ call'[d] \in {"waiting", "timedOut", "abandoned"}
    <2>1. CASE d = c
      <3>1. x = s
        BY <1>2, <1>3, <1>9, <2>1
      <3> QED BY <1>0, <1>1, <2>1, <3>1
    <2>2. CASE d # c
      <3>1. d \in record[x].responders /\ d \in Commands
        <4>1. record[x].responders \subseteq Commands
          BY <1>0 DEF SessionRecords
        <4>2. CASE x = s
          BY <1>2, <1>4, <1>9, <2>2, <4>1, <4>2
        <4>3. CASE x # s
          BY <1>2, <1>9, <4>1, <4>3
        <4> QED BY <4>2, <4>3
      <3> QED BY <1>0, <1>1, <2>2, <3>1 DEF WorkInv
    <2> QED BY <2>1, <2>2
  <1>10. ASSUME NEW d \in Commands, call'[d] = "waiting"
         PROVE  home'[d] \in live' /\ d \in record'[home'[d]].responders
    <2>1. CASE d = c
      BY <1>0, <1>1, <1>2, <1>4, <2>1
    <2>2. CASE d # c
      <3>1. home'[d] = home[d] /\ home[d] \in live /\ d \in record[home[d]].responders
        BY <1>0, <1>1, <1>10, <2>2 DEF WorkInv
      <3> QED BY <1>0, <1>1, <1>2, <1>4, <3>1
    <2> QED BY <2>1, <2>2
  <1>11. \A d \in delivered' : call'[d] # "new"
    BY <1>0, <1>1, <1>7 DEF WorkInv
  <1> QED BY <1>8, <1>9, <1>10, <1>11 DEF WorkInv

LEMMA RemoveWork ==
  ASSUME TypeOK, IndexInv, WorkInv, NEW c \in Commands, RemoveCommand(c)
  PROVE  WorkInv'
  <1>0. /\ live \subseteq SessionIds /\ delivered \subseteq Commands
        /\ call \in [Commands -> Phases] /\ record \in [SessionIds -> SessionRecords]
        /\ home \in [Commands -> SessionIds \cup {None}]
        /\ \A x \in SessionIds : record[x].responders \subseteq Commands
    BY DEF TypeOK, SessionRecords
  <1>1. /\ call' = [call EXCEPT ![c] = "failed"]
        /\ live' = live /\ delivered' = delivered /\ home' = home
    BY DEF RemoveCommand
  <1>2. \A x \in SessionIds \ {home[c]} : record'[x] = record[x]
    BY <1>0 DEF RemoveCommand
  <1>3. ASSUME NEW x \in SessionIds
        PROVE  /\ WorkOK(record'[x])
               /\ record'[x].responders = record[x].responders \ {c}
               /\ ToSet(record'[x].queued) \subseteq ToSet(record[x].queued)
               /\ record'[x].lastResponse = record[x].lastResponse
    <2>1. WorkOK(record[x]) /\ record[x] \in SessionRecords
      BY <1>0 DEF WorkInv
    <2>2. CASE x = home[c] /\ x \in live
      <3>1. record'[x] = Removed(record[x], c)
        BY <1>0, <2>2 DEF RemoveCommand
      <3> QED BY <2>1, <3>1, RemovedWork
    <2>3. CASE x = home[c] /\ x \notin live
      <3>1. record'[x] = record[x]
        BY <2>3 DEF RemoveCommand
      <3>2. record[x].responders = {}
        BY <2>3 DEF IndexInv, IdsFresh, EmptyRecord
      <3> QED BY <2>1, <3>1, <3>2
    <2>4. CASE x # home[c]
      <3>1. c \notin record[x].responders
        BY <2>4 DEF WorkInv
      <3> QED BY <1>2, <2>1, <2>4, <3>1
    <2> QED BY <2>2, <2>3, <2>4
  <1>4. ASSUME NEW x \in SessionIds
        PROVE  /\ record'[x].lastResponse.commands \subseteq delivered'
               /\ ToSet(record'[x].queued) \cap delivered' = {}
    BY <1>1, <1>3 DEF WorkInv
  <1>5. ASSUME NEW x \in SessionIds, NEW d \in record'[x].responders
        PROVE  home'[d] = x /\ call'[d] \in {"waiting", "timedOut", "abandoned"}
    <2>1. d \in record[x].responders /\ d # c
      BY <1>3, <1>5
    <2> QED BY <1>0, <1>1, <2>1 DEF WorkInv
  <1>6. ASSUME NEW d \in Commands, call'[d] = "waiting"
        PROVE  home'[d] \in live' /\ d \in record'[home'[d]].responders
    <2>1. d # c /\ call[d] = "waiting"
      BY <1>0, <1>1, <1>6
    <2>2. home[d] \in live /\ d \in record[home[d]].responders
      BY <2>1 DEF WorkInv
    <2> QED BY <1>0, <1>1, <1>3, <2>1, <2>2
  <1>7. \A d \in delivered' : call'[d] # "new"
    BY <1>0, <1>1 DEF WorkInv
  <1> QED BY <1>3, <1>4, <1>5, <1>6, <1>7 DEF WorkInv

\* What register's sweep does to the commands: the record it makes or
\* refreshes holds what it held, or nothing.
LEMMA RegisterWork ==
  ASSUME TypeOK, IndexInv, WorkInv,
         AfterExpiry.live \subseteq live',
         \A s \in SessionIds : SameWork(record'[s], AfterExpiry.record[s]),
         call' = AfterExpiry.call, UNCHANGED <<home, delivered>>
  PROVE  WorkInv'
  BY WorkUntouched DEF AfterExpiry, Expired, Orphans

LEMMA WorkStep ==
  ASSUME TypeOK, TypeOK', IndexInv, WorkInv, [Next]_vars
  PROVE  WorkInv'
  <1> DEFINE kept == AfterExpiry
  <1>0. /\ kept.record \in [SessionIds -> SessionRecords]
        /\ kept.external \in [Externals -> SessionIds \cup {None}]
        /\ kept.live \subseteq live /\ live \subseteq SessionIds
        /\ record \in [SessionIds -> SessionRecords]
        /\ \A s \in SessionIds \ kept.live : kept.record[s] = EmptyRecord
    BY AfterExpiryType, ExpiryIndex DEF TypeOK
  <1>1. ASSUME NEW e \in Externals, RegisterKnown(e) PROVE WorkInv'
    <2> DEFINE t == kept.external[e]
    <2>1. /\ record' = [kept.record EXCEPT ![t] = Refreshed(@)]
          /\ live' = kept.live /\ call' = kept.call /\ UNCHANGED <<home, delivered>>
      BY <1>1 DEF RegisterKnown
    <2>2. \A s \in SessionIds : SameWork(Refreshed(kept.record[s]), kept.record[s])
      BY <1>0 DEF SameWork, Refreshed, SessionRecords
    <2> HIDE DEF t, kept
    <2>3. \A s \in SessionIds : SameWork(kept.record[s], kept.record[s])
      BY DEF SameWork
    <2>4. \A s \in SessionIds : SameWork(record'[s], kept.record[s])
      BY <1>0, <2>1, <2>2, <2>3
    <2> QED BY <2>1, <2>4, RegisterWork DEF kept
  <1>2. ASSUME NEW e \in Externals, NEW s \in SessionIds, RegisterNew(e, s) PROVE WorkInv'
    <2>1. /\ record' = [kept.record EXCEPT ![s] = [EmptyRecord EXCEPT !.external = e]]
          /\ live' = kept.live \cup {s} /\ call' = kept.call /\ UNCHANGED <<home, delivered>>
          /\ s \notin issued
      BY <1>2 DEF RegisterNew
    <2>2. s \notin kept.live
      BY <1>0, <2>1 DEF IndexInv, IdsFresh
    <2>3. SameWork([EmptyRecord EXCEPT !.external = e], EmptyRecord)
      BY DEF SameWork, EmptyRecord
    <2> HIDE DEF kept
    <2>4. \A x \in SessionIds : SameWork(kept.record[x], kept.record[x])
      BY DEF SameWork
    <2>5. kept.record[s] = EmptyRecord
      BY <1>0, <2>2
    <2>6. \A x \in SessionIds : SameWork(record'[x], kept.record[x])
      BY <1>0, <2>1, <2>3, <2>4, <2>5
    <2>7. kept.live \subseteq live'
      BY <2>1
    <2> QED BY <2>1, <2>6, <2>7, RegisterWork DEF kept
  <1>3. ASSUME NEW e \in Externals, RegisterRefused(e) PROVE WorkInv'
    <2>1. record' = kept.record /\ live' = kept.live /\ call' = kept.call /\ UNCHANGED <<home, delivered>>
      BY <1>3 DEF RegisterRefused
    <2> HIDE DEF kept
    <2>2. \A x \in SessionIds : SameWork(record'[x], kept.record[x])
      BY <2>1 DEF SameWork
    <2> QED BY <2>1, <2>2, RegisterWork DEF kept
  <1>4. ASSUME NEW s \in SessionIds, NEW b \in Bindings, BindSession(s, b) PROVE WorkInv'
    <2>1. b # None
      BY NoneAssumption
    <2>2. SameWork([record[s] EXCEPT !.binding = b, !.state = "Bound"], record[s])
      BY <1>0, <2>1 DEF SameWork, SessionRecords
    <2>3. \A x \in SessionIds : SameWork(record[x], record[x])
      BY DEF SameWork
    <2>4. \A x \in SessionIds : SameWork(record'[x], record[x])
      BY <1>0, <1>4, <2>2, <2>3 DEF BindSession
    <2> QED BY <1>4, <2>4, WorkUntouchedAll DEF BindSession
  <1>5. ASSUME ListSessions PROVE WorkInv'
    <2>1. \A x \in SessionIds : SameWork([record[x] EXCEPT !.state = "Stale"], record[x])
      BY <1>0 DEF SameWork, SessionRecords
    <2>2. \A x \in SessionIds : SameWork(record[x], record[x])
      BY DEF SameWork
    <2>3. \A x \in SessionIds : SameWork(record'[x], record[x])
      BY <1>5, <2>1, <2>2 DEF ListSessions, MarkedStale
    <2> QED BY <1>5, <2>3, WorkUntouchedAll DEF ListSessions, MarkedStale
  <1>6. ASSUME NEW b \in Backends, SetBackendState(b) PROVE WorkInv'
    BY <1>6, WorkUntouchedAll DEF SetBackendState, SameWork
  <1>7. ASSUME NEW s \in SessionIds, SessionGoesQuiet(s) PROVE WorkInv'
    <2>1. SameWork([record[s] EXCEPT !.overdue = TRUE], record[s])
      BY <1>0 DEF SameWork, SessionRecords
    <2>2. \A x \in SessionIds : SameWork(record[x], record[x])
      BY DEF SameWork
    <2>3. \A x \in SessionIds : SameWork(record'[x], record[x])
      BY <1>0, <1>7, <2>1, <2>2 DEF SessionGoesQuiet
    <2> QED BY <1>7, <2>3, WorkUntouchedAll DEF SessionGoesQuiet
  <1>8. CASE PluginReports
    <2>1. SequenceBound \in Nat /\ MaxEventsPerReport \in Nat
      BY LimitsAssumption
    <2> QED BY <1>8, <2>1, ReportWork DEF PluginReports
  <1>9. ASSUME NEW s \in SessionIds, ReportReplay(s) PROVE WorkInv'
    <2>1. delivered' = delivered
      BY <1>9 DEF ReportReplay, WorkInv
    <2> QED BY <1>9, <2>1, WorkUntouchedAll DEF ReportReplay, SameWork
  <1>10. ASSUME NEW c \in Commands, NEW s \in SessionIds, Call(c, s) PROVE WorkInv'
    BY <1>10, CallWork
  <1>11. ASSUME NEW c \in Commands, CommandTimeout(c) PROVE WorkInv'
    BY <1>11, PhaseChange DEF CommandTimeout
  <1>12. ASSUME NEW c \in Commands, CallerGone(c) PROVE WorkInv'
    BY <1>12, PhaseChange DEF CallerGone, Woken
  <1>13. ASSUME NEW c \in Commands, RemoveCommand(c) PROVE WorkInv'
    BY <1>13, RemoveWork
  <1>14. ASSUME NEW s \in SessionIds, NEW limit \in 1..MaxEvents, DrainEvents(s, limit)
         PROVE  WorkInv'
    <2> DEFINE n == Least(limit, Len(record[s].events))
               drained == [record[s] EXCEPT !.events = DropFirst(@, n), !.drained = @ + n,
                                            !.counts.retained = Len(record[s].events) - n]
    <2>1. SameWork(drained, record[s])
      <3> HIDE DEF n
      <3> QED BY <1>0 DEF SameWork, SessionRecords
    <2>2. record'[s] = drained /\ \A x \in SessionIds \ {s} : record'[x] = record[x]
      BY <1>0, <1>14 DEF DrainEvents
    <2>3. \A x \in SessionIds : SameWork(record[x], record[x])
      BY DEF SameWork
    <2> HIDE DEF drained
    <2>4. \A x \in SessionIds : SameWork(record'[x], record[x])
      BY <2>1, <2>2, <2>3
    <2> QED BY <1>14, <2>4, WorkUntouchedAll DEF DrainEvents
  <1>15. CASE UNCHANGED vars
    BY <1>15, WorkUntouchedAll DEF vars, SameWork
  <1> QED BY <1>1, <1>2, <1>3, <1>4, <1>5, <1>6, <1>7, <1>8, <1>9, <1>10, <1>11, <1>12, <1>13, <1>14,
             <1>15 DEF Next

BridgeInv == TypeOK /\ IndexInv /\ WorkInv

THEOREM BridgeInvariant == Spec => []BridgeInv
  <1>1. Init => BridgeInv
    BY TypeInit, IndexInit, WorkInit DEF BridgeInv
  <1>2. BridgeInv /\ [Next]_vars => BridgeInv'
    BY TypeStep, IndexStep, WorkStep DEF BridgeInv
  <1> QED BY <1>1, <1>2, PTL DEF Spec

\* A command is queued or leased in one place, once, in the session its call
\* named, and no caller waits for a command the broker has lost.
THEOREM LeasesConserved == Spec => []LeaseConservation
  <1>1. BridgeInv => LeaseConservation
    BY DEF BridgeInv, WorkInv, WorkOK, LeaseConservation, Held, Queued
  <1> QED BY <1>1, BridgeInvariant, PTL

\* Repeating the last report returns every leased command again.
THEOREM LeasesRecovered == Spec => []ReplayRecoversLeases
  <1>1. BridgeInv => ReplayRecoversLeases
    BY DEF BridgeInv, WorkInv, WorkOK, ReplayRecoversLeases
  <1> QED BY <1>1, BridgeInvariant, PTL

\* Nothing is queued or leased in a session without a binding.
THEOREM UnboundIdle == Spec => []UnboundHoldsNothing
  <1>1. BridgeInv => UnboundHoldsNothing
    BY DEF BridgeInv, WorkInv, WorkOK, UnboundHoldsNothing, Held, Queued
  <1> QED BY <1>1, BridgeInvariant, PTL

----------------------------------------------------------------------------
(* Answers                                                                 *)

LEMMA AnswersStep ==
  ASSUME TypeOK, WorkInv, AnswersComeFromHome, [Next]_vars
  PROVE  AnswersComeFromHome'
  <1>0. /\ call \in [Commands -> Phases] /\ home \in [Commands -> SessionIds \cup {None}]
        /\ answeredBy \in [Commands -> SessionIds \cup {None}]
    BY DEF TypeOK
  <1>1. ASSUME UNCHANGED <<home, answeredBy>>,
               \A c \in Commands : call'[c] = "answered" <=> call[c] = "answered"
        PROVE  AnswersComeFromHome'
    BY <1>1 DEF AnswersComeFromHome
  <1>2. ASSUME call' = AfterExpiry.call, UNCHANGED <<home, answeredBy>> PROVE AnswersComeFromHome'
    <2>1. \A c \in Commands : call'[c] = "answered" <=> call[c] = "answered"
      BY <1>2 DEF AfterExpiry
    <2> QED BY <1>1, <1>2, <2>1
  <1>3. ASSUME NEW s \in SessionIds, NEW q, NEW results \in SUBSET delivered, NEW n,
               Report(s, q, results, n)
        PROVE  AnswersComeFromHome'
    <2>1. \A c \in Commands : c \in Settled(s, results) => home[c] = s
      BY DEF Settled, WorkInv
    <2> QED BY <1>0, <1>3, <2>1 DEF Report, AnswersComeFromHome
  <1>4. ASSUME NEW c \in Commands, NEW s \in SessionIds, Call(c, s) PROVE AnswersComeFromHome'
    BY <1>0, <1>4 DEF Call, AnswersComeFromHome
  <1>5. ASSUME NEW c \in Commands, CommandTimeout(c) \/ CallerGone(c) \/ RemoveCommand(c)
        PROVE  AnswersComeFromHome'
    BY <1>0, <1>1, <1>5 DEF CommandTimeout, CallerGone, RemoveCommand, Woken
  <1>6. CASE PluginReports
    BY <1>3, <1>6 DEF PluginReports
  <1>7. ASSUME UNCHANGED <<call, home, answeredBy>> PROVE AnswersComeFromHome'
    BY <1>1, <1>7
  <1> QED BY <1>2, <1>4, <1>5, <1>6, <1>7
          DEF Next, vars, RegisterKnown, RegisterNew, RegisterRefused, BindSession, ListSessions, MarkedStale,
              SetBackendState, SessionGoesQuiet, ReportReplay, DrainEvents

\* The result a call returns was reported by the session the call named.
THEOREM AnswersCorrect == Spec => []AnswersComeFromHome
  <1>1. Init => AnswersComeFromHome
    BY DEF Init, AnswersComeFromHome
  <1>2. BridgeInv /\ AnswersComeFromHome /\ [Next]_vars => AnswersComeFromHome'
    BY AnswersStep DEF BridgeInv
  <1> QED BY <1>1, <1>2, BridgeInvariant, PTL DEF Spec

----------------------------------------------------------------------------
(* Limits                                                                  *)

\* The limits WorkInv does not state.
RoomInv ==
  /\ Cardinality(live) <= MaxSessions
  /\ \A s \in SessionIds : Len(record[s].events) <= MaxEvents

LEMMA RoomInit == Init => RoomInv
  <1>1. Cardinality({}) = 0 /\ Len(<<>>) = 0
    BY FS_EmptySet, EmptySeq
  <1>2. MaxSessions \in Nat /\ MaxEvents \in Nat
    BY LimitsAssumption
  <1> QED BY <1>1, <1>2 DEF Init, RoomInv, EmptyRecord

\* The sweep frees sessions and never makes a ring longer.
LEMMA RoomAfterExpiry ==
  ASSUME TypeOK, RoomInv
  PROVE  /\ IsFiniteSet(AfterExpiry.live) /\ Cardinality(AfterExpiry.live) \in Nat
         /\ Cardinality(AfterExpiry.live) <= MaxSessions
         /\ \A s \in SessionIds : Len(AfterExpiry.record[s].events) <= MaxEvents
  <1>1. /\ AfterExpiry.live \in SUBSET live
        /\ \A s \in SessionIds : AfterExpiry.record[s] \in {EmptyRecord, record[s]}
    BY DEF AfterExpiry
  <1>2. live \in SUBSET SessionIds /\ IsFiniteSet(SessionIds)
        /\ MaxSessions \in Nat /\ MaxEvents \in Nat
    BY LimitsAssumption DEF TypeOK
  <1>3. IsFiniteSet(live) /\ Cardinality(live) \in Nat
    BY <1>2, FS_Subset, FS_CardinalityType
  <1>4. /\ IsFiniteSet(AfterExpiry.live) /\ Cardinality(AfterExpiry.live) \in Nat
        /\ Cardinality(AfterExpiry.live) <= Cardinality(live)
    BY <1>1, <1>3, FS_Subset, FS_CardinalityType
  <1>5. Len(EmptyRecord.events) <= MaxEvents
    BY <1>2, EmptySeq DEF EmptyRecord
  <1> QED BY <1>1, <1>2, <1>3, <1>4, <1>5 DEF RoomInv

LEMMA RoomStep ==
  ASSUME TypeOK, RoomInv, [Next]_vars
  PROVE  RoomInv'
  <1> DEFINE kept == AfterExpiry
  <1>0. /\ kept.record \in [SessionIds -> SessionRecords]
        /\ kept.external \in [Externals -> SessionIds \cup {None}]
        /\ record \in [SessionIds -> SessionRecords]
        /\ MaxSessions \in Nat /\ MaxEvents \in Nat
    BY AfterExpiryType, LimitsAssumption DEF TypeOK
  <1>1. ASSUME NEW e \in Externals, RegisterKnown(e) PROVE RoomInv'
    <2> DEFINE t == kept.external[e]
    <2>1. live' = kept.live /\ record' = [kept.record EXCEPT ![t] = Refreshed(@)]
      BY <1>1 DEF RegisterKnown
    <2>2. \A s \in SessionIds : Refreshed(kept.record[s]).events = kept.record[s].events
      BY <1>0 DEF Refreshed, SessionRecords
    <2> HIDE DEF t, kept
    <2>3. \A s \in SessionIds : record'[s].events = kept.record[s].events
      BY <1>0, <2>1, <2>2
    <2> QED BY <2>1, <2>3, RoomAfterExpiry DEF kept, RoomInv
  <1>2. ASSUME NEW e \in Externals, NEW s \in SessionIds, RegisterNew(e, s) PROVE RoomInv'
    <2>1. /\ record' = [kept.record EXCEPT ![s] = [EmptyRecord EXCEPT !.external = e]]
          /\ live' = kept.live \cup {s} /\ Cardinality(kept.live) < MaxSessions
      BY <1>2 DEF RegisterNew
    <2>2. Len([EmptyRecord EXCEPT !.external = e].events) <= MaxEvents
      BY <1>0, EmptySeq DEF EmptyRecord
    <2> HIDE DEF kept
    <2>3. IsFiniteSet(kept.live) /\ Cardinality(kept.live) \in Nat
      BY RoomAfterExpiry DEF kept
    <2>4. Cardinality(kept.live \cup {s}) \in {Cardinality(kept.live), Cardinality(kept.live) + 1}
      BY <2>3, FS_AddElement
    <2>5. Cardinality(live') <= MaxSessions
      BY <1>0, <2>1, <2>3, <2>4, RoomAfterExpiry DEF kept
    <2>6. \A x \in SessionIds : Len(record'[x].events) <= MaxEvents
      BY <1>0, <2>1, <2>2, RoomAfterExpiry DEF kept
    <2> QED BY <2>5, <2>6 DEF RoomInv
  <1>3. ASSUME NEW e \in Externals, RegisterRefused(e) PROVE RoomInv'
    BY <1>3, RoomAfterExpiry DEF RegisterRefused, RoomInv
  <1>4. ASSUME UNCHANGED live, \A s \in SessionIds : Len(record'[s].events) <= MaxEvents
        PROVE  RoomInv'
    BY <1>4 DEF RoomInv
  <1>5. ASSUME UNCHANGED live, \A s \in SessionIds : record'[s].events = record[s].events
        PROVE  RoomInv'
    BY <1>5 DEF RoomInv
  <1>6. ASSUME NEW s \in SessionIds, NEW b \in Bindings, BindSession(s, b) PROVE RoomInv'
    BY <1>0, <1>5, <1>6 DEF BindSession, SessionRecords
  <1>7. ASSUME ListSessions PROVE RoomInv'
    BY <1>0, <1>5, <1>7 DEF ListSessions, MarkedStale, SessionRecords
  <1>8. ASSUME NEW s \in SessionIds, SessionGoesQuiet(s) PROVE RoomInv'
    BY <1>0, <1>5, <1>8 DEF SessionGoesQuiet, SessionRecords
  <1>9. ASSUME NEW s \in SessionIds, NEW q, NEW results, NEW n \in Nat, Report(s, q, results, n)
        PROVE  RoomInv'
    <2> DEFINE r == Ingested(record[s], results, n)
    <2>1. r \in SessionRecords
      BY <1>0, IngestedType
    <2>2. r.events = Ingest(record[s], n).events
      <3> DEFINE fresh == Refreshed(record[s])
      <3>1. fresh \in SessionRecords
        BY <1>0, RefreshedType
      <3> HIDE DEF fresh
      <3> QED BY <3>1 DEF Ingested, SessionRecords, fresh
    <2>3. Len(r.events) <= MaxEvents
      BY <1>0, <2>2, IngestType
    <2> HIDE DEF r
    <2>4. live' = live /\ record'[s].events = r.events /\ \A x \in SessionIds \ {s} : record'[x] = record[x]
      BY <1>0, <1>9, <2>1 DEF Report, SessionRecords, r
    <2> QED BY <1>4, <2>3, <2>4 DEF RoomInv
  <1>10. ASSUME NEW c \in Commands, NEW s \in SessionIds, Call(c, s) PROVE RoomInv'
    BY <1>0, <1>5, <1>10 DEF Call, SessionRecords
  <1>11. ASSUME NEW c \in Commands, RemoveCommand(c) PROVE RoomInv'
    <2>1. \A s \in SessionIds : Removed(record[s], c).events = record[s].events
      BY <1>0 DEF Removed, SessionRecords
    <2> QED BY <1>0, <1>5, <1>11, <2>1 DEF RemoveCommand
  <1>12. ASSUME NEW s \in SessionIds, NEW limit \in 1..MaxEvents, DrainEvents(s, limit) PROVE RoomInv'
    <2> DEFINE n == Least(limit, Len(record[s].events))
    <2>1. record[s].events \in Seq(Nat) /\ Len(record[s].events) \in Nat /\ limit \in Nat
      BY <1>0, LenProperties DEF SessionRecords
    <2>2. n \in 0..Len(record[s].events)
      BY <2>1 DEF Least
    <2>3. Len(DropFirst(record[s].events, n)) <= Len(record[s].events)
      BY <2>1, <2>2, DropFirstProperties
    <2>4. Len(DropFirst(record[s].events, n)) \in Nat
      BY <2>1, <2>2, DropFirstProperties, LenProperties
    <2>5. /\ live' = live /\ record'[s].events = DropFirst(record[s].events, n)
          /\ \A x \in SessionIds \ {s} : record'[x] = record[x]
      <3> HIDE DEF n
      <3> QED BY <1>0, <1>12 DEF DrainEvents, SessionRecords, n
    <2> HIDE DEF n
    <2>6. Len(record'[s].events) <= MaxEvents
      BY <1>0, <2>1, <2>3, <2>4, <2>5 DEF RoomInv
    <2> QED BY <1>4, <2>5, <2>6 DEF RoomInv
  <1>13. ASSUME UNCHANGED <<live, record>> PROVE RoomInv'
    BY <1>13 DEF RoomInv
  <1>14. CASE PluginReports
    <2>1. 0..MaxEventsPerReport \subseteq Nat
      BY LimitsAssumption
    <2> QED BY <1>9, <1>14, <2>1 DEF PluginReports
  <1> QED BY <1>1, <1>2, <1>3, <1>6, <1>7, <1>8, <1>10, <1>11, <1>12, <1>13, <1>14
          DEF Next, vars, SetBackendState, ReportReplay, CommandTimeout, CallerGone

\* Sessions, pending commands, leases and retained events stay within the
\* limits, which different operations enforce.
THEOREM LimitsCorrect == Spec => []LimitsRespected
  <1>1. TypeOK /\ RoomInv /\ [Next]_vars => RoomInv'
    BY RoomStep
  <1>2. BridgeInv /\ RoomInv => LimitsRespected
    BY DEF BridgeInv, WorkInv, WorkOK, RoomInv, LimitsRespected
  <1>3. Spec => []TypeOK
    BY TypeCorrect
  <1> QED BY RoomInit, <1>1, <1>2, <1>3, BridgeInvariant, PTL DEF Spec

=============================================================================
