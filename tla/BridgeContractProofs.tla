------------------------ MODULE BridgeContractProofs ------------------------
(***************************************************************************)
(* More about StudioBridge for every value of its constants: the broker    *)
(* implements CommandLeases, its counts and event rings are exact, and a   *)
(* session that is heard from keeps its identity.                          *)
(***************************************************************************)
EXTENDS StudioBridgeProofs

----------------------------------------------------------------------------
(* The refinement                                                          *)

\* The refinement mapping of Contract, named.
StageOf(c) ==
  IF call[c] = "new" THEN "new"
  ELSE IF c \in Queued(home[c]) THEN "queued"
  ELSE IF c \in record[home[c]].inFlight THEN "leased" ELSE "out"
VerdictOf(c) ==
  CASE call[c] = "answered" -> "result"
    [] call[c] \in {"failed", "abandoned"} -> call[c]
    [] OTHER -> "none"
StageNow == [c \in Commands |-> StageOf(c)]
VerdictNow == [c \in Commands |-> VerdictOf(c)]

\* A call that was made names a session.
HomeInv == \A c \in Commands : call[c] # "new" => home[c] \in SessionIds

LEMMA HomeStep ==
  ASSUME TypeOK, HomeInv, [Next]_vars
  PROVE  HomeInv'
  <1>0. call \in [Commands -> Phases] /\ home \in [Commands -> SessionIds \cup {None}]
    BY DEF TypeOK
  <1>1. ASSUME home' = home, \A c \in Commands : call'[c] = "new" <=> call[c] = "new" PROVE HomeInv'
    BY <1>1 DEF HomeInv
  <1>2. ASSUME call' = AfterExpiry.call, home' = home PROVE HomeInv'
    <2>1. \A c \in Commands : call'[c] = "new" <=> call[c] = "new"
      BY <1>2 DEF AfterExpiry
    <2> QED BY <1>1, <1>2, <2>1
  <1>3. CASE PluginReports
    <2>1. PICK s \in SessionIds, q \in 0..SequenceBound, results \in SUBSET delivered,
               n \in 0..MaxEventsPerReport : Report(s, q, results, n)
      BY <1>3 DEF PluginReports
    <2> QED BY <1>0, <1>1, <2>1 DEF Report
  <1>4. ASSUME NEW c \in Commands, NEW s \in SessionIds, Call(c, s) PROVE HomeInv'
    BY <1>0, <1>4 DEF Call, HomeInv
  <1>5. ASSUME NEW c \in Commands, CommandTimeout(c) \/ CallerGone(c) \/ RemoveCommand(c)
        PROVE  HomeInv'
    BY <1>0, <1>1, <1>5 DEF CommandTimeout, CallerGone, RemoveCommand, Woken
  <1>6. ASSUME UNCHANGED <<call, home>> PROVE HomeInv'
    BY <1>1, <1>6
  <1> QED BY <1>2, <1>3, <1>4, <1>5, <1>6
          DEF Next, vars, RegisterKnown, RegisterNew, RegisterRefused, BindSession, ListSessions,
              SetBackendState, SessionGoesQuiet, ReportReplay, DrainEvents

\* The actions of the contract over the mapped state.
LEMMA MappedSubmit ==
  ASSUME NEW c \in Commands, StageNow[c] = "new",
         StageNow' = [StageNow EXCEPT ![c] = "queued"], VerdictNow' = VerdictNow
  PROVE  Contract!Submit(c)
  BY DEF Contract!Submit, StageNow, VerdictNow, StageOf, VerdictOf

LEMMA MappedFail ==
  ASSUME NEW c \in Commands, VerdictNow[c] = "none", StageNow[c] # "new",
         VerdictNow' = [VerdictNow EXCEPT ![c] = "failed"],
         StageNow' = [StageNow EXCEPT ![c] = "out"]
  PROVE  Contract!Fail(c)
  BY DEF Contract!Fail, StageNow, VerdictNow, StageOf, VerdictOf

LEMMA MappedAbandon ==
  ASSUME NEW c \in Commands, VerdictNow[c] = "none", StageNow[c] # "new",
         VerdictNow' = [VerdictNow EXCEPT ![c] = "abandoned"], StageNow' = StageNow
  PROVE  Contract!Abandon(c)
  BY DEF Contract!Abandon, StageNow, VerdictNow, StageOf, VerdictOf

LEMMA MappedRevoke ==
  ASSUME NEW S \in SUBSET Commands, \A c \in S : StageNow[c] \in {"queued", "leased"},
         StageNow' = [c \in Commands |-> IF c \in S THEN "out" ELSE StageNow[c]],
         VerdictNow' = VerdictNow
  PROVE  Contract!Revoke(S)
  BY DEF Contract!Revoke, Contract!Held, Contract!Moved, StageNow, VerdictNow, StageOf, VerdictOf

LEMMA MappedExchange ==
  ASSUME NEW settled \in SUBSET Commands, NEW granted \in SUBSET Commands,
         NEW late \in SUBSET settled,
         \A c \in settled : StageNow[c] = "leased",
         \A c \in granted : StageNow[c] = "queued",
         StageNow' = [c \in Commands |-> IF c \in settled THEN "out"
                                         ELSE IF c \in granted THEN "leased" ELSE StageNow[c]],
         VerdictNow' = [c \in Commands |-> IF c \in settled \ late /\ VerdictNow[c] = "none"
                                           THEN "result" ELSE VerdictNow[c]]
  PROVE  Contract!Exchange(settled, granted, late)
  BY DEF Contract!Exchange, StageNow, VerdictNow, StageOf, VerdictOf

MappedVars == <<StageNow, VerdictNow>>


\* What an action that hands no command on has to keep.
LEMMA StageKept ==
  ASSUME TypeOK, HomeInv, home' = home,
         \A c \in Commands : call'[c] = "new" <=> call[c] = "new",
         \A s \in SessionIds : /\ record'[s].queued = record[s].queued
                               /\ record'[s].inFlight = record[s].inFlight
  PROVE  StageNow' = StageNow
  BY DEF HomeInv, StageNow, StageOf, Queued

LEMMA VerdictKept ==
  ASSUME \A c \in Commands : VerdictOf(c)' = VerdictOf(c)
  PROVE  VerdictNow' = VerdictNow
  BY DEF VerdictNow

LEMMA MappedIdle ==
  ASSUME TypeOK, HomeInv, UNCHANGED <<call, home>>,
         \A s \in SessionIds : SameWork(record'[s], record[s])
  PROVE  UNCHANGED MappedVars
  <1>1. StageNow' = StageNow
    BY StageKept DEF SameWork
  <1>2. VerdictNow' = VerdictNow
    BY DEF VerdictNow, VerdictOf
  <1> QED BY <1>1, <1>2 DEF MappedVars

\* A command without a responder is neither queued nor leased.
LEMMA HeldHasResponder ==
  ASSUME WorkInv, NEW s \in SessionIds
  PROVE  /\ record[s].responders = Queued(s) \cup record[s].inFlight
         /\ Queued(s) \cap record[s].inFlight = {}
         /\ \A c \in record[s].responders :
              home[c] = s /\ call[c] \in {"waiting", "timedOut", "abandoned"}
  BY DEF WorkInv, WorkOK, Queued

\* The sweep of register takes the commands of the sessions it drops with it.
LEMMA SweepRevokes ==
  ASSUME TypeOK, WorkInv, HomeInv, call' = AfterExpiry.call, home' = home,
         \A s \in SessionIds : SameWork(record'[s], AfterExpiry.record[s])
  PROVE  \E S \in SUBSET Commands : Contract!Revoke(S)
  <1>0. /\ live \subseteq SessionIds /\ call \in [Commands -> Phases]
        /\ \A s \in SessionIds : record[s].responders \subseteq Commands
    BY DEF TypeOK, SessionRecords
  <1>1. Orphans \in SUBSET Commands /\ \A c \in Orphans : home[c] \in Expired
    BY <1>0, HeldHasResponder DEF Orphans, Expired
  <1>2. \A c \in Orphans : StageNow[c] \in {"queued", "leased"}
    <2> SUFFICES ASSUME NEW c \in Orphans PROVE StageNow[c] \in {"queued", "leased"}
      OBVIOUS
    <2>1. PICK s \in Expired : c \in record[s].responders
      BY DEF Orphans
    <2>2. s \in SessionIds
      BY <1>0 DEF Expired
    <2>3. home[c] = s /\ call[c] # "new" /\ c \in Queued(s) \cup record[s].inFlight
      BY <2>1, <2>2, HeldHasResponder
    <2> QED BY <1>1, <2>3 DEF StageNow, StageOf
  <1>3. \A c \in Commands : (call'[c] = "new" <=> call[c] = "new") /\ VerdictOf(c)' = VerdictOf(c)
    BY <1>0 DEF AfterExpiry, VerdictOf
  <1>4. ASSUME NEW c \in Commands
        PROVE  StageOf(c)' = IF c \in Orphans THEN "out" ELSE StageOf(c)
    <2>1. CASE call[c] = "new"
      <3>1. c \notin Orphans
        BY <1>0, <2>1, HeldHasResponder DEF Orphans, Expired
      <3> QED BY <1>3, <2>1, <3>1 DEF StageOf
    <2>2. CASE call[c] # "new"
      <3> DEFINE h == home[c]
      <3>1. h \in SessionIds /\ home'[c] = h /\ call'[c] # "new"
        BY <1>3, <2>2 DEF HomeInv
      <3>2. CASE h \in Expired
        <4>1. record'[h].queued = <<>> /\ record'[h].inFlight = {}
          BY <3>1, <3>2 DEF AfterExpiry, SameWork, EmptyRecord
        <4>2. StageOf(c)' = "out"
          BY <3>1, <4>1 DEF StageOf, Queued, ToSet
        <4>3. CASE c \in Orphans
          BY <4>2, <4>3
        <4>4. CASE c \notin Orphans
          <5>1. c \notin record[h].responders
            BY <3>2, <4>4 DEF Orphans
          <5>2. StageOf(c) = "out"
            BY <2>2, <3>1, <5>1, HeldHasResponder DEF StageOf
          <5> QED BY <4>2, <4>4, <5>2
        <4> QED BY <4>3, <4>4
      <3>3. CASE h \notin Expired
        <4>1. record'[h].queued = record[h].queued /\ record'[h].inFlight = record[h].inFlight
          BY <3>1, <3>3 DEF AfterExpiry, SameWork
        <4>2. c \notin Orphans
          BY <1>1, <3>3
        <4> QED BY <2>2, <3>1, <4>1, <4>2 DEF StageOf, Queued
      <3> QED BY <3>2, <3>3
    <2> QED BY <2>1, <2>2
  <1>5. StageNow' = [c \in Commands |-> IF c \in Orphans THEN "out" ELSE StageNow[c]]
    BY <1>4 DEF StageNow
  <1>6. VerdictNow' = VerdictNow
    BY <1>3, VerdictKept
  <1>7. PICK S \in SUBSET Commands : S = Orphans
    BY <1>1
  <1>8. Contract!Revoke(S)
    BY <1>2, <1>5, <1>6, <1>7, MappedRevoke
  <1> QED BY <1>7, <1>8

\* A fresh report settles leases and grants queued commands in one exchange.
LEMMA ReportExchanges ==
  ASSUME TypeOK, WorkInv, HomeInv,
         NEW s \in SessionIds, NEW q, NEW results \in SUBSET delivered, NEW n \in Nat,
         Report(s, q, results, n)
  PROVE  \E settled, granted \in SUBSET Commands :
           \E late \in SUBSET settled : Contract!Exchange(settled, granted, late)
  <1> DEFINE w == Ingested(record[s], results, n)
             settled == results \cap record[s].inFlight
             granted == ToSet(record[s].queued) \ ToSet(w.queued)
             late == {c \in settled : call[c] = "timedOut"}
  <1>0. /\ record \in [SessionIds -> SessionRecords] /\ call \in [Commands -> Phases]
        /\ delivered \subseteq Commands /\ record[s].responders \subseteq Commands
    BY DEF TypeOK, SessionRecords
  <1>1. /\ results \in SUBSET Commands /\ results \cap ToSet(record[s].queued) = {}
        /\ WorkOK(record[s]) /\ record[s] \in SessionRecords
    BY <1>0 DEF WorkInv
  <1>2. /\ ToSet(w.queued) \subseteq ToSet(record[s].queued)
        /\ ToSet(w.queued) \cap w.inFlight = {}
        /\ w.responders = ToSet(w.queued) \cup w.inFlight
        /\ w.responders = record[s].responders \ results
        /\ w \in SessionRecords
    <2>1. w \in SessionRecords
      BY <1>1, IngestedType
    <2> HIDE DEF settled, granted, late
    <2>2. /\ \A i, j \in DOMAIN w.queued : w.queued[i] = w.queued[j] => i = j
          /\ ToSet(w.queued) \subseteq ToSet(record[s].queued)
          /\ ToSet(w.queued) \cap w.inFlight = {}
          /\ w.responders = ToSet(w.queued) \cup w.inFlight
          /\ w.responders = record[s].responders \ results
          /\ w.binding = record[s].binding
          /\ Cardinality(w.inFlight) <= MaxCommandsPerReport
          /\ Len(w.queued) + Cardinality(w.inFlight) <= MaxPending
      BY <1>0, <1>1, IngestedWork
    <2> QED BY <2>1, <2>2
  <1>3. /\ record[s].responders = ToSet(record[s].queued) \cup record[s].inFlight
        /\ ToSet(record[s].queued) \cap record[s].inFlight = {}
        /\ \A c \in record[s].responders :
             home[c] = s /\ call[c] \in {"waiting", "timedOut", "abandoned"}
    BY HeldHasResponder DEF Queued
  <1>4. /\ record'[s].queued = w.queued /\ record'[s].inFlight = w.inFlight
        /\ \A x \in SessionIds \ {s} : record'[x] = record[x]
    <2> HIDE DEF w
    <2> QED BY <1>0, <1>2 DEF Report, SessionRecords, w
  <1>5. /\ home' = home
        /\ \A c \in Commands : call'[c] = IF c \in settled /\ call[c] = "waiting"
                                           THEN "answered" ELSE call[c]
    <2>1. Settled(s, results) = settled
      BY <1>1, <1>3 DEF Settled
    <2> QED BY <2>1 DEF Report
  <1> HIDE DEF w
  <1>6. /\ settled \in SUBSET Commands /\ granted \in SUBSET Commands /\ late \in SUBSET settled
        /\ settled \cap granted = {} /\ settled \cup granted \subseteq record[s].responders
    BY <1>0, <1>3
  <1>7. /\ \A c \in settled : StageNow[c] = "leased"
        /\ \A c \in granted : StageNow[c] = "queued"
    <2>1. \A c \in settled \cup granted : home[c] = s /\ call[c] # "new" /\ c \in Commands
      BY <1>3, <1>6
    <2> QED BY <1>3, <2>1 DEF StageNow, StageOf, Queued
  <1>8. ASSUME NEW c \in Commands
        PROVE  StageOf(c)' = IF c \in settled THEN "out"
                             ELSE IF c \in granted THEN "leased" ELSE StageOf(c)
    <2>1. call'[c] = "new" <=> call[c] = "new"
      BY <1>5
    <2>2. CASE home[c] = s /\ call[c] # "new"
      <3>1. /\ c \in settled => c \notin ToSet(w.queued) /\ c \notin w.inFlight
            /\ c \in granted => c \notin ToSet(w.queued) /\ c \in w.inFlight
        BY <1>1, <1>2, <1>3
      <3>2. ASSUME c \notin settled, c \notin granted
            PROVE  /\ c \in ToSet(w.queued) <=> c \in ToSet(record[s].queued)
                   /\ c \notin ToSet(w.queued) => (c \in w.inFlight <=> c \in record[s].inFlight)
        BY <1>1, <1>2, <1>3, <3>2
      <3> HIDE DEF settled, granted
      <3> QED BY <1>4, <1>5, <1>6, <2>1, <2>2, <3>1, <3>2 DEF StageOf, Queued
    <2>3. CASE home[c] # s /\ call[c] # "new"
      <3>1. c \notin settled /\ c \notin granted
        BY <1>3, <1>6, <2>3
      <3>2. home[c] \in SessionIds \ {s}
        BY <2>3 DEF HomeInv
      <3> QED BY <1>4, <1>5, <2>1, <2>3, <3>1, <3>2 DEF StageOf, Queued
    <2>4. CASE call[c] = "new"
      <3>1. c \notin settled /\ c \notin granted
        BY <1>3, <1>6, <2>4
      <3> QED BY <2>1, <2>4, <3>1 DEF StageOf
    <2> QED BY <2>2, <2>3, <2>4
  <1>9. ASSUME NEW c \in Commands
        PROVE  VerdictOf(c)' = IF c \in settled \ late /\ VerdictOf(c) = "none"
                               THEN "result" ELSE VerdictOf(c)
    <2>1. c \in settled => call[c] \in {"waiting", "timedOut", "abandoned"}
      BY <1>3, <1>6
    <2> HIDE DEF settled
    <2> QED BY <1>5, <2>1 DEF VerdictOf
  <1>10. StageNow' = [c \in Commands |-> IF c \in settled THEN "out"
                                          ELSE IF c \in granted THEN "leased" ELSE StageNow[c]]
    <2> HIDE DEF settled, granted
    <2> QED BY <1>8 DEF StageNow
  <1>11. VerdictNow' = [c \in Commands |-> IF c \in settled \ late /\ VerdictNow[c] = "none"
                                            THEN "result" ELSE VerdictNow[c]]
    <2> HIDE DEF settled, late
    <2> QED BY <1>9 DEF VerdictNow
  <1> HIDE DEF settled, granted, late
  <1>12. PICK S \in SUBSET Commands, G \in SUBSET Commands, L \in SUBSET Commands :
           L \subseteq S /\ S = settled /\ G = granted /\ L = late
    BY <1>6
  <1>13. Contract!Exchange(S, G, L)
    BY <1>7, <1>10, <1>11, <1>12, MappedExchange
  <1> QED BY <1>12, <1>13


LEMMA CallSubmits ==
  ASSUME TypeOK, WorkInv, HomeInv, NEW c \in Commands, NEW s \in SessionIds, Call(c, s)
  PROVE  Contract!Submit(c)
  <1> DEFINE w == [record[s] EXCEPT !.queued = Append(@, c),
                                    !.responders = @ \cup {c},
                                    !.counts.queued = Len(record[s].queued) + 1]
  <1>0. /\ record \in [SessionIds -> SessionRecords] /\ call \in [Commands -> Phases]
        /\ home \in [Commands -> SessionIds \cup {None}] /\ record[s] \in SessionRecords
    BY DEF TypeOK
  <1>1. call[c] = "new" /\ record[s].binding # None /\ HasRoom(record[s])
    BY DEF Call
  <1>2. c \in Commands \ record[s].responders /\ WorkOK(record[s])
    BY <1>1 DEF WorkInv
  <1>3. ToSet(w.queued) = ToSet(record[s].queued) \cup {c} /\ w.inFlight = record[s].inFlight
    <2>1. w.inFlight = record[s].inFlight
      BY <1>0 DEF SessionRecords
    <2> QED BY <1>0, <1>1, <1>2, <2>1, CalledWork
  <1>4. /\ record'[s] = w /\ \A x \in SessionIds \ {s} : record'[x] = record[x]
        /\ \A d \in Commands \ {c} : call'[d] = call[d] /\ home'[d] = home[d]
        /\ call'[c] = "waiting" /\ home'[c] = s
    BY <1>0 DEF Call
  <1> HIDE DEF w
  <1>5. StageOf(c) = "new" /\ StageOf(c)' = "queued" /\ VerdictOf(c) = "none" /\ VerdictOf(c)' = "none"
    BY <1>1, <1>3, <1>4 DEF StageOf, VerdictOf, Queued
  <1>6. ASSUME NEW d \in Commands \ {c}
        PROVE  StageOf(d)' = StageOf(d) /\ VerdictOf(d)' = VerdictOf(d)
    <2>1. VerdictOf(d)' = VerdictOf(d)
      BY <1>4 DEF VerdictOf
    <2>2. CASE call[d] = "new"
      BY <1>4, <2>1, <2>2 DEF StageOf
    <2>3. CASE call[d] # "new"
      <3>1. home[d] \in SessionIds
        BY <2>3 DEF HomeInv
      <3>2. /\ d \in Queued(home[d])' <=> d \in Queued(home[d])
            /\ record'[home[d]].inFlight = record[home[d]].inFlight
        BY <1>3, <1>4, <3>1 DEF Queued
      <3> QED BY <1>4, <2>1, <2>3, <3>2 DEF StageOf, Queued
    <2> QED BY <2>2, <2>3
  <1>7. StageNow' = [StageNow EXCEPT ![c] = "queued"]
    BY <1>5, <1>6 DEF StageNow
  <1>8. VerdictNow' = VerdictNow
    BY <1>5, <1>6, VerdictKept
  <1> QED BY <1>5, <1>7, <1>8, MappedSubmit DEF StageNow

LEMMA GoneAbandons ==
  ASSUME TypeOK, HomeInv, NEW c \in Commands, CallerGone(c)
  PROVE  Contract!Abandon(c)
  <1>1. /\ call \in [Commands -> Phases] /\ call[c] \in {"waiting", "timedOut", "closed"}
        /\ call' = [call EXCEPT ![c] = "abandoned"] /\ record' = record /\ home' = home
    BY DEF CallerGone, Woken, TypeOK
  <1>2. StageNow' = StageNow
    BY <1>1, StageKept
  <1>3. StageNow[c] # "new"
    BY <1>1 DEF StageNow, StageOf
  <1>4. VerdictNow[c] = "none" /\ VerdictNow' = [VerdictNow EXCEPT ![c] = "abandoned"]
    BY <1>1 DEF VerdictNow, VerdictOf
  <1> QED BY <1>2, <1>3, <1>4, MappedAbandon

LEMMA RemoveFails ==
  ASSUME TypeOK, IndexInv, WorkInv, HomeInv, NEW c \in Commands, RemoveCommand(c)
  PROVE  Contract!Fail(c)
  <1> DEFINE h == home[c]
  <1>1. /\ call \in [Commands -> Phases] /\ call[c] \in {"timedOut", "closed"}
        /\ call' = [call EXCEPT ![c] = "failed"] /\ home' = home
        /\ record \in [SessionIds -> SessionRecords]
    BY DEF RemoveCommand, Woken, TypeOK
  <1>2. h \in SessionIds
    BY <1>1 DEF HomeInv
  <1>3. \A x \in SessionIds \ {h} : record'[x] = record[x]
    BY <1>1 DEF RemoveCommand
  <1>4. /\ ToSet(record'[h].queued) = ToSet(record[h].queued) \ {c}
        /\ record'[h].inFlight = record[h].inFlight \ {c}
    <2>1. CASE h \in live
      <3>1. record'[h] = Removed(record[h], c) /\ record[h] \in SessionRecords /\ WorkOK(record[h])
        BY <1>1, <1>2, <2>1 DEF RemoveCommand, WorkInv
      <3>2. Removed(record[h], c).inFlight = record[h].inFlight \ {c}
        BY <3>1 DEF Removed, SessionRecords
      <3>3. ToSet(Removed(record[h], c).queued) = ToSet(record[h].queued) \ {c}
        BY <3>1, RemovedWork
      <3> QED BY <3>1, <3>2, <3>3
    <2>2. CASE h \notin live
      <3>1. record'[h] = record[h] /\ record[h] = EmptyRecord
        BY <1>2, <2>2 DEF RemoveCommand, IndexInv, IdsFresh
      <3> QED BY <3>1 DEF EmptyRecord, ToSet
    <2> QED BY <2>1, <2>2
  <1>5. StageOf(c)' = "out" /\ StageOf(c) # "new" /\ VerdictOf(c) = "none" /\ VerdictOf(c)' = "failed"
    BY <1>1, <1>2, <1>4 DEF StageOf, VerdictOf, Queued
  <1>6. ASSUME NEW d \in Commands \ {c}
        PROVE  StageOf(d)' = StageOf(d) /\ VerdictOf(d)' = VerdictOf(d)
    <2>1. VerdictOf(d)' = VerdictOf(d)
      BY <1>1 DEF VerdictOf
    <2>2. CASE call[d] = "new"
      BY <1>1, <2>1, <2>2 DEF StageOf
    <2>3. CASE call[d] # "new"
      <3>1. home[d] \in SessionIds
        BY <2>3 DEF HomeInv
      <3>2. /\ d \in ToSet(record'[home[d]].queued) <=> d \in ToSet(record[home[d]].queued)
            /\ d \in record'[home[d]].inFlight <=> d \in record[home[d]].inFlight
        <4>1. CASE home[d] = h
          BY <1>4, <4>1
        <4>2. CASE home[d] # h
          BY <1>3, <3>1, <4>2
        <4> QED BY <4>1, <4>2
      <3> QED BY <1>1, <2>1, <2>3, <3>2 DEF StageOf, Queued
    <2> QED BY <2>2, <2>3
  <1>7. StageNow' = [StageNow EXCEPT ![c] = "out"]
    BY <1>5, <1>6 DEF StageNow
  <1>8. VerdictNow' = [VerdictNow EXCEPT ![c] = "failed"]
    BY <1>5, <1>6 DEF VerdictNow
  <1> QED BY <1>5, <1>7, <1>8, MappedFail DEF StageNow, VerdictNow

LEMMA RefinementInit == Init => Contract!Init
  BY DEF Init, Contract!Init

\* Every step of the broker is a step of the contract, or none.
LEMMA RefinementStep ==
  ASSUME BridgeInv, HomeInv, [Next]_vars
  PROVE  Contract!Next \/ UNCHANGED MappedVars
  <1>0. TypeOK /\ IndexInv /\ WorkInv
    BY DEF BridgeInv
  <1>1. /\ record \in [SessionIds -> SessionRecords] /\ call \in [Commands -> Phases]
        /\ AfterExpiry.record \in [SessionIds -> SessionRecords]
        /\ AfterExpiry.external \in [Externals -> SessionIds \cup {None}]
        /\ \A x \in SessionIds : SameWork(record[x], record[x])
        /\ \A x \in SessionIds : SameWork(AfterExpiry.record[x], AfterExpiry.record[x])
        /\ \A x \in SessionIds \ AfterExpiry.live : AfterExpiry.record[x] = EmptyRecord
    BY <1>0, AfterExpiryType, ExpiryIndex DEF TypeOK, SameWork
  <1>2. ASSUME call' = AfterExpiry.call, home' = home,
               \A s \in SessionIds : SameWork(record'[s], AfterExpiry.record[s])
        PROVE  Contract!Next
    BY <1>0, <1>2, SweepRevokes DEF Contract!Next
  <1>3. ASSUME UNCHANGED <<call, home>>, \A s \in SessionIds : SameWork(record'[s], record[s])
        PROVE  UNCHANGED MappedVars
    BY <1>0, <1>3, MappedIdle
  <1>4. ASSUME NEW e \in Externals, RegisterKnown(e) PROVE Contract!Next
    <2> DEFINE t == AfterExpiry.external[e]
    <2>1. /\ record' = [AfterExpiry.record EXCEPT ![t] = Refreshed(@)]
          /\ call' = AfterExpiry.call /\ home' = home
      BY <1>4 DEF RegisterKnown
    <2>2. t \in SessionIds
      BY <1>1, <1>4 DEF RegisterKnown
    <2>3. SameWork(Refreshed(AfterExpiry.record[t]), AfterExpiry.record[t])
      BY <1>1, <2>2 DEF SameWork, Refreshed, SessionRecords
    <2> HIDE DEF t
    <2>4. \A s \in SessionIds : SameWork(record'[s], AfterExpiry.record[s])
      BY <1>1, <2>1, <2>3
    <2> QED BY <1>2, <2>1, <2>4
  <1>5. ASSUME NEW e \in Externals, NEW s \in SessionIds, RegisterNew(e, s) PROVE Contract!Next
    <2>1. /\ record' = [AfterExpiry.record EXCEPT ![s] = [EmptyRecord EXCEPT !.external = e]]
          /\ call' = AfterExpiry.call /\ home' = home /\ s \notin issued
      BY <1>5 DEF RegisterNew
    <2>2. s \notin AfterExpiry.live
      BY <1>0, <2>1, ExpiryIndex DEF IndexInv, IdsFresh
    <2>3. SameWork([EmptyRecord EXCEPT !.external = e], EmptyRecord)
      BY DEF SameWork, EmptyRecord
    <2>4. \A x \in SessionIds : SameWork(record'[x], AfterExpiry.record[x])
      BY <1>1, <2>1, <2>2, <2>3
    <2> QED BY <1>2, <2>1, <2>4
  <1>6. ASSUME NEW e \in Externals, RegisterRefused(e) PROVE Contract!Next
    BY <1>1, <1>2, <1>6 DEF RegisterRefused
  <1>7. ASSUME NEW s \in SessionIds, NEW b \in Bindings, BindSession(s, b) PROVE UNCHANGED MappedVars
    <2>1. b # None
      BY NoneAssumption
    <2>2. SameWork([record[s] EXCEPT !.binding = b, !.state = "Bound"], record[s])
      BY <1>1, <2>1 DEF SameWork, SessionRecords
    <2> QED BY <1>1, <1>3, <1>7, <2>2 DEF BindSession
  <1>8. ASSUME ListSessions PROVE UNCHANGED MappedVars
    <2>1. \A x \in SessionIds : SameWork([record[x] EXCEPT !.state = "Stale"], record[x])
      BY <1>1 DEF SameWork, SessionRecords
    <2> QED BY <1>1, <1>3, <1>8, <2>1 DEF ListSessions, MarkedStale
  <1>9. ASSUME NEW s \in SessionIds, SessionGoesQuiet(s) PROVE UNCHANGED MappedVars
    <2>1. SameWork([record[s] EXCEPT !.overdue = TRUE], record[s])
      BY <1>1 DEF SameWork, SessionRecords
    <2> QED BY <1>1, <1>3, <1>9, <2>1 DEF SessionGoesQuiet
  <1>10. CASE PluginReports
    <2>1. PICK s \in SessionIds, q \in 0..SequenceBound, results \in SUBSET delivered,
               n \in 0..MaxEventsPerReport : Report(s, q, results, n)
      BY <1>10 DEF PluginReports
    <2>2. n \in Nat
      BY LimitsAssumption
    <2> QED BY <1>0, <2>1, <2>2, ReportExchanges DEF Contract!Next
  <1>11. ASSUME NEW c \in Commands, NEW s \in SessionIds, Call(c, s) PROVE Contract!Next
    BY <1>0, <1>11, CallSubmits DEF Contract!Next
  <1>12. ASSUME NEW c \in Commands, CommandTimeout(c) PROVE UNCHANGED MappedVars
    <2>1. /\ call[c] = "waiting" /\ call' = [call EXCEPT ![c] = "timedOut"]
          /\ home' = home /\ record' = record
      BY <1>12 DEF CommandTimeout
    <2>2. StageNow' = StageNow
      BY <1>0, <1>1, <2>1, StageKept
    <2>3. \A d \in Commands : VerdictOf(d)' = VerdictOf(d)
      BY <1>1, <2>1 DEF VerdictOf
    <2> QED BY <2>2, <2>3, VerdictKept DEF MappedVars
  <1>13. ASSUME NEW c \in Commands, CallerGone(c) PROVE Contract!Next
    BY <1>0, <1>13, GoneAbandons DEF Contract!Next
  <1>14. ASSUME NEW c \in Commands, RemoveCommand(c) PROVE Contract!Next
    BY <1>0, <1>14, RemoveFails DEF Contract!Next
  <1>15. ASSUME NEW s \in SessionIds, NEW limit \in 1..MaxEvents, DrainEvents(s, limit)
         PROVE  UNCHANGED MappedVars
    <2> DEFINE n == Least(limit, Len(record[s].events))
               w == [record[s] EXCEPT !.events = DropFirst(@, n), !.drained = @ + n,
                                      !.counts.retained = Len(record[s].events) - n]
    <2>1. SameWork(w, record[s])
      <3> HIDE DEF n
      <3> QED BY <1>1 DEF SameWork, SessionRecords
    <2>2. record'[s] = w /\ \A x \in SessionIds \ {s} : record'[x] = record[x]
      BY <1>1, <1>15 DEF DrainEvents
    <2> HIDE DEF w
    <2>3. \A x \in SessionIds : SameWork(record'[x], record[x])
      BY <1>1, <2>1, <2>2
    <2> QED BY <1>3, <1>15, <2>3 DEF DrainEvents
  <1>16. ASSUME UNCHANGED <<record, call, home>> PROVE UNCHANGED MappedVars
    BY <1>1, <1>3, <1>16
  <1> QED BY <1>4, <1>5, <1>6, <1>7, <1>8, <1>9, <1>10, <1>11, <1>12, <1>13, <1>14, <1>15, <1>16
          DEF Next, vars, SetBackendState, ReportReplay

\* What the broker promises its callers holds for every number of commands,
\* sessions and every limit: a command is submitted once, leased at most once,
\* leaves once and never returns, and its caller gets at most one verdict.
THEOREM BrokerImplementsContract == Spec => ImplementsCommandLeases
  <1>1. Init => HomeInv
    BY DEF Init, HomeInv
  <1>2. BridgeInv /\ HomeInv /\ [Next]_vars => HomeInv'
    BY HomeStep DEF BridgeInv
  <1>3. Init => Contract!Init
    BY RefinementInit
  <1>4. BridgeInv /\ HomeInv /\ [Next]_vars => Contract!Next \/ UNCHANGED MappedVars
    BY RefinementStep
  <1>5. UNCHANGED MappedVars <=> UNCHANGED <<StageNow, VerdictNow>>
    BY DEF MappedVars
  <1> QED BY <1>1, <1>2, <1>3, <1>4, <1>5, BridgeInvariant, PTL
          DEF Spec, ImplementsCommandLeases, Contract!Spec, StageNow, VerdictNow, StageOf, VerdictOf

----------------------------------------------------------------------------
(* The counts and the event ring                                           *)

\* What the counts and the ring of one session satisfy.
Accounted(r) ==
  /\ r.counts = CountsOf(r)
  /\ r.accepted = r.drained + r.dropped + Len(r.events)
  /\ \A i \in 1..Len(r.events) : r.events[i] = r.accepted - Len(r.events) + i

AccountInv == \A s \in SessionIds : Accounted(record[s])

SameAccount(r, o) ==
  /\ r.queued = o.queued /\ r.inFlight = o.inFlight /\ r.events = o.events
  /\ r.accepted = o.accepted /\ r.drained = o.drained /\ r.dropped = o.dropped
  /\ r.counts = o.counts

LEMMA SameAccounted ==
  ASSUME NEW r, NEW o, Accounted(o), SameAccount(r, o)
  PROVE  Accounted(r)
  BY DEF Accounted, SameAccount, CountsOf

LEMMA EmptyAccounted == Accounted(EmptyRecord)
  <1>1. Cardinality({}) = 0 /\ Len(<<>>) = 0
    BY FS_EmptySet, EmptySeq
  <1> QED BY <1>1 DEF Accounted, EmptyRecord, CountsOf

\* The counts of a record are the three numbers they should be.
LEMMA CountsByField ==
  ASSUME NEW r \in SessionRecords, r.counts.queued = Len(r.queued),
         r.counts.inFlight = Cardinality(r.inFlight), r.counts.retained = Len(r.events)
  PROVE  r.counts = CountsOf(r)
  <1>1. r.counts = [queued |-> r.counts.queued, inFlight |-> r.counts.inFlight,
                    retained |-> r.counts.retained]
    BY DEF SessionRecords, Counts
  <1> QED BY <1>1 DEF CountsOf

\* An element looked up past what was taken off.
LEMMA IndexShift ==
  ASSUME NEW a \in Int, NEW l \in Int, NEW n \in Int, NEW o \in Int, NEW i \in Int,
         NEW m, m = l + n - o
  PROVE  a - l + (o + i) = (a + n) - m + i
  OBVIOUS

\* The ring of a report: the newest events, in order, and the rest counted.
LEMMA IngestAccount ==
  ASSUME NEW r \in SessionRecords, NEW n \in Nat, Accounted(r)
  PROVE  LET e == Ingest(r, n).events
             m == Len(Ingest(r, n).events)
         IN /\ r.accepted + n = r.drained + Ingest(r, n).dropped + m
            /\ \A i \in 1..m : e[i] = (r.accepted + n) - m + i
  <1> DEFINE new == [i \in 1..n |-> r.accepted + i]
             all == r.events \o new
             over == Monus(Len(all), MaxEvents)
             ring == DropFirst(all, over)
  <1>1. /\ r.events \in Seq(Nat) /\ Len(r.events) \in Nat /\ MaxEvents \in Nat
        /\ r.accepted \in Nat /\ r.dropped \in Nat /\ r.drained \in Nat
    BY LimitsAssumption, LenProperties DEF SessionRecords
  <1>2. new \in Seq(Nat) /\ Len(new) = n /\ \A i \in 1..n : new[i] = r.accepted + i
    BY <1>1
  <1> HIDE DEF new
  <1>3. /\ all \in Seq(Nat) /\ Len(all) = Len(r.events) + n
        /\ \A i \in 1..(Len(r.events) + n) :
             all[i] = IF i <= Len(r.events) THEN r.events[i] ELSE new[i - Len(r.events)]
    BY <1>1, <1>2, ConcatProperties
  <1> HIDE DEF all
  <1>4. \A i \in 1..(Len(r.events) + n) : all[i] = r.accepted - Len(r.events) + i
    <2> SUFFICES ASSUME NEW i \in 1..(Len(r.events) + n)
                 PROVE  all[i] = r.accepted - Len(r.events) + i
      OBVIOUS
    <2>1. CASE i <= Len(r.events)
      <3>1. all[i] = r.events[i] /\ i \in 1..Len(r.events)
        BY <1>1, <1>3, <2>1
      <3> QED BY <3>1 DEF Accounted
    <2>2. CASE ~(i <= Len(r.events))
      <3>1. i - Len(r.events) \in 1..n /\ all[i] = new[i - Len(r.events)]
        BY <1>1, <1>3, <2>2
      <3>2. new[i - Len(r.events)] = r.accepted + (i - Len(r.events))
        BY <1>2, <3>1
      <3> QED BY <1>1, <3>1, <3>2
    <2> QED BY <2>1, <2>2
  <1>5. over \in 0..Len(all)
    BY <1>1, <1>3 DEF Monus
  <1> HIDE DEF over
  <1>6. Len(ring) = Len(all) - over /\ \A i \in 1..(Len(all) - over) : ring[i] = all[over + i]
    BY <1>3, <1>5, DropFirstProperties
  <1> HIDE DEF ring
  <1>7. Ingest(r, n).events = ring /\ Ingest(r, n).dropped = r.dropped + over
    BY DEF Ingest, ring, over, all, new
  <1>8. r.accepted + n = r.drained + (r.dropped + over) + Len(ring)
    <2>1. r.accepted = r.drained + r.dropped + Len(r.events)
      BY DEF Accounted
    <2>2. over \in Int /\ n \in Int /\ Len(ring) = Len(r.events) + n - over
      BY <1>1, <1>3, <1>5, <1>6
    <2>3. /\ r.accepted \in Int /\ r.dropped \in Int /\ r.drained \in Int
          /\ Len(r.events) \in Int /\ n \in Int /\ over \in Int
      BY <1>1, <2>2
    <2>4. r.accepted + n = r.drained + (r.dropped + over) + (Len(r.events) + n - over)
      BY <2>1, <2>3
    <2> QED BY <2>2, <2>4
  <1>9. ASSUME NEW i \in 1..Len(ring) PROVE ring[i] = (r.accepted + n) - Len(ring) + i
    <2>1. over + i \in 1..(Len(r.events) + n)
      BY <1>1, <1>3, <1>5, <1>6
    <2>2. ring[i] = r.accepted - Len(r.events) + (over + i)
      BY <1>1, <1>3, <1>4, <1>5, <1>6, <2>1
    <2>3. over \in Int /\ n \in Int /\ i \in Int /\ Len(ring) = Len(r.events) + n - over
      BY <1>1, <1>3, <1>5, <1>6
    <2>4. r.accepted - Len(r.events) + (over + i) = (r.accepted + n) - Len(ring) + i
      BY <1>1, <2>3, IndexShift
    <2> QED BY <2>2, <2>4
  <1> QED BY <1>7, <1>8, <1>9

LEMMA IngestedAccount ==
  ASSUME NEW r \in SessionRecords, Accounted(r), NEW results, NEW n \in Nat,
         NEW q, NEW response, NEW w, w = Ingested(r, results, n),
         NEW v, v = [w EXCEPT !.lastSequence = q, !.counts = CountsOf(w), !.lastResponse = response]
  PROVE  Accounted(v)
  <1>1. /\ w.events = Ingest(r, n).events /\ w.dropped = Ingest(r, n).dropped
        /\ w.accepted = r.accepted + n /\ w.drained = r.drained
    <2> DEFINE fresh == Refreshed(r)
    <2>1. fresh \in SessionRecords /\ fresh.drained = r.drained
      BY RefreshedType DEF SessionRecords, Refreshed
    <2> HIDE DEF fresh
    <2> QED BY <2>1 DEF Ingested, SessionRecords, fresh
  <1>2. w \in SessionRecords
    BY IngestedType
  <1>3. /\ v.counts = CountsOf(w) /\ v.queued = w.queued /\ v.inFlight = w.inFlight
        /\ v.events = w.events /\ v.accepted = w.accepted /\ v.drained = w.drained
        /\ v.dropped = w.dropped
    BY <1>2 DEF SessionRecords
  <1>4. /\ v.accepted = v.drained + v.dropped + Len(v.events)
        /\ \A i \in 1..Len(v.events) : v.events[i] = v.accepted - Len(v.events) + i
    BY <1>1, <1>3, IngestAccount
  <1> QED BY <1>3, <1>4 DEF Accounted, CountsOf

LEMMA CalledAccount ==
  ASSUME NEW r \in SessionRecords, Accounted(r), NEW c \in Commands,
         NEW w, w = [r EXCEPT !.queued = Append(@, c),
                              !.responders = @ \cup {c},
                              !.counts.queued = Len(r.queued) + 1]
  PROVE  Accounted(w)
  <1>1. /\ w.queued = Append(r.queued, c) /\ w.inFlight = r.inFlight /\ w.events = r.events
        /\ w.accepted = r.accepted /\ w.drained = r.drained /\ w.dropped = r.dropped
        /\ w.counts.queued = Len(r.queued) + 1 /\ w.counts.inFlight = r.counts.inFlight
        /\ w.counts.retained = r.counts.retained
    BY DEF SessionRecords, Counts
  <1>2. Len(Append(r.queued, c)) = Len(r.queued) + 1
    BY AppendProperties DEF SessionRecords
  <1>3. r.counts.inFlight = Cardinality(r.inFlight) /\ r.counts.retained = Len(r.events)
    BY DEF Accounted, CountsOf
  <1>4. w \in SessionRecords
    BY CalledType
  <1>5. w.counts = CountsOf(w)
    BY <1>1, <1>2, <1>3, <1>4, CountsByField
  <1> QED BY <1>1, <1>5 DEF Accounted

LEMMA RemovedAccount ==
  ASSUME NEW r \in SessionRecords, Accounted(r), NEW c \in Commands, NEW w, w = Removed(r, c)
  PROVE  Accounted(w)
  <1>1. /\ w.queued = Without(r.queued, c) /\ w.inFlight = r.inFlight \ {c} /\ w.events = r.events
        /\ w.accepted = r.accepted /\ w.drained = r.drained /\ w.dropped = r.dropped
        /\ w.counts.queued = Len(Without(r.queued, c))
        /\ w.counts.inFlight = Cardinality(r.inFlight \ {c})
        /\ w.counts.retained = r.counts.retained
    BY DEF Removed, SessionRecords, Counts
  <1>2. r.counts.retained = Len(r.events)
    BY DEF Accounted, CountsOf
  <1>3. w \in SessionRecords
    BY RemovedType
  <1>4. w.counts = CountsOf(w)
    BY <1>1, <1>2, <1>3, CountsByField
  <1> QED BY <1>1, <1>4 DEF Accounted

LEMMA DrainedAccount ==
  ASSUME NEW r \in SessionRecords, Accounted(r), NEW n \in 0..Len(r.events),
         NEW w, w = [r EXCEPT !.events = DropFirst(@, n), !.drained = @ + n,
                              !.counts.retained = Len(r.events) - n]
  PROVE  Accounted(w)
  <1>1. /\ w.queued = r.queued /\ w.inFlight = r.inFlight /\ w.events = DropFirst(r.events, n)
        /\ w.accepted = r.accepted /\ w.drained = r.drained + n /\ w.dropped = r.dropped
        /\ w.counts.queued = r.counts.queued /\ w.counts.inFlight = r.counts.inFlight
        /\ w.counts.retained = Len(r.events) - n
    BY DEF SessionRecords, Counts
  <1>2. /\ r.events \in Seq(Nat) /\ Len(r.events) \in Nat
        /\ r.accepted \in Nat /\ r.dropped \in Nat /\ r.drained \in Nat
    BY LenProperties DEF SessionRecords
  <1>3. /\ Len(DropFirst(r.events, n)) = Len(r.events) - n
        /\ \A i \in 1..(Len(r.events) - n) : DropFirst(r.events, n)[i] = r.events[n + i]
    BY <1>2, DropFirstProperties
  <1>4. r.counts.queued = Len(r.queued) /\ r.counts.inFlight = Cardinality(r.inFlight)
    BY DEF Accounted, CountsOf
  <1>5. w \in SessionRecords
    BY DrainedType
  <1>6. w.counts = CountsOf(w)
    BY <1>1, <1>3, <1>4, <1>5, CountsByField
  <1>7. /\ n \in Int /\ Len(r.events) \in Int /\ r.accepted \in Int
        /\ r.dropped \in Int /\ r.drained \in Int
        /\ Len(w.events) = Len(r.events) - n
    BY <1>1, <1>2, <1>3
  <1>8. w.accepted = w.drained + w.dropped + Len(w.events)
    <2>1. r.accepted = r.drained + r.dropped + Len(r.events)
      BY DEF Accounted
    <2>2. r.accepted = (r.drained + n) + r.dropped + (Len(r.events) - n)
      BY <1>7, <2>1
    <2> QED BY <1>1, <1>7, <2>2
  <1>9. ASSUME NEW i \in 1..(Len(r.events) - n)
        PROVE  w.events[i] = r.accepted - (Len(r.events) - n) + i
    <2>1. n + i \in 1..Len(r.events) /\ w.events[i] = r.events[n + i]
      <3>1. n + i \in 1..Len(r.events)
        BY <1>7
      <3> QED BY <1>1, <1>3, <3>1
    <2>2. r.events[n + i] = r.accepted - Len(r.events) + (n + i)
      BY <2>1 DEF Accounted
    <2>3. r.accepted - Len(r.events) + (n + i) = r.accepted - (Len(r.events) - n) + i
      BY <1>7
    <2> QED BY <2>1, <2>2, <2>3
  <1> QED BY <1>1, <1>6, <1>7, <1>8, <1>9 DEF Accounted

LEMMA AccountStep ==
  ASSUME TypeOK, AccountInv, [Next]_vars
  PROVE  AccountInv'
  <1>1. /\ record \in [SessionIds -> SessionRecords]
        /\ AfterExpiry.record \in [SessionIds -> SessionRecords]
        /\ AfterExpiry.external \in [Externals -> SessionIds \cup {None}]
        /\ \A s \in SessionIds : Accounted(record[s])
    BY AfterExpiryType DEF TypeOK, AccountInv
  <1>2. \A s \in SessionIds : Accounted(AfterExpiry.record[s])
    <2>1. \A s \in SessionIds : AfterExpiry.record[s] \in {EmptyRecord, record[s]}
      BY DEF AfterExpiry
    <2> QED BY <1>1, <2>1, EmptyAccounted
  <1>3. ASSUME \A s \in SessionIds : Accounted(record'[s]) PROVE AccountInv'
    BY <1>3 DEF AccountInv, Accounted, CountsOf
  <1>4. ASSUME NEW s \in SessionIds, NEW w, Accounted(w), record' = [record EXCEPT ![s] = w]
        PROVE  AccountInv'
    <2>1. \A x \in SessionIds : record'[x] = IF x = s THEN w ELSE record[x]
      BY <1>1, <1>4
    <2>2. \A x \in SessionIds : Accounted(record'[x])
      BY <1>1, <1>4, <2>1
    <2> QED BY <1>3, <2>2
  <1>5. ASSUME NEW s \in SessionIds, NEW w, Accounted(w), record' = [AfterExpiry.record EXCEPT ![s] = w]
        PROVE  AccountInv'
    <2>1. \A x \in SessionIds : record'[x] = IF x = s THEN w ELSE AfterExpiry.record[x]
      BY <1>1, <1>5
    <2>2. \A x \in SessionIds : Accounted(record'[x])
      BY <1>2, <1>5, <2>1
    <2> QED BY <1>3, <2>2
  <1>6. ASSUME NEW e \in Externals, RegisterKnown(e) PROVE AccountInv'
    <2> DEFINE t == AfterExpiry.external[e]
    <2>1. t \in SessionIds /\ record' = [AfterExpiry.record EXCEPT ![t] = Refreshed(AfterExpiry.record[t])]
      BY <1>1, <1>6 DEF RegisterKnown
    <2>2. Accounted(AfterExpiry.record[t]) /\ AfterExpiry.record[t] \in SessionRecords
      BY <1>1, <1>2, <2>1
    <2> HIDE DEF t
    <2>3. SameAccount(Refreshed(AfterExpiry.record[t]), AfterExpiry.record[t])
      BY <2>2 DEF SameAccount, Refreshed, SessionRecords
    <2>4. Accounted(Refreshed(AfterExpiry.record[t]))
      BY <2>2, <2>3, SameAccounted
    <2> QED BY <1>5, <2>1, <2>4
  <1>7. ASSUME NEW e \in Externals, NEW s \in SessionIds, RegisterNew(e, s) PROVE AccountInv'
    <2>1. SameAccount([EmptyRecord EXCEPT !.external = e], EmptyRecord)
      BY DEF SameAccount, EmptyRecord
    <2>2. Accounted([EmptyRecord EXCEPT !.external = e])
      BY <2>1, EmptyAccounted, SameAccounted
    <2> QED BY <1>5, <1>7, <2>2 DEF RegisterNew
  <1>8. ASSUME NEW e \in Externals, RegisterRefused(e) PROVE AccountInv'
    BY <1>2, <1>3, <1>8 DEF RegisterRefused
  <1>9. ASSUME NEW s \in SessionIds, NEW b \in Bindings, BindSession(s, b) PROVE AccountInv'
    <2> DEFINE w == [record[s] EXCEPT !.binding = b, !.state = "Bound"]
    <2>1. SameAccount(w, record[s])
      BY <1>1 DEF SameAccount, SessionRecords
    <2>2. record' = [record EXCEPT ![s] = w]
      BY <1>1, <1>9 DEF BindSession
    <2> HIDE DEF w
    <2>3. Accounted(w)
      BY <1>1, <2>1, SameAccounted
    <2> QED BY <1>4, <2>2, <2>3
  <1>10. ASSUME ListSessions PROVE AccountInv'
    <2>1. ASSUME NEW s \in SessionIds PROVE Accounted([record[s] EXCEPT !.state = "Stale"])
      <3>1. SameAccount([record[s] EXCEPT !.state = "Stale"], record[s])
        BY <1>1 DEF SameAccount, SessionRecords
      <3> QED BY <1>1, <3>1, SameAccounted
    <2>2. \A s \in SessionIds : Accounted(record'[s])
      BY <1>1, <1>10, <2>1 DEF ListSessions, MarkedStale
    <2> QED BY <1>3, <2>2
  <1>11. ASSUME NEW s \in SessionIds, SessionGoesQuiet(s) PROVE AccountInv'
    <2> DEFINE w == [record[s] EXCEPT !.overdue = TRUE]
    <2>1. SameAccount(w, record[s])
      BY <1>1 DEF SameAccount, SessionRecords
    <2>2. record' = [record EXCEPT ![s] = w]
      BY <1>1, <1>11 DEF SessionGoesQuiet
    <2> HIDE DEF w
    <2>3. Accounted(w)
      BY <1>1, <2>1, SameAccounted
    <2> QED BY <1>4, <2>2, <2>3
  <1>12. ASSUME NEW s \in SessionIds, NEW q, NEW results, NEW n \in Nat, Report(s, q, results, n)
         PROVE  AccountInv'
    <2> DEFINE r == Ingested(record[s], results, n)
    <2>1. PICK commands \in Leased(r) :
            record' = [record EXCEPT ![s] =
              [r EXCEPT !.lastSequence = q,
                        !.counts = CountsOf(r),
                        !.lastResponse = [sequence |-> q, commands |-> commands,
                                          dropped |-> r.dropped, backend |-> backend]]]
      BY <1>12 DEF Report
    <2> DEFINE v == [r EXCEPT !.lastSequence = q,
                              !.counts = CountsOf(r),
                              !.lastResponse = [sequence |-> q, commands |-> commands,
                                                dropped |-> r.dropped, backend |-> backend]]
    <2>2. Accounted(v)
      <3> HIDE DEF r
      <3>1. r = Ingested(record[s], results, n)
        BY DEF r
      <3> QED BY <1>1, <3>1, IngestedAccount
    <2> HIDE DEF r, v
    <2>3. record' = [record EXCEPT ![s] = v]
      BY <2>1 DEF v
    <2> QED BY <1>4, <2>2, <2>3
  <1>13. CASE PluginReports
    <2>1. 0..MaxEventsPerReport \subseteq Nat
      BY LimitsAssumption
    <2> QED BY <1>12, <1>13, <2>1 DEF PluginReports
  <1>14. ASSUME NEW c \in Commands, NEW s \in SessionIds, Call(c, s) PROVE AccountInv'
    <2> DEFINE w == [record[s] EXCEPT !.queued = Append(@, c),
                                      !.responders = @ \cup {c},
                                      !.counts.queued = Len(record[s].queued) + 1]
    <2>1. Accounted(w)
      BY <1>1, CalledAccount
    <2>2. record' = [record EXCEPT ![s] = w]
      BY <1>1, <1>14 DEF Call
    <2> HIDE DEF w
    <2> QED BY <1>4, <2>1, <2>2
  <1>15. ASSUME NEW c \in Commands, RemoveCommand(c) PROVE AccountInv'
    <2>1. ASSUME NEW x \in SessionIds PROVE Accounted(Removed(record[x], c))
      BY <1>1, RemovedAccount
    <2>2. \A x \in SessionIds : record'[x] \in {record[x], Removed(record[x], c)}
      BY <1>1, <1>15 DEF RemoveCommand
    <2>3. \A x \in SessionIds : Accounted(record'[x])
      BY <1>1, <2>1, <2>2
    <2> QED BY <1>3, <2>3
  <1>16. ASSUME NEW s \in SessionIds, NEW limit \in 1..MaxEvents, DrainEvents(s, limit)
         PROVE  AccountInv'
    <2> DEFINE n == Least(limit, Len(record[s].events))
    <2>1. n \in 0..Len(record[s].events)
      <3>1. record[s].events \in Seq(Nat)
        BY <1>1 DEF SessionRecords
      <3>2. Len(record[s].events) \in Nat /\ limit \in Nat
        BY <3>1, LenProperties
      <3> QED BY <3>2 DEF Least
    <2> HIDE DEF n
    <2> DEFINE w == [record[s] EXCEPT !.events = DropFirst(@, n), !.drained = @ + n,
                                      !.counts.retained = Len(record[s].events) - n]
    <2>2. Accounted(w)
      BY <1>1, <2>1, DrainedAccount
    <2>3. record' = [record EXCEPT ![s] = w]
      BY <1>1, <1>16 DEF DrainEvents, n
    <2> HIDE DEF w
    <2> QED BY <1>4, <2>2, <2>3
  <1>17. ASSUME UNCHANGED record PROVE AccountInv'
    BY <1>1, <1>3, <1>17
  <1> QED BY <1>6, <1>7, <1>8, <1>9, <1>10, <1>11, <1>13, <1>14, <1>15, <1>16, <1>17
          DEF Next, vars, SetBackendState, ReportReplay, CommandTimeout, CallerGone

THEOREM AccountInvariant == Spec => []AccountInv
  <1>1. Init => AccountInv
    BY EmptyAccounted DEF Init, AccountInv
  <1>2. TypeOK /\ AccountInv /\ [Next]_vars => AccountInv'
    BY AccountStep
  <1> QED BY <1>1, <1>2, TypeCorrect, PTL DEF Spec

LEMMA AccountedExactly ==
  ASSUME TypeOK, AccountInv
  PROVE  SnapshotCountsExact /\ EventRingAccounting
  <1>1. SnapshotCountsExact
    BY DEF AccountInv, Accounted, SnapshotCountsExact
  <1>2. ASSUME NEW s \in SessionIds
        PROVE  /\ record[s].accepted =
                    record[s].drained + record[s].dropped + Len(record[s].events)
               /\ record[s].events = [i \in 1..Len(record[s].events) |->
                                        record[s].accepted - Len(record[s].events) + i]
    <2>1. record[s].events \in Seq(Nat) /\ Accounted(record[s])
      BY DEF TypeOK, SessionRecords, AccountInv
    <2>2. record[s].events = [i \in 1..Len(record[s].events) |-> record[s].events[i]]
      BY <2>1
    <2> QED BY <2>1, <2>2 DEF Accounted
  <1> QED BY <1>1, <1>2 DEF EventRingAccounting

\* The counts GET /sessions shows are the sizes of the collections they count.
THEOREM CountsCorrect == Spec => []SnapshotCountsExact
  BY AccountedExactly, AccountInvariant, TypeCorrect, PTL

\* Every event is retained, drained or counted as dropped, whatever the ring's
\* size, and what is retained is the newest, in order.
THEOREM EventsAccounted == Spec => []EventRingAccounting
  BY AccountedExactly, AccountInvariant, TypeCorrect, PTL

----------------------------------------------------------------------------
(* Identity                                                                *)

\* The two halves of IdentityStable.
ExternalsKept ==
  \A e \in Externals :
    external[e] # None /\ ~record[external[e]].overdue => external'[e] = external[e]
BindingsKept ==
  \A s \in live \cap live' :
    record[s].binding # None => record'[s].binding = record[s].binding

LEMMA IdentityStep ==
  ASSUME TypeOK, IndexInv, [Next]_vars
  PROVE  ExternalsKept /\ BindingsKept
  <1> DEFINE kept == AfterExpiry
  <1>0. /\ record \in [SessionIds -> SessionRecords] /\ live \subseteq SessionIds
        /\ external \in [Externals -> SessionIds \cup {None}]
        /\ kept.record \in [SessionIds -> SessionRecords]
        /\ kept.external \in [Externals -> SessionIds \cup {None}]
        /\ live \subseteq issued
    BY AfterExpiryType DEF TypeOK, IndexInv, IdsFresh
  <1>1. /\ \A e \in Externals : external[e] # None /\ ~record[external[e]].overdue =>
             kept.external[e] = external[e]
        /\ \A s \in kept.live : kept.record[s] = record[s]
    <2>1. \A e \in Externals : external[e] # None /\ ~record[external[e]].overdue =>
            external[e] \notin Expired
      BY DEF Expired
    <2>2. \A s \in kept.live : s \in SessionIds /\ s \notin Expired
      BY <1>0 DEF AfterExpiry
    <2> QED BY <1>0, <2>1, <2>2 DEF AfterExpiry, KeptExternals
  <1>2. ASSUME external' = external,
               \A s \in live : record[s].binding # None => record'[s].binding = record[s].binding
        PROVE  ExternalsKept /\ BindingsKept
    BY <1>2 DEF ExternalsKept, BindingsKept
  <1>3. ASSUME NEW e \in Externals, RegisterKnown(e) PROVE ExternalsKept /\ BindingsKept
    <2> DEFINE t == kept.external[e]
    <2>1. /\ live' = kept.live /\ external' = kept.external
          /\ record' = [kept.record EXCEPT ![t] = Refreshed(@)]
          /\ t # None
      BY <1>3 DEF RegisterKnown
    <2>2. t \in kept.live /\ t \in SessionIds
      BY <1>0, <2>1, ExpiryIndex
    <2>3. Refreshed(kept.record[t]).binding = kept.record[t].binding
      BY <1>0, <2>2 DEF Refreshed, SessionRecords
    <2> HIDE DEF t, kept
    <2>4. \A s \in SessionIds : record'[s].binding = kept.record[s].binding
      BY <1>0, <2>1, <2>3
    <2> QED BY <1>0, <1>1, <2>1, <2>4 DEF ExternalsKept, BindingsKept
  <1>4. ASSUME NEW e \in Externals, NEW s \in SessionIds, RegisterNew(e, s)
        PROVE  ExternalsKept /\ BindingsKept
    <2>1. /\ live' = kept.live \cup {s} /\ external' = [kept.external EXCEPT ![e] = s]
          /\ record' = [kept.record EXCEPT ![s] = [EmptyRecord EXCEPT !.external = e]]
          /\ kept.external[e] = None /\ s \notin issued
      BY <1>4 DEF RegisterNew
    <2> HIDE DEF kept
    <2>2. s \notin live
      BY <1>0, <2>1
    <2>3. ExternalsKept
      BY <1>0, <1>1, <2>1 DEF ExternalsKept
    <2>4. BindingsKept
      BY <1>0, <1>1, <2>1, <2>2 DEF BindingsKept
    <2> QED BY <2>3, <2>4
  <1>5. ASSUME NEW e \in Externals, RegisterRefused(e) PROVE ExternalsKept /\ BindingsKept
    BY <1>0, <1>1, <1>5 DEF RegisterRefused, ExternalsKept, BindingsKept
  <1>6. ASSUME NEW s \in SessionIds, NEW b \in Bindings, BindSession(s, b)
        PROVE  ExternalsKept /\ BindingsKept
    BY <1>0, <1>2, <1>6 DEF BindSession, AcceptsBinding, SessionRecords
  <1>7. ASSUME ListSessions PROVE ExternalsKept /\ BindingsKept
    BY <1>0, <1>2, <1>7 DEF ListSessions, MarkedStale, SessionRecords
  <1>8. ASSUME NEW s \in SessionIds, SessionGoesQuiet(s) PROVE ExternalsKept /\ BindingsKept
    BY <1>0, <1>2, <1>8 DEF SessionGoesQuiet, SessionRecords
  <1>9. CASE PluginReports
    <2>1. PICK s \in SessionIds, q \in 0..SequenceBound, results \in SUBSET delivered,
               n \in 0..MaxEventsPerReport : Report(s, q, results, n)
      BY <1>9 DEF PluginReports
    <2> DEFINE r == Ingested(record[s], results, n)
    <2>2. n \in Nat
      BY LimitsAssumption
    <2>3. r \in SessionRecords
      BY <1>0, <2>2, IngestedType
    <2>4. r.binding = record[s].binding
      <3> DEFINE fresh == Refreshed(record[s])
      <3>1. fresh \in SessionRecords /\ fresh.binding = record[s].binding
        BY <1>0, RefreshedType DEF Refreshed, SessionRecords
      <3> HIDE DEF fresh
      <3> QED BY <3>1 DEF Ingested, SessionRecords, fresh
    <2> HIDE DEF r
    <2>5. record'[s].binding = r.binding /\ \A x \in SessionIds \ {s} : record'[x] = record[x]
      BY <1>0, <2>1, <2>3 DEF Report, SessionRecords, r
    <2>6. \A x \in live : record'[x].binding = record[x].binding
      BY <1>0, <2>4, <2>5
    <2> QED BY <1>2, <2>1, <2>6 DEF Report
  <1>10. ASSUME NEW c \in Commands, NEW s \in SessionIds, Call(c, s)
         PROVE  ExternalsKept /\ BindingsKept
    BY <1>0, <1>2, <1>10 DEF Call, SessionRecords
  <1>11. ASSUME NEW c \in Commands, RemoveCommand(c) PROVE ExternalsKept /\ BindingsKept
    <2>1. \A s \in SessionIds : Removed(record[s], c).binding = record[s].binding
      BY <1>0 DEF Removed, SessionRecords
    <2> QED BY <1>0, <1>2, <1>11, <2>1 DEF RemoveCommand
  <1>12. ASSUME NEW s \in SessionIds, NEW limit \in 1..MaxEvents, DrainEvents(s, limit)
         PROVE  ExternalsKept /\ BindingsKept
    <2> DEFINE n == Least(limit, Len(record[s].events))
    <2>1. record' = [record EXCEPT ![s].events = DropFirst(@, n), ![s].drained = @ + n,
                                   ![s].counts.retained = Len(record[s].events) - n]
          /\ external' = external
      BY <1>12 DEF DrainEvents
    <2> HIDE DEF n
    <2> QED BY <1>0, <1>2, <2>1 DEF SessionRecords
  <1>13. ASSUME UNCHANGED <<live, record, external>> PROVE ExternalsKept /\ BindingsKept
    BY <1>2, <1>13
  <1> QED BY <1>3, <1>4, <1>5, <1>6, <1>7, <1>8, <1>9, <1>10, <1>11, <1>12, <1>13
          DEF Next, vars, SetBackendState, ReportReplay, CommandTimeout, CallerGone

\* A session heard from within the TTL keeps its external identity, and a
\* binding is never replaced or lost while its session is registered.
THEOREM IdentityKept == Spec => IdentityStable
  <1>1. BridgeInv /\ [Next]_vars =>
          [/\ \A e \in Externals :
                external[e] # None /\ ~record[external[e]].overdue => external'[e] = external[e]
           /\ \A s \in live \cap live' :
                record[s].binding # None => record'[s].binding = record[s].binding]_vars
    BY IdentityStep DEF BridgeInv, ExternalsKept, BindingsKept
  <1> QED BY <1>1, BridgeInvariant, PTL DEF Spec, IdentityStable

=============================================================================
