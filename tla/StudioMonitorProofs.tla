-------------------------- MODULE StudioMonitorProofs --------------------------
(***************************************************************************)
(* The theorems about StudioMonitor: whatever the host and StudioMCP do.   *)
(***************************************************************************)
EXTENDS StudioMonitor, FiniteSetTheorems, TLAPS

Shapes ==
    /\ DOMAIN monitor = {"pc", "environment", "attempt", "path", "waits", "place"}
    /\ DOMAIN backend = {"environment", "mcp", "place", "errors"}
    /\ children \in Nat

\* The health that was set last at each place of run_connection.
HealthAt ==
    /\ monitor.pc = "starting" => backend.mcp = "none"
    /\ monitor.pc = "inspecting" => backend.mcp \in {"none", "unavailable"}
    /\ monitor.pc \in {"launching", "negotiating", "relaunching", "waiting", "verifying"} =>
          backend.mcp = "connecting"
    /\ monitor.pc \in {"listing", "checking"} => backend.mcp = "connected"
    /\ monitor.pc = "disconnecting" => backend.mcp \in {"connecting", "connected"}

MonitorPlaces == {"starting", "inspecting", "launching", "negotiating", "relaunching", "waiting",
                 "verifying", "listing", "checking", "disconnecting"}

\* A connection that makes calls was negotiated.
PathKnown == monitor.pc \in {"waiting", "verifying", "listing", "checking", "disconnecting"} =>
                monitor.path # None

MonitorInv == /\ Shapes /\ monitor.pc \in MonitorPlaces
              /\ HealthAt /\ PathKnown /\ ChildOwned /\ HealthTruthful

LEMMA InitInv == MonitorInit => MonitorInv
  BY DEF MonitorInit, Idle, MonitorInv, Shapes, MonitorPlaces, HealthAt, PathKnown, ChildOwned,
         HealthTruthful

\* The connection is given up when its child is gone: everything is as at the start.
LEMMA UnavailableInv ==
  ASSUME MonitorInv, Unavailable, children' = 0
  PROVE  MonitorInv'
<1> USE DEF MonitorInv, Shapes
<1>1. /\ monitor'.pc = "inspecting" /\ monitor'.place = None
      /\ DOMAIN monitor' = {"pc", "environment", "attempt", "path", "waits", "place"}
  BY DEF Unavailable, Idle
<1>2. /\ backend'.mcp = "unavailable" /\ backend'.place = None
      /\ backend'.errors = backend.errors \union {"mcp"}
      /\ DOMAIN backend' = DOMAIN backend
  BY DEF Unavailable, SetHealth
<1> QED BY <1>1, <1>2 DEF MonitorPlaces, HealthAt, PathKnown, ChildOwned, HealthTruthful

\* What a call does to the health and the place keeps the invariant.
LEMMA ContinuesInv ==
  ASSUME MonitorInv, UNCHANGED <<children, backend>>, NEW pc, GoTo(pc),
         \/ monitor.pc \in {"waiting", "verifying", "listing", "checking"} /\ pc = "disconnecting"
         \/ monitor.pc = "listing" /\ pc = "checking"
  PROVE  MonitorInv'
<1> USE DEF MonitorInv, Shapes
<1>1. /\ monitor'.pc = pc /\ monitor'.path = monitor.path /\ monitor'.place = monitor.place
      /\ DOMAIN monitor' = DOMAIN monitor
  BY DEF GoTo
<1> QED BY <1>1 DEF MonitorPlaces, HealthAt, PathKnown, ChildOwned, HealthTruthful

LEMMA SetPlaceInv ==
  ASSUME MonitorInv, NEW name, SetPlaceName(name), monitor.pc \in {"waiting", "listing"}
  PROVE  MonitorInv'
<1> USE DEF MonitorInv, Shapes
<1>1. /\ monitor'.pc = (IF monitor.pc = "waiting" THEN "verifying" ELSE "checking")
      /\ monitor'.path = monitor.path /\ monitor'.place = name
      /\ DOMAIN monitor' = DOMAIN monitor
  BY DEF SetPlaceName
<1>2. /\ backend'.place = name /\ backend'.mcp = backend.mcp
      /\ backend'.errors = backend.errors
      /\ DOMAIN backend' = DOMAIN backend /\ children' = children
  BY DEF SetPlaceName
<1> QED BY <1>1, <1>2 DEF MonitorPlaces, HealthAt, PathKnown, ChildOwned, HealthTruthful

LEMMA MonitorStepInv == MonitorInv /\ MonitorNext => MonitorInv'
<1> SUFFICES ASSUME MonitorInv, MonitorNext PROVE MonitorInv'
  OBVIOUS
<1> USE DEF MonitorInv, Shapes
<1>1. CASE Inspecting
  BY <1>1 DEF Inspecting, monitorVars, HealthAt, PathKnown, ChildOwned, HealthTruthful
<1>2. CASE MonitorStarts
  <2>1. /\ monitor'.pc = "inspecting" /\ monitor'.place = None
        /\ DOMAIN monitor' = {"pc", "environment", "attempt", "path", "waits", "place"}
    BY <1>2 DEF MonitorStarts, Idle
  <2>2. /\ backend'.mcp = backend.mcp /\ backend'.place = backend.place
        /\ "mcp" \notin backend'.errors
        /\ DOMAIN backend' = DOMAIN backend /\ children' = children
    BY <1>2 DEF MonitorStarts
  <2>3. monitor.pc = "starting" BY <1>2 DEF MonitorStarts
  <2> QED BY <2>1, <2>2, <2>3 DEF MonitorPlaces, HealthAt, PathKnown, ChildOwned, HealthTruthful
<1>3. CASE Bind
  <2>1. monitor.pc = "inspecting" /\ children' = children /\ children = 0
    BY <1>3 DEF Bind, ChildOwned
  <2>2. CASE Unavailable
    BY <2>1, <2>2, UnavailableInv
  <2>3. CASE SetHealth("connecting") /\ \E e : monitor' = [Idle EXCEPT !.pc = "launching",
                                                                      !.environment = e]
    <3>1. /\ monitor'.pc = "launching" /\ monitor'.place = None
          /\ DOMAIN monitor' = {"pc", "environment", "attempt", "path", "waits", "place"}
      BY <2>3 DEF Idle
    <3>2. /\ backend'.mcp = "connecting" /\ backend'.place = backend.place
          /\ backend'.errors = backend.errors \ {"mcp"}
          /\ DOMAIN backend' = DOMAIN backend
      BY <2>3 DEF SetHealth
    <3> QED BY <2>1, <3>1, <3>2 DEF MonitorPlaces, HealthAt, PathKnown, ChildOwned, HealthTruthful
  <2> QED BY <1>3, <2>2, <2>3 DEF Bind
<1>4. ASSUME NEW attempt, Spawn(attempt), monitor.pc \in {"launching", "relaunching"}
      PROVE  MonitorInv'
  <2>1. /\ monitor'.pc = "negotiating" /\ monitor'.place = monitor.place
        /\ DOMAIN monitor' = DOMAIN monitor
    BY <1>4 DEF Spawn
  <2>2. children = 0 /\ children' = 1 /\ backend' = backend
    BY <1>4 DEF Spawn, ChildOwned
  <2> QED BY <1>4, <2>1, <2>2 DEF MonitorPlaces, HealthAt, PathKnown, ChildOwned, HealthTruthful
<1>5. CASE Launch
  <2>1. monitor.pc = "launching" /\ children = 0 BY <1>5 DEF Launch, At, ChildOwned
  <2>2. CASE Spawn(1) BY <1>4, <2>1, <2>2
  <2>3. CASE Unavailable /\ UNCHANGED children BY <2>1, <2>3, UnavailableInv
  <2> QED BY <1>5, <2>2, <2>3 DEF Launch
<1>6. CASE Relaunch
  <2>1. monitor.pc = "relaunching" /\ children = 0 BY <1>6 DEF Relaunch, At, ChildOwned
  <2>2. CASE Spawn(2) BY <1>4, <2>1, <2>2
  <2>3. CASE Unavailable /\ UNCHANGED children BY <2>1, <2>3, UnavailableInv
  <2> QED BY <1>6, <2>2, <2>3 DEF Relaunch
<1>7. CASE Negotiated
  <2>1. monitor.pc = "negotiating" /\ UNCHANGED <<children, backend>>
    BY <1>7 DEF Negotiated, At
  <2>2. /\ monitor'.pc = "waiting" /\ monitor'.place = monitor.place
        /\ monitor'.path \in {"discover", "initialize"}
        /\ DOMAIN monitor' = DOMAIN monitor
    BY <1>7 DEF Negotiated
  <2> QED BY <2>1, <2>2, MonitorAssumption
          DEF MonitorPlaces, HealthAt, PathKnown, ChildOwned, HealthTruthful
<1>8. CASE NegotiationFails
  <2>1. monitor.pc = "negotiating" /\ children' = 0
    BY <1>8 DEF NegotiationFails, At, CleanUp, ChildGone, ChildOwned
  <2>2. CASE Unavailable BY <2>1, <2>2, UnavailableInv
  <2>3. CASE GoTo("relaunching") /\ UNCHANGED backend
    <3>1. /\ monitor'.pc = "relaunching" /\ monitor'.place = monitor.place
          /\ DOMAIN monitor' = DOMAIN monitor
      BY <2>3 DEF GoTo
    <3> QED BY <2>1, <2>3, <3>1 DEF MonitorPlaces, HealthAt, PathKnown, ChildOwned, HealthTruthful
  <2> QED BY <1>8, <2>2, <2>3 DEF NegotiationFails
<1>9. CASE CallFails
  BY <1>9, ContinuesInv DEF CallFails
<1>10. CASE Disconnect
  <2>1. children' = 0 BY <1>10 DEF Disconnect, At, ChildGone, ChildOwned
  <2> QED BY <1>10, <2>1, UnavailableInv DEF Disconnect
<1>11. CASE WaitForStudio
  <2>1. monitor.pc = "waiting" BY <1>11 DEF WaitForStudio, At
  <2>2. CASE SetPlaceName(TheOnlyPlace) BY <2>1, <2>2, SetPlaceInv
  <2>3. CASE GoTo("disconnecting") /\ UNCHANGED <<children, backend>>
    BY <2>1, <2>3, ContinuesInv
  <2>4. CASE /\ monitor' = [monitor EXCEPT !.waits = @ + 1,
                                           !.pc = IF GivesUp(monitor.waits)
                                                  THEN "disconnecting" ELSE @]
             /\ UNCHANGED <<children, backend>>
    <3>1. /\ monitor'.pc \in {"waiting", "disconnecting"} /\ monitor'.path = monitor.path
          /\ monitor'.place = monitor.place /\ DOMAIN monitor' = DOMAIN monitor
      BY <2>1, <2>4
    <3> QED BY <2>1, <2>4, <3>1 DEF MonitorPlaces, HealthAt, PathKnown, ChildOwned, HealthTruthful
  <2> QED BY <1>11, <2>2, <2>3, <2>4 DEF WaitForStudio
<1>12. CASE StateVerified
  <2>1. monitor.pc \in {"verifying", "checking"} /\ children' = children
    BY <1>12 DEF StateVerified, At
  <2>2. /\ monitor'.pc = "listing" /\ monitor'.place = monitor.place
        /\ monitor'.path = monitor.path /\ DOMAIN monitor' = DOMAIN monitor
    BY <1>12 DEF StateVerified, GoTo
  <2>3. /\ backend'.mcp = "connected" /\ backend'.place = backend.place
        /\ backend'.errors = backend.errors \ {"mcp"}
        /\ DOMAIN backend' = DOMAIN backend
    BY <1>12 DEF StateVerified, SetHealth
  <2> QED BY <2>1, <2>2, <2>3 DEF MonitorPlaces, HealthAt, PathKnown, ChildOwned, HealthTruthful
<1>13. CASE ListStudios
  <2>1. monitor.pc = "listing" BY <1>13 DEF ListStudios, At
  <2>2. CASE Unavailable /\ ChildGone
    <3>1. children' = 0 BY <2>1, <2>2 DEF ChildGone, ChildOwned
    <3> QED BY <2>2, <3>1, UnavailableInv
  <2>3. CASE SetPlaceName(TheOnlyPlace) BY <2>1, <2>3, SetPlaceInv
  <2>4. CASE GoTo("checking") /\ UNCHANGED <<children, backend>>
    BY <2>1, <2>4, ContinuesInv
  <2> QED BY <1>13, <2>2, <2>3, <2>4 DEF ListStudios
<1> QED BY <1>1, <1>2, <1>3, <1>5, <1>6, <1>7, <1>8, <1>9, <1>10, <1>11, <1>12, <1>13
        DEF MonitorNext

LEMMA OthersInv ==
  ASSUME MonitorInv, \/ ProviderNext \/ UNCHANGED monitorVars
  PROVE  MonitorInv'
<1> USE DEF MonitorInv, Shapes
<1>1. CASE ChildDies
  <2>1. children' \in Nat /\ children' <= children /\ UNCHANGED <<monitor, backend>>
    BY <1>1 DEF ChildDies, ChildGone
  <2> QED BY <2>1 DEF HealthAt, PathKnown, ChildOwned, HealthTruthful
<1>2. CASE UNCHANGED <<children, monitor, backend>>
  BY <1>2 DEF HealthAt, PathKnown, ChildOwned, HealthTruthful
<1> QED BY <1>1, <1>2 DEF ProviderNext, ProviderChanges, monitorVars

\* One StudioMCP process at most, owned by the connection that runs, and a
\* health that names a connection and a place only while they are there: for
\* every host, every provider and every number of waits.
THEOREM MonitorTheorem == MonitorSpec => []MonitorTruthful
<1>1. MonitorInit => MonitorInv BY InitInv
<1>2. ASSUME MonitorInv, [\/ MonitorNext
                          \/ ProviderNext
                          \/ HostNext /\ UNCHANGED monitorVars]_<<resolverVars, monitorVars>>
      PROVE  MonitorInv'
  BY <1>2, MonitorStepInv, OthersInv
<1>3. MonitorInv => MonitorTruthful BY DEF MonitorInv, MonitorTruthful
<1> QED BY <1>1, <1>2, <1>3, PTL DEF MonitorSpec

----------------------------------------------------------------------------
(* The resolver: while the processes are those of the detection, what is   *)
(* found and what is still to be resolved are the candidates of the        *)
(* Studios that run, whatever happens to the file system.                  *)

CandidateOf(runtime, studio) == [runtime |-> runtime, process |-> Identity(studio)]

\* The candidates of the inspection, resolved or not.
ListedCandidates == inspection.todo \union {e.id : e \in inspection.found}

InspectionShape ==
    /\ inspection = [pc |-> inspection.pc, todo |-> inspection.todo, found |-> inspection.found,
                     ran |-> inspection.ran]
    /\ procs \subseteq Process /\ starts \in 0..MaxStarts /\ second \in 0..starts
    /\ inspection.pc = "done" => inspection.todo = {}

\* A candidate is resolved once, and its environment names its process or none.
FoundOnce ==
    /\ \A e \in inspection.found : e.process \in {None, e.id.process} /\ e.id \notin inspection.todo
    /\ \A e, f \in inspection.found : e.id = f.id => e = f

StudiosListed == steady /\ inspection.pc \in {"resolving", "done"} =>
    /\ \A runtime \in HostRuntimes : \A studio \in Matching(runtime) :
          CandidateOf(runtime, studio) \in ListedCandidates
    /\ \A candidate \in ListedCandidates : candidate.process # None =>
          \E runtime \in HostRuntimes : \E studio \in Matching(runtime) :
             candidate = CandidateOf(runtime, studio)
    /\ \A e \in inspection.found : e.process = e.id.process

\* A process with the identity of a candidate ran when it was detected, or made
\* that identity one given twice.
Traced ==
    /\ \A process \in procs : Identity(process) \in given
    /\ \A candidate \in inspection.todo : candidate.process # None =>
          /\ candidate.process \in given
          /\ \A process \in procs : candidate.process = Identity(process) =>
                process.birth \in inspection.ran \/ candidate.process \in reused
    /\ \A e \in inspection.found : e.process # None =>
          e.birth \in inspection.ran \/ e.process \in reused

ResolverInv == InspectionShape /\ FoundOnce /\ StudiosListed /\ Traced

LEMMA IdentityIsProcess ==
  ASSUME InspectionShape, NEW process \in procs
  PROVE  Identity(process) # None
<1>1. process \in Process BY DEF InspectionShape
<1>2. Identity(process) \in Identities BY <1>1 DEF Process, Identity, Identities
<1> QED BY <1>2, NoProcessAssumption DEF Identities

\* The environment of a candidate names its process if that one still runs.
LEMMA ResolvedNames ==
  ASSUME NEW candidate
  PROVE  /\ ResolveCandidate(candidate).id = candidate
         /\ ResolveCandidate(candidate).process \in {None, candidate.process}
         /\ ResolveCandidate(candidate).process # None =>
               \E process \in procs : /\ candidate.process = Identity(process)
                                     /\ ResolveCandidate(candidate).birth = process.birth
         /\ (\E process \in procs : candidate.process = Identity(process)) =>
               ResolveCandidate(candidate).process = candidate.process
<1> DEFINE hinted == Hinted(candidate)
           main == IF hinted = {} THEN None ELSE Identity(CHOOSE process \in hinted : TRUE)
           birth == IF hinted = {} THEN 0 ELSE (CHOOSE process \in hinted : TRUE).birth
<1>1. /\ ResolveCandidate(candidate).id = candidate /\ ResolveCandidate(candidate).process = main
      /\ ResolveCandidate(candidate).birth = birth
  BY DEF ResolveCandidate, Environment
<1>2. \A process \in hinted : Identity(process) = candidate.process /\ process \in procs
  BY DEF Hinted
<1>3. hinted # {} => main = candidate.process BY <1>2
<1>4. (\E process \in procs : candidate.process = Identity(process)) => hinted # {}
  BY DEF Hinted
<1>5. main # None => \E process \in hinted : birth = process.birth
  OBVIOUS
<1> QED BY <1>1, <1>2, <1>3, <1>4, <1>5

\* Detection lists every Studio that matches, and no other process.
LEMMA DetectedStudios ==
  /\ \A runtime \in HostRuntimes : \A studio \in Matching(runtime) :
        CandidateOf(runtime, studio) \in Detected
  /\ \A candidate \in Detected : candidate.process # None =>
        \E runtime \in HostRuntimes : \E studio \in Matching(runtime) :
           candidate = CandidateOf(runtime, studio)
<1>1. ASSUME NEW runtime \in HostRuntimes, NEW studio \in Matching(runtime)
      PROVE  CandidateOf(runtime, studio) \in Detected
  <2>1. RuntimeDetected(runtime) /\ Matching(runtime) # {} BY DEF RuntimeDetected
  <2>2. CandidateOf(runtime, studio) \in
           {[runtime |-> runtime, process |-> Identity(process)] : process \in Matching(runtime)}
    BY DEF CandidateOf
  <2> QED BY <2>1, <2>2 DEF Detected
<1>2. ASSUME NEW candidate \in Detected, candidate.process # None
      PROVE  \E runtime \in HostRuntimes : \E studio \in Matching(runtime) :
                candidate = CandidateOf(runtime, studio)
  BY <1>2 DEF Detected, CandidateOf
<1> QED BY <1>1, <1>2

LEMMA InitResolver == ResolverInit => ResolverInv
<1> SUFFICES ASSUME ResolverInit PROVE ResolverInv OBVIOUS
<1>1. inspection = NoInspection /\ procs = {} /\ starts = 0 /\ second = 0 BY DEF ResolverInit
<1>2. starts \in 0..MaxStarts /\ second \in 0..starts BY <1>1, NoProcessAssumption
<1> QED BY <1>1, <1>2
        DEF NoInspection, ResolverInv, InspectionShape, FoundOnce, StudiosListed, Traced,
            ListedCandidates

LEMMA HostKeeps == ASSUME ResolverInv, HostNext PROVE ResolverInv'
<1>1. ASSUME NEW pid \in Pids, NEW parent \in PidsIn(procs) \union {None}, NEW program \in Programs,
             ProcessStarts(pid, parent, program)
      PROVE  ResolverInv'
  <2> DEFINE new == [pid |-> pid, parent |-> parent, start |-> second', birth |-> starts',
                     program |-> program]
  <2>1. /\ starts' = starts + 1 /\ starts' \in 1..MaxStarts /\ second' \in 0..starts'
        /\ steady' = FALSE /\ inspection' = inspection
        /\ procs' = procs \union {new} /\ given' = given \union {Identity(new)}
        /\ reused' = reused \union (given \intersect {Identity(new)})
    BY <1>1, NoProcessAssumption DEF ProcessStarts, ResolverInv, InspectionShape
  <2>2. parent \in Pids \union {None}
    BY DEF PidsIn, ResolverInv, InspectionShape, Process
  <2>3. second' \in 0..MaxStarts BY <2>1, NoProcessAssumption
  <2>4. new \in Process
    BY <2>1, <2>2, <2>3 DEF Process
  <2> HIDE DEF new
  <2>5. procs' \subseteq Process BY <2>1, <2>4 DEF ResolverInv, InspectionShape
  <2>6. InspectionShape' /\ FoundOnce' /\ StudiosListed'
    BY <2>1, <2>5, NoProcessAssumption DEF ResolverInv, InspectionShape, FoundOnce, StudiosListed
  <2>7. \A candidate \in inspection.todo : candidate.process # None /\ candidate.process = Identity(new) =>
           candidate.process \in reused'
    BY <2>1 DEF ResolverInv, Traced
  <2>8. \A process \in procs' : Identity(process)' = Identity(process) BY DEF Identity
  <2>9. Traced' BY <2>1, <2>7, <2>8 DEF ResolverInv, Traced
  <2> QED BY <2>6, <2>9 DEF ResolverInv
<1>2. ASSUME NEW process \in procs, ProcessExits(process) PROVE ResolverInv'
  <2>1. steady' = FALSE /\ UNCHANGED <<inspection, starts, second, given, reused>>
    BY <1>2 DEF ProcessExits, startVars
  <2>2. \A child \in procs : child \in Process /\ [child EXCEPT !.parent = None] \in Process
    BY DEF ResolverInv, InspectionShape, Process
  <2>3. procs' \subseteq Process BY <1>2, <2>2 DEF ProcessExits
  <2>4. \A new \in procs' : \E old \in procs :
           Identity(new) = Identity(old) /\ new.birth = old.birth
    <3>1. \A child \in procs : /\ Identity([child EXCEPT !.parent = None]) = Identity(child)
                              /\ [child EXCEPT !.parent = None].birth = child.birth
      BY <2>2 DEF Identity, Process
    <3> QED BY <1>2, <3>1 DEF ProcessExits
  <2>5. Traced' BY <2>1, <2>4 DEF ResolverInv, Traced
  <2> QED BY <2>1, <2>3, <2>5 DEF ResolverInv, InspectionShape, FoundOnce, StudiosListed
<1>3. ASSUME NEW next \in Layouts, InstallationChanges(next) PROVE ResolverInv'
  BY <1>3 DEF InstallationChanges, startVars, ResolverInv, InspectionShape, FoundOnce, StudiosListed,
              Traced, ListedCandidates, HostRuntimes, Matching, MatchesRoots, PrefixOf
<1> QED BY <1>1, <1>2, <1>3 DEF HostNext

LEMMA DetectKeeps == ASSUME ResolverInv, Detect PROVE ResolverInv'
<1> DEFINE ran == {process.birth : process \in procs}
<1>1. /\ UNCHANGED <<context, layout, procs, starts, second, given, reused>> /\ steady' = TRUE
      /\ \/ inspection' = [NoInspection EXCEPT !.pc = "failed"]
         \/ inspection' = [pc |-> "resolving", todo |-> Detected, found |-> {}, ran |-> ran]
  BY DEF Detect, startVars
<1>2. HostRuntimes' = HostRuntimes /\ \A runtime : Matching(runtime)' = Matching(runtime)
  BY <1>1 DEF HostRuntimes, Matching, MatchesRoots, PrefixOf
<1>3. CASE inspection' = [NoInspection EXCEPT !.pc = "failed"]
  BY <1>1, <1>3 DEF NoInspection, ResolverInv, InspectionShape, FoundOnce, StudiosListed, Traced
<1>4. CASE inspection' = [pc |-> "resolving", todo |-> Detected, found |-> {}, ran |-> ran]
  <2>1. /\ inspection'.pc = "resolving" /\ inspection'.todo = Detected /\ inspection'.found = {}
        /\ inspection'.ran = ran
    BY <1>4
  <2>2. ListedCandidates' = Detected BY <2>1 DEF ListedCandidates
  <2>3. StudiosListed' BY <1>2, <2>1, <2>2, DetectedStudios DEF StudiosListed
  <2>4. \A candidate \in Detected : candidate.process # None =>
           \E studio \in procs : candidate.process = Identity(studio)
    BY DetectedStudios DEF CandidateOf, Matching
  <2>5. Traced' BY <1>1, <2>1, <2>4 DEF ResolverInv, Traced
  <2> QED BY <1>1, <1>4, <2>1, <2>3, <2>5 DEF ResolverInv, InspectionShape, FoundOnce
<1> QED BY <1>1, <1>3, <1>4

LEMMA ResolveKeeps ==
  ASSUME ResolverInv, NEW candidate \in inspection.todo, Resolve(candidate)
  PROVE  ResolverInv'
<1> DEFINE new == ResolveCandidate(candidate)
<1>1. /\ inspection.pc = "resolving" /\ UNCHANGED hostVars
      /\ \/ inspection' = [NoInspection EXCEPT !.pc = "failed"]
         \/ inspection' = [inspection EXCEPT !.todo = @ \ {candidate}, !.found = @ \union {new}]
  BY DEF Resolve
<1>2. HostRuntimes' = HostRuntimes /\ (\A runtime : Matching(runtime)' = Matching(runtime))
      /\ UNCHANGED <<steady, procs, starts, second, given, reused>>
  BY <1>1 DEF hostVars, startVars, HostRuntimes, Matching, MatchesRoots, PrefixOf
<1>3. CASE inspection' = [NoInspection EXCEPT !.pc = "failed"]
  BY <1>2, <1>3 DEF NoInspection, ResolverInv, InspectionShape, FoundOnce, StudiosListed, Traced
<1>4. CASE inspection' = [inspection EXCEPT !.todo = @ \ {candidate}, !.found = @ \union {new}]
  <2>1. /\ inspection'.pc = "resolving" /\ inspection'.todo = inspection.todo \ {candidate}
        /\ inspection'.found = inspection.found \union {new}
        /\ inspection'.ran = inspection.ran
        /\ inspection' = [pc |-> inspection'.pc, todo |-> inspection'.todo,
                          found |-> inspection'.found, ran |-> inspection'.ran]
    BY <1>1, <1>4 DEF ResolverInv, InspectionShape
  <2>2. /\ new.id = candidate /\ new.process \in {None, candidate.process}
        /\ (\E process \in procs : candidate.process = Identity(process)) =>
              new.process = candidate.process
        /\ new.process # None => \E process \in procs : /\ candidate.process = Identity(process)
                                                       /\ new.birth = process.birth
    BY ResolvedNames
  <2> HIDE DEF new
  <2>3. \A e \in inspection.found : e.id # candidate BY DEF ResolverInv, FoundOnce
  <2>4. FoundOnce' BY <2>1, <2>2, <2>3 DEF ResolverInv, FoundOnce
  <2>5. ListedCandidates' = ListedCandidates BY <2>1, <2>2 DEF ListedCandidates
  <2>6. ASSUME steady PROVE new.process = candidate.process
    <3>1. CASE candidate.process = None BY <2>2, <3>1
    <3>2. CASE candidate.process # None
      <4>1. PICK runtime \in HostRuntimes :
               \E studio \in Matching(runtime) : candidate = CandidateOf(runtime, studio)
        BY <1>1, <2>6, <3>2 DEF ResolverInv, StudiosListed, ListedCandidates
      <4>2. PICK studio \in Matching(runtime) : candidate = CandidateOf(runtime, studio)
        BY <4>1
      <4>3. studio \in procs /\ candidate.process = Identity(studio)
        BY <4>2 DEF Matching, CandidateOf
      <4> QED BY <2>2, <4>3
    <3> QED BY <3>1, <3>2
  <2>7. StudiosListed'
    BY <1>1, <1>2, <2>1, <2>2, <2>5, <2>6 DEF ResolverInv, StudiosListed
  <2>8. new.process # None => new.birth \in inspection.ran \/ new.process \in reused
    BY <2>2 DEF ResolverInv, Traced
  <2>9. Traced' BY <1>2, <2>1, <2>8 DEF ResolverInv, Traced
  <2> QED BY <1>2, <2>1, <2>4, <2>7, <2>9 DEF ResolverInv, InspectionShape
<1> QED BY <1>1, <1>3, <1>4

LEMMA ConcludeKeeps == ASSUME ResolverInv, Conclude PROVE ResolverInv'
<1>1. /\ inspection.pc = "resolving" /\ inspection.todo = {} /\ UNCHANGED hostVars
      /\ inspection' = [inspection EXCEPT !.pc = "done"]
  BY DEF Conclude
<1>2. HostRuntimes' = HostRuntimes /\ (\A runtime : Matching(runtime)' = Matching(runtime))
      /\ UNCHANGED <<steady, procs, starts, second, given, reused>>
  BY <1>1 DEF hostVars, startVars, HostRuntimes, Matching, MatchesRoots, PrefixOf
<1>3. /\ inspection'.pc = "done" /\ inspection'.todo = inspection.todo
      /\ inspection'.found = inspection.found /\ inspection'.ran = inspection.ran
      /\ inspection' = [pc |-> inspection'.pc, todo |-> inspection'.todo, found |-> inspection'.found,
                        ran |-> inspection'.ran]
  BY <1>1 DEF ResolverInv, InspectionShape
<1> QED BY <1>1, <1>2, <1>3
        DEF ResolverInv, InspectionShape, FoundOnce, StudiosListed, Traced, ListedCandidates

LEMMA NextResolver == ResolverInv /\ [HostNext \/ InspectNext]_resolverVars => ResolverInv'
<1> SUFFICES ASSUME ResolverInv, [HostNext \/ InspectNext]_resolverVars PROVE ResolverInv' OBVIOUS
<1>1. CASE UNCHANGED resolverVars
  BY <1>1 DEF resolverVars, hostVars, startVars, ResolverInv, InspectionShape, FoundOnce,
              StudiosListed, Traced, ListedCandidates, HostRuntimes, Matching, MatchesRoots, PrefixOf
<1> QED BY <1>1, HostKeeps, DetectKeeps, ResolveKeeps, ConcludeKeeps DEF InspectNext

\* The environment of the only match is the only running one.
LEMMA OnlyMatchSelected ==
  ASSUME ResolverInv, inspection.pc = "done", steady,
         NEW runtime \in HostRuntimes, NEW studio \in Matching(runtime), OnlyMatch(runtime, studio)
  PROVE  \E e \in Selected : e.id.runtime = runtime /\ e.process = Identity(studio)
<1>1. PICK e \in inspection.found : e.id = CandidateOf(runtime, studio)
  BY DEF ResolverInv, InspectionShape, StudiosListed, ListedCandidates
<1>2. e.process = Identity(studio) /\ e.id.runtime = runtime
  BY <1>1 DEF ResolverInv, StudiosListed, CandidateOf
<1>3. e.process # None BY <1>2, IdentityIsProcess DEF ResolverInv, Matching
<1>4. ASSUME NEW f \in Running PROVE f = e
  <2>1. f \in inspection.found /\ f.process # None BY DEF Running
  <2>2. f.id \in ListedCandidates /\ f.id.process # None
    BY <2>1 DEF ResolverInv, StudiosListed, ListedCandidates
  <2>3. \E other \in HostRuntimes : \E process \in Matching(other) : f.id = CandidateOf(other, process)
    BY <2>2 DEF ResolverInv, StudiosListed
  <2>4. f.id = e.id BY <1>1, <2>3 DEF OnlyMatch
  <2> QED BY <2>1, <2>4 DEF ResolverInv, FoundOnce
<1>5. Running = {e} BY <1>3, <1>4 DEF Running
<1>6. Selected = {e} BY <1>5, FS_Singleton DEF Selected
<1> QED BY <1>2, <1>6

LEMMA InvImpliesInspection == ResolverInv => InspectionSound
<1> SUFFICES ASSUME ResolverInv, inspection.pc = "done"
             PROVE  /\ ProcessCorrelated /\ Cardinality(Selected) <= 1
                    /\ Cardinality(Running) > 1 => Selected = {}
                    /\ OnlyStudioSelected
  BY DEF InspectionSound
<1>1. ProcessCorrelated BY DEF ResolverInv, FoundOnce, Traced, ProcessCorrelated
<1>2. Cardinality({}) = 0 BY FS_EmptySet
<1>3. Cardinality(Selected) <= 1
  <2>1. CASE Cardinality(Running) = 1 BY <2>1 DEF Selected
  <2>2. CASE Cardinality(Running) # 1 BY <1>2, <2>2 DEF Selected
  <2> QED BY <2>1, <2>2
<1>4. Cardinality(Running) > 1 => Selected = {} BY <1>2 DEF Selected
<1>5. OnlyStudioSelected BY OnlyMatchSelected DEF OnlyStudioSelected
<1> QED BY <1>1, <1>3, <1>4, <1>5

\* For every host, whatever processes start and exit and whatever changes in
\* the file system between the steps of an inspection: an environment stands for
\* the process that was detected unless its pid was used again within the second
\* of its start, and the only Studio is selected.
THEOREM ResolverTheorem == ResolverSpec => []InspectionSound
<1>1. ResolverInit => ResolverInv BY InitResolver
<1>2. ResolverInv /\ [HostNext \/ InspectNext]_resolverVars => ResolverInv' BY NextResolver
<1>3. ResolverInv => InspectionSound BY InvImpliesInspection
<1> QED BY <1>1, <1>2, <1>3, PTL DEF ResolverSpec

----------------------------------------------------------------------------
(* Types                                                                   *)

LEMMA OnlyOne == ASSUME NEW S, Cardinality(S) = 1 PROVE S # {}
  BY FS_EmptySet

LEMMA HintedTyped ==
  ASSUME procs \subseteq Process, NEW candidate \in Candidates
  PROVE  /\ Hinted(candidate) \subseteq procs
         /\ (IF Hinted(candidate) = {} THEN None
             ELSE Identity(CHOOSE process \in Hinted(candidate) : TRUE))
               \in {None} \union Identities
         /\ (IF Hinted(candidate) = {} THEN 0
             ELSE (CHOOSE process \in Hinted(candidate) : TRUE).birth) \in 0..MaxStarts
<1>1. Hinted(candidate) \subseteq procs BY DEF Hinted
<1>2. \A process \in procs : Identity(process) \in Identities /\ process.birth \in 0..MaxStarts
  BY NoProcessAssumption DEF Process, Identity, Identities
<1>3. 0 \in 0..MaxStarts BY NoProcessAssumption
<1> QED BY <1>1, <1>2, <1>3

LEMMA DeploymentTyped ==
  ASSUME layout \in Layout, NEW runtime \in Runtimes, NEW hinted
  PROVE  ResolveDeployment(runtime, hinted) \in Versions \union {None, "configured"}
<1> DEFINE versions == layout.versions[runtime]
           matched == {v \in versions : \E process \in hinted : process.program.version = v}
           newest == {v \in versions : \A w \in versions \ {v} : layout.modified[v] > layout.modified[w]}
<1>1. versions \subseteq Versions BY DEF Layout
<1>2. Cardinality(matched) = 1 => matched # {} BY OnlyOne
<1>3. Cardinality(versions) = 1 => versions # {} BY OnlyOne
<1>4. matched \subseteq versions /\ newest \subseteq versions OBVIOUS
<1>5. SelectDeployment(versions, hinted) =
         IF Cardinality(matched) = 1 THEN CHOOSE v \in matched : TRUE
         ELSE IF Cardinality(versions) = 1 THEN CHOOSE v \in versions : TRUE
         ELSE IF newest # {} THEN CHOOSE v \in newest : TRUE
         ELSE None
  BY DEF SelectDeployment
<1> HIDE DEF versions, matched, newest
<1>6. SelectDeployment(versions, hinted) \in Versions \union {None}
  BY <1>1, <1>2, <1>3, <1>4, <1>5
<1> QED BY <1>6 DEF ResolveDeployment, versions

LEMMA UserTyped ==
  ASSUME layout \in Layout, NEW hinted
  PROVE  SelectUser(hinted) \in Users \union {None}
<1> DEFINE named == {process.program.user : process \in hinted} \ {None}
           withRoblox == {user \in layout.users : IsDetected(user, "Roblox")}
           candidates == IF named # {} THEN named \intersect layout.users
                         ELSE IF withRoblox # {} THEN withRoblox
                         ELSE layout.users
<1>1. candidates \subseteq Users BY DEF Layout
<1>2. Cardinality(candidates) = 1 => candidates # {} BY OnlyOne
<1>3. SelectUser(hinted) = IF Cardinality(candidates) = 1 THEN CHOOSE user \in candidates : TRUE ELSE None
  BY DEF SelectUser
<1> HIDE DEF candidates
<1> QED BY <1>1, <1>2, <1>3

LEMMA AppDataTyped ==
  ASSUME layout \in Layout, NEW runtime \in Runtimes, NEW hinted
  PROVE  ResolveAppData(runtime, hinted) \in Homes
  BY UserTyped DEF ResolveAppData, Homes

LEMMA FirstDetectedTyped ==
  ASSUME NEW a \in Homes, NEW b \in Homes, NEW role
  PROVE  FirstDetected(<<a, b>>, role) \in Homes /\ FirstDetected(<<a>>, role) \in Homes
<1>1. ASSUME NEW owners, NEW n \in {1, 2}, DOMAIN owners = 1..n, \A i \in 1..n : owners[i] \in Homes
      PROVE  FirstDetected(owners, role) \in Homes
  <2> DEFINE present == {i \in DOMAIN owners : owners[i] # None /\ IsDetected(owners[i], role)}
  <2>1. CASE present = {} BY <2>1 DEF FirstDetected, Homes
  <2>2. CASE present # {}
    <3>1. present \subseteq {1, 2} BY <1>1
    <3>2. \E least \in present : \A other \in present : least =< other BY <2>2, <3>1
    <3>3. Min(present) \in present BY <3>2 DEF Min
    <3> QED BY <1>1, <2>2, <3>3 DEF FirstDetected
  <2> QED BY <2>1, <2>2
<1>2. FirstDetected(<<a, b>>, role) \in Homes
  <2>1. DOMAIN <<a, b>> = 1..2 /\ \A i \in 1..2 : <<a, b>>[i] \in Homes OBVIOUS
  <2> QED BY <1>1, <2>1
<1>3. FirstDetected(<<a>>, role) \in Homes
  <2>1. DOMAIN <<a>> = 1..1 /\ \A i \in 1..1 : <<a>>[i] \in Homes OBVIOUS
  <2> QED BY <1>1, <2>1
<1> QED BY <1>2, <1>3

LEMMA ResolvedTyped ==
  ASSUME ResolverTypeOK, NEW candidate \in inspection.todo
  PROVE  EnvironmentTyped(ResolveCandidate(candidate))
<1> DEFINE runtime == candidate.runtime
           hinted == Hinted(candidate)
           deployment == ResolveDeployment(runtime, hinted)
           appdata == ResolveAppData(runtime, hinted)
           main == IF hinted = {} THEN None ELSE Identity(CHOOSE process \in hinted : TRUE)
           birth == IF hinted = {} THEN 0 ELSE (CHOOSE process \in hinted : TRUE).birth
           e == ResolveCandidate(candidate)
<1>1. candidate \in Candidates /\ layout \in Layout /\ procs \subseteq Process
  BY ResolverAssumption DEF ResolverTypeOK
<1>2. runtime \in Runtimes BY <1>1 DEF Candidates
<1>3. deployment \in Versions \union {None, "configured"} BY <1>1, <1>2, DeploymentTyped
<1>4. appdata \in Homes /\ runtime \in Homes /\ None \in Homes
  BY <1>1, <1>2, AppDataTyped DEF Homes
<1>5. ResolveLogs(runtime, appdata) \in Homes /\ FirstDetected(<<appdata>>, "crashes") \in Homes
  BY <1>4, FirstDetectedTyped DEF ResolveLogs
<1>6. ResolveProfiler(runtime, appdata) \in Homes BY <1>4, <1>5 DEF ResolveProfiler
<1>7. main \in {None} \union Identities /\ birth \in 0..MaxStarts BY <1>1, HintedTyped
<1>8. \A pid : RelatedProcesses(runtime, pid) \subseteq Pids
  BY <1>1 DEF RelatedProcesses, Process
<1>9. \A wine : Launcher(runtime, deployment, wine).kind \in {"none", "command", "documented", "wine"}
  BY DEF Launcher
<1> HIDE DEF deployment, appdata, hinted
<1>10. /\ e.id = candidate /\ e.process = main /\ e.birth = birth
       /\ e.related = IF main = None THEN {} ELSE RelatedProcesses(runtime, main.pid)
       /\ e.deployment = deployment /\ e.appdata = appdata
       /\ e.logs = ResolveLogs(runtime, appdata) /\ e.profiler = ResolveProfiler(runtime, appdata)
       /\ e.crashes = FirstDetected(<<appdata>>, "crashes")
       /\ e.launcher = Launcher(runtime, deployment, ResolveWine(runtime, hinted))
  BY DEF ResolveCandidate, Environment, deployment, appdata, hinted
<1> HIDE DEF main, birth, e, runtime
<1>11. e.related \subseteq Pids BY <1>8, <1>10
<1>12. e.launcher.kind \in {"none", "command", "documented", "wine"} BY <1>9, <1>10
<1> QED BY <1>1, <1>3, <1>4, <1>5, <1>6, <1>7, <1>10, <1>11, <1>12 DEF EnvironmentTyped, e

LEMMA DetectedTyped == ASSUME ResolverTypeOK PROVE Detected \subseteq Candidates
<1>1. HostRuntimes \subseteq Runtimes BY DEF HostRuntimes, Runtimes
<1>2. \A process \in procs : Identity(process) \in Identities
  BY DEF ResolverTypeOK, Process, Identity, Identities
<1>3. \A runtime \in Runtimes : /\ [runtime |-> runtime, process |-> None] \in Candidates
                                /\ \A process \in Matching(runtime) :
                                      [runtime |-> runtime, process |-> Identity(process)] \in Candidates
  BY <1>2 DEF Matching, Candidates
<1>4. ASSUME NEW candidate \in Detected PROVE candidate \in Candidates
  <2>1. PICK runtime \in HostRuntimes :
           \/ candidate = [runtime |-> runtime, process |-> None]
           \/ \E process \in Matching(runtime) :
                 candidate = [runtime |-> runtime, process |-> Identity(process)]
    BY DEF Detected
  <2> QED BY <1>1, <1>3, <2>1
<1> QED BY <1>4

LEMMA InspectTyped ==
  ASSUME ResolverTypeOK, InspectionShape, InspectNext
  PROVE  ResolverTypeOK'
<1>0. \A e : EnvironmentTyped(e)' <=> EnvironmentTyped(e) BY DEF EnvironmentTyped
<1>1. CASE Detect
  <2>1. Detected \subseteq Candidates BY DetectedTyped
  <2>2. UNCHANGED <<context, layout, procs, starts, second, given, reused>> /\ steady' = TRUE
    BY <1>1 DEF Detect, startVars
  <2>3. {process.birth : process \in procs} \subseteq 1..MaxStarts BY DEF ResolverTypeOK, Process
  <2>4. /\ inspection'.pc \in {"resolving", "failed"} /\ inspection'.todo \in {{}, Detected}
        /\ inspection'.found = {} /\ inspection'.ran \in {{}, {process.birth : process \in procs}}
    BY <1>1 DEF Detect, NoInspection
  <2> QED BY <2>1, <2>2, <2>3, <2>4 DEF ResolverTypeOK
<1>2. ASSUME NEW candidate \in inspection.todo, Resolve(candidate) PROVE ResolverTypeOK'
  <2>1. UNCHANGED <<context, layout, procs, starts, second, given, reused, steady>>
    BY <1>2 DEF Resolve, hostVars, startVars
  <2>2. EnvironmentTyped(ResolveCandidate(candidate)) BY ResolvedTyped
  <2>3. CASE InvalidFor(candidate)
    <3>1. /\ inspection'.pc = "failed" /\ inspection'.todo = {} /\ inspection'.found = {}
          /\ inspection'.ran = {}
      BY <1>2, <2>3 DEF Resolve, NoInspection
    <3> QED BY <2>1, <3>1 DEF ResolverTypeOK
  <2>4. CASE ~InvalidFor(candidate)
    <3>1. /\ inspection'.pc = "resolving" /\ inspection'.todo = inspection.todo \ {candidate}
          /\ inspection'.found = inspection.found \union {ResolveCandidate(candidate)}
          /\ inspection'.ran = inspection.ran
      BY <1>2, <2>4 DEF Resolve, InspectionShape
    <3> QED BY <1>0, <2>1, <2>2, <3>1 DEF ResolverTypeOK
  <2> QED BY <2>3, <2>4
<1>3. CASE Conclude
  <2>1. UNCHANGED <<context, layout, procs, starts, second, given, reused, steady>>
    BY <1>3 DEF Conclude, hostVars, startVars
  <2>2. /\ inspection'.pc = "done" /\ inspection'.todo = inspection.todo
        /\ inspection'.found = inspection.found /\ inspection'.ran = inspection.ran
    BY <1>3 DEF Conclude, InspectionShape
  <2> QED BY <1>0, <2>1, <2>2 DEF ResolverTypeOK
<1> QED BY <1>1, <1>2, <1>3 DEF InspectNext

LEMMA HostTyped ==
  ASSUME ResolverTypeOK, ResolverInv, HostNext
  PROVE  ResolverTypeOK'
<1>1. procs' \subseteq Process /\ starts' \in 0..MaxStarts /\ second' \in 0..starts'
  BY HostKeeps DEF ResolverInv, InspectionShape
<1>2. inspection' = inspection /\ context' = context BY DEF HostNext, ProcessStarts, ProcessExits, InstallationChanges
<1>3. layout' \in Layouts /\ steady' \in BOOLEAN
  BY DEF HostNext, ProcessStarts, ProcessExits, InstallationChanges, ResolverTypeOK
<1>4. reused' \subseteq given' /\ given' \subseteq Identities
  <2>1. CASE UNCHANGED <<given, reused>> BY <2>1 DEF ResolverTypeOK
  <2>2. ASSUME NEW pid \in Pids, NEW parent, NEW program, ProcessStarts(pid, parent, program)
        PROVE  reused' \subseteq given' /\ given' \subseteq Identities
    <3> DEFINE new == [pid |-> pid, parent |-> parent, start |-> second', birth |-> starts',
                       program |-> program]
    <3>1. second' \in 0..MaxStarts BY <1>1, NoProcessAssumption
    <3>2. Identity(new) \in Identities BY <3>1 DEF Identity, Identities
    <3>3. /\ given' = given \union {Identity(new)}
          /\ reused' = reused \union (given \intersect {Identity(new)})
      BY <2>2 DEF ProcessStarts
    <3> HIDE DEF new
    <3> QED BY <3>2, <3>3 DEF ResolverTypeOK
  <2> QED BY <2>1, <2>2 DEF HostNext, ProcessExits, InstallationChanges, startVars
<1> QED BY <1>1, <1>2, <1>3, <1>4 DEF ResolverTypeOK, EnvironmentTyped

\* The inspection is over: its outcome was used.
LEMMA EndsKeeps ==
  ASSUME ResolverInv, InspectionEnds
  PROVE  /\ ResolverInv' /\ InspectionSound'
         /\ ResolverTypeOK => ResolverTypeOK'
<1>1. /\ inspection'.pc = "none" /\ inspection'.todo = {} /\ inspection'.found = {}
      /\ inspection' = [pc |-> "none", todo |-> {}, found |-> {}, ran |-> {}]
      /\ UNCHANGED <<context, layout, procs, starts, second, given, reused, steady>>
  BY DEF InspectionEnds, NoInspection, hostVars, startVars
<1> QED BY <1>1
        DEF ResolverInv, InspectionShape, FoundOnce, StudiosListed, Traced, InspectionSound,
            ResolverTypeOK

LEMMA ResolverTypesKept ==
  ASSUME ResolverTypeOK, ResolverInv, [HostNext \/ InspectNext]_resolverVars
  PROVE  ResolverTypeOK'
<1>1. CASE UNCHANGED resolverVars
  BY <1>1 DEF resolverVars, hostVars, startVars, ResolverTypeOK, EnvironmentTyped
<1> QED BY <1>1, HostTyped, InspectTyped DEF ResolverInv

LEMMA InitResolverTypes == ResolverInit => ResolverTypeOK
<1> SUFFICES ASSUME ResolverInit PROVE ResolverTypeOK OBVIOUS
<1>1. /\ inspection.pc = "none" /\ inspection.todo = {} /\ inspection.found = {}
      /\ inspection.ran = {}
  BY DEF ResolverInit, NoInspection
<1>2. starts \in 0..MaxStarts /\ second \in 0..starts BY NoProcessAssumption DEF ResolverInit
<1> QED BY <1>1, <1>2 DEF ResolverInit, ResolverTypeOK

\* The monitor counts its waits while it may still wait.
MonitorTyped ==
    /\ provider \in Providers
    /\ monitor = [pc |-> monitor.pc, environment |-> monitor.environment,
                  attempt |-> monitor.attempt, path |-> monitor.path, waits |-> monitor.waits,
                  place |-> monitor.place]
    /\ backend = [environment |-> backend.environment, mcp |-> backend.mcp,
                  place |-> backend.place, errors |-> backend.errors]
    /\ monitor.attempt \in 0..2 /\ monitor.waits \in 0..MaxWaits
    /\ monitor.path \in {None, "discover", "initialize"}
    /\ monitor.place \in Places \union {None} /\ backend.place \in Places \union {None}
    /\ backend.mcp \in {"none", "connecting", "connected", "unavailable"}
    /\ backend.environment \in Candidates \union {None}
    /\ backend.errors \subseteq {"startup", "mcp"}
    /\ monitor.pc \in {"launching", "negotiating", "relaunching", "waiting"} =>
          monitor.waits < MaxWaits

LEMMA InitMonitorTyped == MonitorInit => MonitorTyped
<1> SUFFICES ASSUME MonitorInit PROVE MonitorTyped OBVIOUS
<1>1. /\ monitor = [pc |-> "starting", environment |-> None, attempt |-> 0, path |-> None,
                    waits |-> 0, place |-> None]
  BY DEF MonitorInit, Idle
<1>2. backend = [environment |-> None, mcp |-> "none", place |-> None, errors |-> {}]
      /\ provider \in Providers
  BY DEF MonitorInit
<1>3. 0 \in 0..MaxWaits BY MonitorAssumption
<1> QED BY <1>1, <1>2, <1>3 DEF MonitorTyped

LEMMA OnlyPlaceTyped == ASSUME provider \in Providers, Listed = "one" PROVE TheOnlyPlace \in Places
<1>1. provider.lists \subseteq Places BY ProviderAssumption DEF Provider
<1>2. provider.lists # {} BY OnlyOne DEF Listed
<1> QED BY <1>1, <1>2 DEF TheOnlyPlace

LEMMA UnavailableTyped ==
  ASSUME MonitorTyped, Unavailable, UNCHANGED provider
  PROVE  MonitorTyped'
<1>1. /\ monitor' = [pc |-> "inspecting", environment |-> None, attempt |-> 0, path |-> None,
                     waits |-> 0, place |-> None]
  BY DEF Unavailable, Idle
<1>2. backend' = [environment |-> backend.environment, mcp |-> "unavailable", place |-> None,
                  errors |-> backend.errors \union {"mcp"}]
  BY DEF Unavailable, SetHealth, MonitorTyped
<1>3. 0 \in 0..MaxWaits BY MonitorAssumption
<1> QED BY <1>1, <1>2, <1>3 DEF MonitorTyped

LEMMA GoToTyped ==
  ASSUME MonitorTyped, NEW pc, GoTo(pc), UNCHANGED <<provider, backend>>,
         pc \in {"relaunching", "disconnecting", "listing", "checking"},
         pc = "relaunching" => monitor.pc = "negotiating"
  PROVE  MonitorTyped'
<1>1. monitor' = [pc |-> pc, environment |-> monitor.environment,
                  attempt |-> monitor.attempt, path |-> monitor.path, waits |-> monitor.waits,
                  place |-> monitor.place]
  BY DEF GoTo, MonitorTyped
<1> QED BY <1>1 DEF MonitorTyped

LEMMA SetPlaceTyped ==
  ASSUME MonitorTyped, NEW name \in Places, SetPlaceName(name), UNCHANGED provider
  PROVE  MonitorTyped'
<1>1. monitor' = [pc |-> IF monitor.pc = "waiting" THEN "verifying" ELSE "checking",
                  environment |-> monitor.environment,
                  attempt |-> monitor.attempt, path |-> monitor.path, waits |-> monitor.waits,
                  place |-> name]
  BY DEF SetPlaceName, MonitorTyped
<1>2. backend' = [environment |-> backend.environment, mcp |-> backend.mcp, place |-> name,
                  errors |-> backend.errors]
  BY DEF SetPlaceName, MonitorTyped
<1> QED BY <1>1, <1>2 DEF MonitorTyped

LEMMA MonitorStepTyped ==
  ASSUME MonitorTyped, ResolverTypeOK, MonitorNext
  PROVE  MonitorTyped'
<1>1. CASE Inspecting BY <1>1 DEF Inspecting, monitorVars, MonitorTyped
<1>2. CASE MonitorStarts
  <2>1. Selected # {} => (CHOOSE e \in Selected : TRUE).id \in Candidates
    BY DEF Selected, Running, ResolverTypeOK, EnvironmentTyped
  <2>2. monitor' = [pc |-> "inspecting", environment |-> None, attempt |-> 0, path |-> None,
                    waits |-> 0, place |-> None]
    BY <1>2 DEF MonitorStarts, Idle
  <2>3. backend' = [environment |-> IF Selected = {} THEN None
                                    ELSE (CHOOSE e \in Selected : TRUE).id,
                    mcp |-> backend.mcp, place |-> backend.place,
                    errors |-> IF inspection.pc = "failed" THEN {"startup"} ELSE {}]
    BY <1>2 DEF MonitorStarts, MonitorTyped
  <2>4. provider' = provider BY <1>2 DEF MonitorStarts
  <2>5. 0 \in 0..MaxWaits BY MonitorAssumption
  <2> QED BY <2>1, <2>2, <2>3, <2>4, <2>5 DEF MonitorTyped
<1>3. CASE Bind
  <2>1. provider' = provider BY <1>3 DEF Bind
  <2>2. CASE Unavailable BY <2>1, <2>2, UnavailableTyped
  <2>3. CASE SetHealth("connecting") /\ \E e : monitor' = [Idle EXCEPT !.pc = "launching",
                                                                      !.environment = e]
    <3>1. PICK e : monitor' = [pc |-> "launching", environment |-> e, attempt |-> 0, path |-> None,
                               waits |-> 0, place |-> None]
      BY <2>3 DEF Idle
    <3>2. backend' = [environment |-> backend.environment, mcp |-> "connecting",
                      place |-> backend.place, errors |-> backend.errors \ {"mcp"}]
      BY <2>3 DEF SetHealth, MonitorTyped
    <3>3. 0 \in 0..MaxWaits /\ 0 < MaxWaits BY MonitorAssumption
    <3> QED BY <2>1, <3>1, <3>2, <3>3 DEF MonitorTyped
  <2> QED BY <1>3, <2>2, <2>3 DEF Bind
<1>4. ASSUME NEW attempt \in 1..2, Spawn(attempt), UNCHANGED provider,
             monitor.pc \in {"launching", "relaunching"}
      PROVE  MonitorTyped'
  <2>1. monitor' = [pc |-> "negotiating", environment |-> monitor.environment,
                    attempt |-> attempt, path |-> monitor.path, waits |-> monitor.waits,
                    place |-> monitor.place]
    BY <1>4 DEF Spawn, MonitorTyped
  <2>2. attempt \in 0..2 /\ monitor.waits < MaxWaits /\ UNCHANGED <<provider, backend>>
    BY <1>4 DEF Spawn, MonitorTyped
  <2>3. /\ monitor'.pc = "negotiating" /\ monitor'.attempt = attempt
        /\ monitor'.waits = monitor.waits /\ monitor'.path = monitor.path
        /\ monitor'.place = monitor.place /\ monitor'.environment = monitor.environment
    BY <2>1
  <2> QED BY <2>1, <2>2, <2>3 DEF MonitorTyped
<1>5. CASE Launch
  <2>1. monitor.pc = "launching" /\ provider' = provider BY <1>5 DEF Launch, At
  <2>2. Spawn(1) \/ Unavailable BY <1>5 DEF Launch
  <2> QED BY <1>4, <2>1, <2>2, UnavailableTyped
<1>6. CASE Relaunch
  <2>1. monitor.pc = "relaunching" /\ provider' = provider BY <1>6 DEF Relaunch, At
  <2>2. Spawn(2) \/ Unavailable BY <1>6 DEF Relaunch
  <2> QED BY <1>4, <2>1, <2>2, UnavailableTyped
<1>7. CASE Negotiated
  <2>1. monitor.pc = "negotiating" /\ UNCHANGED <<provider, backend>> BY <1>7 DEF Negotiated, At
  <2>2. monitor' = [pc |-> "waiting", environment |-> monitor.environment,
                    attempt |-> monitor.attempt,
                    path |-> IF provider.speaks = "discover" THEN "discover" ELSE "initialize",
                    waits |-> monitor.waits, place |-> monitor.place]
    BY <1>7 DEF Negotiated, MonitorTyped
  <2> QED BY <2>1, <2>2 DEF MonitorTyped
<1>8. CASE NegotiationFails
  <2>1. monitor.pc = "negotiating" /\ provider' = provider BY <1>8 DEF NegotiationFails, At
  <2>2. (GoTo("relaunching") /\ UNCHANGED backend) \/ Unavailable BY <1>8 DEF NegotiationFails
  <2> QED BY <2>1, <2>2, GoToTyped, UnavailableTyped
<1>9. CASE CallFails BY <1>9, GoToTyped DEF CallFails
<1>10. CASE Disconnect BY <1>10, UnavailableTyped DEF Disconnect, At
<1>11. CASE WaitForStudio
  <2>1. monitor.pc = "waiting" /\ provider' = provider BY <1>11 DEF WaitForStudio, At
  <2>2. CASE Listed = "one" /\ SetPlaceName(TheOnlyPlace)
    BY <2>1, <2>2, OnlyPlaceTyped, SetPlaceTyped DEF MonitorTyped
  <2>3. CASE GoTo("disconnecting") /\ UNCHANGED backend BY <2>1, <2>3, GoToTyped
  <2>4. CASE /\ monitor' = [monitor EXCEPT !.waits = @ + 1,
                                           !.pc = IF GivesUp(monitor.waits)
                                                  THEN "disconnecting" ELSE @]
             /\ UNCHANGED backend
    <3>1. monitor' = [pc |-> IF monitor.waits + 1 = MaxWaits THEN "disconnecting" ELSE "waiting",
                      environment |-> monitor.environment,
                      attempt |-> monitor.attempt, path |-> monitor.path,
                      waits |-> monitor.waits + 1, place |-> monitor.place]
      BY <2>1, <2>4 DEF GivesUp, MonitorTyped
    <3>2. monitor.waits + 1 \in 0..MaxWaits /\ (monitor.waits + 1 # MaxWaits => monitor.waits + 1 < MaxWaits)
      BY <2>1, MonitorAssumption DEF MonitorTyped
    <3>3. /\ monitor'.pc \in {"disconnecting", "waiting"}
          /\ monitor'.pc = "waiting" => monitor.waits + 1 < MaxWaits
          /\ monitor'.waits = monitor.waits + 1 /\ monitor'.attempt = monitor.attempt
          /\ monitor'.path = monitor.path /\ monitor'.place = monitor.place
      BY <3>1, <3>2
    <3>4. monitor' = [pc |-> monitor'.pc, environment |-> monitor'.environment,
                      attempt |-> monitor'.attempt, path |-> monitor'.path,
                      waits |-> monitor'.waits, place |-> monitor'.place]
      BY <3>1
    <3> QED BY <2>1, <2>4, <3>2, <3>3, <3>4 DEF MonitorTyped
  <2> QED BY <1>11, <2>2, <2>3, <2>4 DEF WaitForStudio
<1>12. CASE StateVerified
  <2>1. provider' = provider BY <1>12 DEF StateVerified, At
  <2>2. monitor' = [pc |-> "listing", environment |-> monitor.environment,
                    attempt |-> monitor.attempt, path |-> monitor.path, waits |-> monitor.waits,
                    place |-> monitor.place]
    BY <1>12 DEF StateVerified, GoTo, MonitorTyped
  <2>3. backend' = [environment |-> backend.environment, mcp |-> "connected",
                    place |-> backend.place, errors |-> backend.errors \ {"mcp"}]
    BY <1>12 DEF StateVerified, SetHealth, MonitorTyped
  <2> QED BY <2>1, <2>2, <2>3 DEF MonitorTyped
<1>13. CASE ListStudios
  <2>1. provider' = provider BY <1>13 DEF ListStudios, At
  <2>2. \/ Unavailable
        \/ Listed = "one" /\ SetPlaceName(TheOnlyPlace)
        \/ GoTo("checking") /\ UNCHANGED backend
    BY <1>13 DEF ListStudios
  <2> QED BY <2>1, <2>2, UnavailableTyped, OnlyPlaceTyped, SetPlaceTyped, GoToTyped DEF MonitorTyped
<1> QED BY <1>1, <1>2, <1>3, <1>5, <1>6, <1>7, <1>8, <1>9, <1>10, <1>11, <1>12, <1>13
        DEF MonitorNext

\* A step of the monitor inspects, ends an inspection, or leaves the resolver alone.
LEMMA MonitorStepResolver ==
  ASSUME \/ MonitorNext
         \/ ProviderNext
         \/ HostNext /\ UNCHANGED monitorVars
  PROVE  InspectNext \/ InspectionEnds \/ HostNext \/ UNCHANGED resolverVars
<1>1. CASE ProviderNext BY <1>1 DEF ProviderNext, ProviderChanges, ChildDies
<1>2. CASE MonitorNext
  <2>1. Inspecting => InspectNext BY DEF Inspecting
  <2>2. MonitorStarts \/ Bind => InspectionEnds BY DEF MonitorStarts, Bind
  <2>3. Launch \/ Relaunch \/ Negotiated \/ NegotiationFails \/ CallFails \/ Disconnect
        \/ WaitForStudio \/ StateVerified \/ ListStudios => UNCHANGED resolverVars
    BY DEF Launch, Relaunch, Negotiated, NegotiationFails, CallFails, Disconnect, WaitForStudio,
           StateVerified, ListStudios, At
  <2> QED BY <1>2, <2>1, <2>2, <2>3 DEF MonitorNext
<1> QED BY <1>1, <1>2

LEMMA MonitorStepResolverInv ==
  ASSUME ResolverInv, ResolverTypeOK,
         [\/ MonitorNext
          \/ ProviderNext
          \/ HostNext /\ UNCHANGED monitorVars]_<<resolverVars, monitorVars>>
  PROVE  ResolverInv' /\ ResolverTypeOK'
<1>1. CASE InspectionEnds BY <1>1, EndsKeeps
<1>2. CASE [HostNext \/ InspectNext]_resolverVars BY <1>2, NextResolver, ResolverTypesKept
<1> QED BY <1>1, <1>2, MonitorStepResolver

LEMMA ProviderTyped ==
  ASSUME MonitorTyped, ProviderNext \/ UNCHANGED <<provider, monitor, backend>>
  PROVE  MonitorTyped'
<1>1. provider' \in Providers /\ UNCHANGED <<monitor, backend>>
  BY DEF ProviderNext, ProviderChanges, ChildDies, MonitorTyped
<1> QED BY <1>1 DEF MonitorTyped

\* Every state of the monitor has its type: every inspection that ends has an
\* outcome the connection can use, attempts and waits keep their bounds, and a
\* place that is published is one that was listed.  And every inspection made
\* for a connection is as sound as one made alone.
THEOREM MonitorTypes == MonitorSpec => [](MonitorTypeOK /\ InspectionSound)
<1> DEFINE Inv == ResolverTypeOK /\ ResolverInv /\ MonitorInv /\ MonitorTyped
           Next == \/ MonitorNext
                   \/ ProviderNext
                   \/ HostNext /\ UNCHANGED monitorVars
<1>1. MonitorInit => Inv
  BY InitInv, InitMonitorTyped, InitResolver, InitResolverTypes DEF MonitorInit
<1>2. Inv /\ [Next]_<<resolverVars, monitorVars>> => Inv'
  <2> SUFFICES ASSUME Inv, [Next]_<<resolverVars, monitorVars>> PROVE Inv' OBVIOUS
  <2>1. ResolverInv' /\ ResolverTypeOK' BY MonitorStepResolverInv
  <2>2. MonitorInv' BY MonitorStepInv, OthersInv
  <2>3. MonitorTyped'
    <3>1. MonitorNext => MonitorTyped' BY MonitorStepTyped
    <3>2. ProviderNext \/ UNCHANGED monitorVars => MonitorTyped' BY ProviderTyped DEF monitorVars
    <3> QED BY <3>1, <3>2
  <2> QED BY <2>1, <2>2, <2>3
<1>3. Inv => MonitorTypeOK
  BY DEF MonitorTyped, MonitorTypeOK, MonitorInv, Shapes, MonitorPlaces
<1>4. Inv => InspectionSound BY InvImpliesInspection
<1> QED BY <1>1, <1>2, <1>3, <1>4, PTL DEF MonitorSpec

=============================================================================
