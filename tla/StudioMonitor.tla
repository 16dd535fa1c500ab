----------------------------- MODULE StudioMonitor -----------------------------
(***************************************************************************)
(* The Studio MCP monitor of the daemon: main of crates/lattice-daemon     *)
(* inspects the host once, then studio_mcp_supervisor.rs inspects it again *)
(* for every connection, launches the resolved StudioMCP process through   *)
(* ResolvedStudioMcpProcessLauncher, and publishes the health of its       *)
(* StudioMcpClient in the backend state of the bridge.                     *)
(*                                                                         *)
(* StudioMCP itself is the environment: what it speaks and lists changes   *)
(* at any time.  A healthy provider can be started and answers each call;  *)
(* one that is not healthy may fail to start, fail any call, time out or   *)
(* die.  Sleeps and timeouts end.                                          *)
(***************************************************************************)
EXTENDS StudioResolver

CONSTANTS
    Providers,    \* behaviours of StudioMCP, see Provider
    Places,       \* names of places
    MaxWaits      \* list calls of wait_for_studio, 20 in the code

ASSUME MonitorAssumption == /\ None \notin {"discover", "initialize"} \union Places
                            /\ MaxWaits \in Nat \ {0}

Provider == [speaks: {"discover", "fallback", "initialize", "other"},
             lists: SUBSET Places,         \* list_roblox_studios, a Studio per place
             wellFormed: BOOLEAN,          \* whether it can be parsed
             healthy: BOOLEAN]

ASSUME ProviderAssumption == Providers \subseteq Provider

VARIABLES
    provider,     \* StudioMCP
    children,     \* StudioMCP processes started by the daemon and not yet gone
    monitor,      \* where run_connection is, and its locals
    backend       \* StudioBridgeBackendState

monitorVars == <<provider, children, monitor, backend>>

Idle == [pc |-> "inspecting", environment |-> None, attempt |-> 0, path |-> None,
         waits |-> 0, place |-> None]

MonitorInit == /\ ResolverInit
               /\ provider \in Providers
               /\ children = 0
               /\ monitor = [Idle EXCEPT !.pc = "starting"]
               /\ backend = [environment |-> None, mcp |-> "none", place |-> None, errors |-> {}]

\* PlatformResolver::current().inspect(): each call is an inspection of its own.
Inspecting == /\ monitor.pc \in {"starting", "inspecting"}
              /\ inspection.pc = "none" \/ inspection.pc = "resolving"
              /\ InspectNext
              /\ UNCHANGED monitorVars

InspectionEnds == /\ inspection.pc \in {"done", "failed"}
                  /\ inspection' = NoInspection
                  /\ UNCHANGED hostVars

\* main: the environment summary is taken once.
MonitorStarts ==
    /\ monitor.pc = "starting"
    /\ InspectionEnds
    /\ backend' = [backend EXCEPT
                     !.environment = IF Selected = {} THEN None
                                     ELSE (CHOOSE e \in Selected : TRUE).id,
                     !.errors = IF inspection.pc = "failed" THEN {"startup"} ELSE {}]
    /\ monitor' = Idle
    /\ UNCHANGED <<provider, children>>

(***************************************************************************)
(* set_health, and how run_connection ends.  It never returns Ok.          *)
(***************************************************************************)
SetHealth(state) ==
    backend' = [backend EXCEPT !.mcp = state,
                               !.place = IF state = "unavailable" THEN None ELSE @,
                               !.errors = IF state = "unavailable" THEN @ \union {"mcp"}
                                          ELSE @ \ {"mcp"}]

\* The monitor sleeps RETRY_INTERVAL and inspects again.
Unavailable == /\ SetHealth("unavailable")
               /\ monitor' = Idle

GoTo(pc) == monitor' = [monitor EXCEPT !.pc = pc]

At(pc) == monitor.pc = pc /\ UNCHANGED <<resolverVars, provider>>

\* kill_on_drop: the client of an early return, or one disconnected.
ChildGone == children' = IF children = 0 THEN 0 ELSE children - 1

(***************************************************************************)
(* Launching.                                                              *)
(***************************************************************************)
Bind ==
    /\ monitor.pc = "inspecting"
    /\ InspectionEnds
    /\ LET usable == {e \in Selected : inspection.pc = "done" /\ e.process # None}
       IN  IF usable = {} THEN Unavailable
           ELSE /\ monitor' = [Idle EXCEPT !.pc = "launching",
                                           !.environment = CHOOSE e \in usable : TRUE]
                /\ SetHealth("connecting")
    /\ UNCHANGED <<provider, children>>

\* validate_launch_spec: the files of the launcher, as they are now.
LaunchFilesExist(launcher) ==
    /\ launcher.kind = "documented" =>
          (IF context.platform = "windows" THEN "mcp.bat" ELSE launcher.deployment) \in layout.mcp
    /\ launcher.kind = "wine" => launcher.deployment \in layout.mcp

Spawn(attempt) == /\ monitor' = [monitor EXCEPT !.pc = "negotiating", !.attempt = attempt]
                  /\ children' = children + 1
                  /\ UNCHANGED backend

\* The executable of a wine or configured launcher may be missing, and any spawn
\* may fail, when StudioMCP is not healthy.
SpawnFails == ~provider.healthy

Launch ==
    /\ At("launching")
    /\ LET launcher == monitor.environment.launcher
           usable == launcher.kind # "none" /\ LaunchFilesExist(launcher)
       IN  \/ usable /\ Spawn(1)
           \/ (~usable \/ SpawnFails) /\ Unavailable /\ UNCHANGED children

\* The second attempt is spawned without looking at the files again.
Relaunch == At("relaunching") /\ (Spawn(2) \/ (SpawnFails /\ Unavailable /\ UNCHANGED children))

\* What serve_with_lifecycle negotiates: Auto tries server/discover and falls
\* back to initialize if that method is unknown; Initialize only initializes.
NegotiableAutomatic == {"discover", "fallback"}      \* the second attempt as the first
Negotiable == IF monitor.attempt = 1 THEN {"discover", "fallback"} ELSE {"fallback", "initialize"}

\* legacy_studio_evidence: StudioMCP closed saying that it expected initialize.
LegacyEvidence == provider.speaks = "initialize"

Negotiated ==
    /\ At("negotiating") /\ children > 0
    /\ provider.speaks \in Negotiable
    /\ monitor' = [monitor EXCEPT !.pc = "waiting",
                                  !.path = IF provider.speaks = "discover" THEN "discover"
                                           ELSE "initialize"]
    /\ UNCHANGED <<children, backend>>

\* cleanup_failed_attempt, then the fallback if the evidence allows it.
CleanUpForgotten == UNCHANGED children
CleanUp == ChildGone

NegotiationFails ==
    /\ At("negotiating")
    /\ ~provider.healthy \/ children = 0 \/ provider.speaks \notin Negotiable
    /\ CleanUp
    /\ \/ /\ monitor.attempt = 1 /\ LegacyEvidence
          /\ GoTo("relaunching")
          /\ UNCHANGED backend
       \/ /\ monitor.attempt = 1 /\ LegacyEvidence => ~provider.healthy
          /\ Unavailable

(***************************************************************************)
(* Calls of the connected client.                                          *)
(***************************************************************************)
Answered == children > 0
MayFail == ~provider.healthy \/ children = 0

\* call_tool failed: disconnect waits for the child before health is set.
CallFails == /\ monitor.pc \in {"waiting", "verifying", "listing", "checking"}
             /\ MayFail
             /\ GoTo("disconnecting")
             /\ UNCHANGED <<resolverVars, provider, children, backend>>

Disconnect == /\ At("disconnecting")
              /\ ChildGone
              /\ Unavailable

\* studio_descriptors and the choice of the only one.
Listed == IF ~provider.wellFormed THEN "malformed"
          ELSE IF provider.lists = {} THEN "none"
          ELSE IF Cardinality(provider.lists) = 1 THEN "one" ELSE "many"

SetPlaceName(place) == /\ backend' = [backend EXCEPT !.place = place]
                       /\ monitor' = [monitor EXCEPT !.place = place, !.pc =
                                         IF @ = "waiting" THEN "verifying" ELSE "checking"]
                       /\ UNCHANGED children

TheOnlyPlace == CHOOSE place \in provider.lists : TRUE

\* After an empty listing, `waits` before it; the mutated form tries once more.
GivesUpLate(waits) == waits = MaxWaits
GivesUp(waits) == waits + 1 = MaxWaits

WaitForStudio ==
    /\ At("waiting") /\ Answered
    /\ \/ Listed = "one" /\ SetPlaceName(TheOnlyPlace)
       \/ /\ Listed = "none"
          /\ monitor' = [monitor EXCEPT !.waits = @ + 1,
                                        !.pc = IF GivesUp(monitor.waits)
                                               THEN "disconnecting" ELSE @]
          /\ UNCHANGED <<children, backend>>
       \/ /\ Listed \in {"many", "malformed"}
          /\ GoTo("disconnecting")
          /\ UNCHANGED <<children, backend>>

StateVerified ==
    /\ \/ At("verifying") \/ At("checking")
    /\ Answered
    /\ SetHealth("connected")
    /\ GoTo("listing")
    /\ UNCHANGED children

\* The health loop: a listing that is not of one Studio drops the client.
ListStudios ==
    /\ At("listing") /\ Answered
    /\ IF Listed # "one" THEN Unavailable /\ ChildGone
       ELSE IF TheOnlyPlace # monitor.place THEN SetPlaceName(TheOnlyPlace)
       ELSE GoTo("checking") /\ UNCHANGED <<children, backend>>

MonitorNext == \/ Inspecting \/ MonitorStarts \/ Bind \/ Launch \/ Relaunch
               \/ Negotiated \/ NegotiationFails \/ CallFails \/ Disconnect
               \/ WaitForStudio \/ StateVerified \/ ListStudios

(***************************************************************************)
(* The provider.                                                           *)
(***************************************************************************)
ProviderChanges(next) == /\ next # provider
                         /\ provider' = next
                         /\ UNCHANGED <<resolverVars, children, monitor, backend>>

ChildDies == /\ ~provider.healthy /\ children > 0
             /\ ChildGone
             /\ UNCHANGED <<resolverVars, provider, monitor, backend>>

ProviderNext == (\E next \in Providers : ProviderChanges(next)) \/ ChildDies

MonitorSpec ==
    MonitorInit /\ [][\/ MonitorNext
                      \/ ProviderNext
                      \/ HostNext /\ UNCHANGED monitorVars]_<<resolverVars, monitorVars>>

(***************************************************************************)
(* Properties.                                                             *)
(***************************************************************************)
MonitorTypeOK ==
    /\ ResolverTypeOK
    /\ provider \in Providers
    /\ children \in Nat
    /\ monitor.pc \in {"starting", "inspecting", "launching", "negotiating", "relaunching",
                       "waiting", "verifying", "listing", "checking", "disconnecting"}
    /\ monitor.attempt \in 0..2 /\ monitor.waits \in 0..MaxWaits
    /\ monitor.path \in {None, "discover", "initialize"}
    /\ {monitor.place, backend.place} \subseteq Places \union {None}
    /\ backend.mcp \in {"none", "connecting", "connected", "unavailable"}
    /\ backend.environment \in Candidates \union {None}
    /\ backend.errors \subseteq {"startup", "mcp"}

\* At most one StudioMCP process runs, only while a connection is negotiated or
\* used, whichever attempt failed, and however the provider dies.
ChildOwned ==
    children <= IF monitor.pc \in {"starting", "inspecting", "launching", "relaunching"}
                THEN 0 ELSE 1

\* What the companion is told follows the connection: a place is published only
\* for a connection that listed it, connected only when the state was verified
\* over this connection, and a failure leaves neither behind.
HealthTruthful ==
    /\ backend.mcp = "connected" =>
          /\ monitor.pc \in {"listing", "checking", "disconnecting"}
          /\ monitor.path # None
    /\ backend.place # None =>
          backend.mcp \in {"connecting", "connected"} /\ backend.place = monitor.place
    /\ backend.mcp = "unavailable" <=> "mcp" \in backend.errors

MonitorTruthful == ChildOwned /\ HealthTruthful

\* Nothing stands in the way of a connection: the resolver would select one
\* running Studio with a launcher, and StudioMCP is healthy and lists one place.
Settled ==
    /\ ~InvalidForDetection /\ \A candidate \in Detected : ~InvalidFor(candidate)
    /\ LET running == {e \in {ResolveCandidate(candidate) : candidate \in Detected} :
                          e.process # None}
       IN  /\ Cardinality(running) = 1
           /\ \A e \in running : e.launcher.kind # "none"
    /\ provider.healthy /\ provider.speaks # "other" /\ Listed = "one"

\* A monitor that lost or never had its connection gets one when what stood in
\* its way is gone for good.
MonitorReconnects ==
    <>[]Settled /\ <>[][FALSE]_<<layout, provider>> => <>[](backend.mcp = "connected")
=============================================================================
