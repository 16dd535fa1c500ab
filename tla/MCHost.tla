-------------------------------- MODULE MCHost --------------------------------
(***************************************************************************)
(* Instances of the parts of the host side that share no state: each       *)
(* behaviour explores one of them, the others stay in their initial state. *)
(***************************************************************************)
EXTENDS StudioMonitor, DaemonEndpoint, Pairing, BackgroundJobs, StudioPull

CONSTANTS v1, v2, u1, p1, p2, j1, j2

VARIABLE part     \* the part this behaviour explores

hostRunVars == <<part, resolverVars, monitorVars, endpointVars, pairingVars, jobVars, pullVars>>

Linux == [platform |-> "linux", dataRoot |-> "unset", prefix |-> "unset",
          deployment |-> "unset", appdata |-> "unset", command |-> "unset"]

MCContexts == {Linux,
               [Linux EXCEPT !.prefix = "valid", !.command = "valid"],
               [Linux EXCEPT !.platform = "windows", !.deployment = "valid"],
               [Linux EXCEPT !.platform = "macos", !.appdata = "invalid"]}

Empty == [dirs |-> {}, versions |-> [r \in Runtimes |-> {}], modified |-> [v \in Versions |-> 1],
          mcp |-> {}, users |-> {}, mapped |-> TRUE]

Installed(runtime, versions) ==
    [Empty EXCEPT !.dirs = {<<runtime, "data">>, <<runtime, "prefix">>, <<"configured", "prefix">>,
                            <<u1, "Roblox">>, <<u1, "logs">>},
                  !.versions[runtime] = versions, !.mcp = {v1}, !.users = {u1}]

Flatpak == Installed("VinegarFlatpak", {v1})
Upgraded == [Installed("VinegarFlatpak", {v1, v2}) EXCEPT !.modified[v2] = 2]
Native == [Installed("VinegarNative", {v1}) EXCEPT
              !.dirs = @ \union {<<"VinegarFlatpak", "config">>}, !.mapped = FALSE]

MCLayouts == {Empty, Flatpak, Upgraded, Native,
              [Installed("RobloxNative", {v1}) EXCEPT !.mcp = {"mcp.bat"}]}

Other == [studio |-> FALSE, prefix |-> None, roots |-> {}, mentions |-> {}, version |-> None,
          flatpak |-> FALSE, user |-> None, wine |-> FALSE, redirect |-> None]
Wine == [Other EXCEPT !.wine = TRUE, !.prefix = "VinegarFlatpak"]
FlatpakStudio == [Other EXCEPT !.studio = TRUE, !.prefix = "VinegarFlatpak", !.flatpak = TRUE,
                               !.version = v1, !.user = u1, !.wine = TRUE]

MCPrograms == {Wine, FlatpakStudio,
               [Other EXCEPT !.studio = TRUE, !.roots = {"VinegarNative"}, !.version = v2],
               [Other EXCEPT !.studio = TRUE, !.mentions = {"configured"}]}

Healthy == [speaks |-> "discover", lists |-> {p1}, wellFormed |-> TRUE, healthy |-> TRUE]

MCProviders == [speaks: {"discover", "initialize"}, lists: {{}, {p1}, {p1, p2}},
                wellFormed: {TRUE}, healthy: {TRUE}]
    \union [speaks: {"initialize", "other"}, lists: {{p2}}, wellFormed: {TRUE}, healthy: {FALSE}]
    \union {[Healthy EXCEPT !.speaks = "fallback", !.wellFormed = FALSE]}

\* Module A with a child "init", a module B and a script with its path.
MCFullPath == <<1, 2, 3, 3>>
MCClass == <<"module", "module", "module", "script">>
MCService == <<"s1", "s1", "s2">>
MCBelow == {<<1, 2>>}
MCLocalPath == [x \in (1..3) \X {"module", "script"} \X BOOLEAN |->
                   IF x[1] = 1 THEN IF x[3] THEN "A/init" ELSE "A"
                   ELSE IF x[1] = 2 THEN "A/init"
                   ELSE IF x[2] = "module" THEN "B" ELSE "B.server"]
MCExtracted == [text \in {"x newline", "y"} |-> IF text = "y" THEN "y" ELSE "x"]

ASSUME InstanceAssumption ==
    {Empty, Flatpak} \subseteq Layouts /\ FlatpakStudio \in Programs /\ 1 \in Pids

\* The clock of start times begins with the first process.
Epoch == starts > 0 => second < starts

\* The resolver meets the installations of its platform.
Fitting == layout # Empty /\ (context.platform = "linux" <=> "mcp.bat" \notin layout.mcp)

HostInit ==
    /\ part \in {"resolver", "monitor", "endpoint", "pairing", "jobs", "pull"}
    /\ MonitorInit /\ EndpointInit /\ PairingInit /\ JobsInit /\ PullInit
    /\ IF part = "resolver" THEN Fitting ELSE context = Linux /\ layout = Flatpak
    /\ part # "monitor" => provider = Healthy
    /\ \A i \in Instances : place[i] # "y" /\ (part # "pull" => place[i] = Gone)

\* The instance of the monitor: one host, two installations, Studio alone.
ResolverStep == (HostNext /\ Fitting' /\ Epoch') \/ InspectNext
MonitorStep ==
    \/ MonitorNext
    \/ ProviderNext
    \/ /\ \/ ProcessStarts(1, None, FlatpakStudio)
          \/ \E process \in procs : ProcessExits(process)
          \/ \E next \in {Flatpak, Empty} : InstallationChanges(next)
       /\ UNCHANGED monitorVars /\ Epoch'

HostRunNext ==
    /\ UNCHANGED part
    /\ \/ /\ part = "resolver" /\ ResolverStep
          /\ UNCHANGED <<monitorVars, endpointVars, pairingVars, jobVars, pullVars>>
       \/ /\ part = "monitor" /\ MonitorStep
          /\ UNCHANGED <<endpointVars, pairingVars, jobVars, pullVars>>
       \/ /\ part = "endpoint" /\ EndpointNext
          /\ UNCHANGED <<resolverVars, monitorVars, pairingVars, jobVars, pullVars>>
       \/ /\ part = "pairing" /\ PairingNext
          /\ UNCHANGED <<resolverVars, monitorVars, endpointVars, jobVars, pullVars>>
       \/ /\ part = "jobs" /\ JobsNext
          /\ UNCHANGED <<resolverVars, monitorVars, endpointVars, pairingVars, pullVars>>
       \/ /\ part = "pull" /\ PullNext
          /\ UNCHANGED <<resolverVars, monitorVars, endpointVars, pairingVars, jobVars>>

\* The monitor is one task that the runtime keeps running.
Spec == /\ HostInit /\ [][HostRunNext]_hostRunVars
        /\ WF_hostRunVars(part = "monitor" /\ MonitorNext
                          /\ UNCHANGED <<part, endpointVars, pairingVars, jobVars, pullVars>>)

HostTypeOK == MonitorTypeOK /\ EndpointTypeOK /\ PairingTypeOK /\ JobsTypeOK /\ PullTypeOK

MonitorConnects == part = "monitor" => MonitorReconnects
=============================================================================
