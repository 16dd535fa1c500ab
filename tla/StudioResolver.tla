---------------------------- MODULE StudioResolver ----------------------------
(***************************************************************************)
(* PlatformResolver of crates/lattice-platform/src/resolver.rs: how the    *)
(* Studio environments of a host are found and one of them selected, while *)
(* Studio processes start and exit and installations change.               *)
(*                                                                         *)
(* An inspection takes one process snapshot to detect candidates and a new *)
(* one to resolve each of them, so every candidate is a step; the files    *)
(* looked at in one of these steps are read together.  Paths are modelled  *)
(* by what they name: a directory is a pair of its owner (a runtime, a     *)
(* Wine user, or "configured" for an override) and its role.               *)
(***************************************************************************)
EXTENDS Naturals, FiniteSets, FiniteSetsExt

CONSTANTS
    Contexts,     \* configurations of the resolver, see Context
    Layouts,      \* what may be installed, see Layout
    Programs,     \* what a process may run, see Program
    Versions,     \* deployments
    Users,        \* Wine user profiles, the shared ones left out
    Pids,         \* process identifiers, numbers
    MaxStarts,    \* bound on the processes started
    None

\* No process stands for the absence of one.
ASSUME NoProcessAssumption == None \notin [pid: Pids, start: 0..MaxStarts] /\ MaxStarts \in Nat

Vinegar == {"VinegarNative", "VinegarFlatpak"}
Runtimes == Vinegar \union {"RobloxNative"}
Override == {"unset", "valid", "invalid"}

Context == [platform: {"linux", "windows", "macos"}, dataRoot: Override, prefix: Override,
            deployment: Override, appdata: Override, command: Override]

Layout == [dirs: SUBSET ((Runtimes \union Users \union {"configured"}) \X
                         {"config", "data", "cache", "prefix", "redirect", "Roblox", "logs", "Profiler", "crashes"}),
           versions: [Runtimes -> SUBSET Versions],
           modified: [Versions -> Nat],
           \* the deployments with a StudioMCP binary, and mcp.bat on Windows
           mcp: SUBSET (Versions \union {"configured", "mcp.bat"}),
           users: SUBSET Users,
           mapped: BOOLEAN]       \* a Wine drive covers the deployments

\* What of a process the resolver reads: its name, WINEPREFIX, the data roots,
\* prefixes and deployments its executable or arguments are under (the prefix of
\* a runtime is under its data root), FLATPAK_ID, the user name, whether it is a
\* wine executable and the AppData redirect it names.
Program == {program \in
            [studio: BOOLEAN, prefix: Runtimes \union {"configured", None},
             roots: SUBSET Runtimes, mentions: SUBSET (Runtimes \union {"configured"}),
             version: Versions \union {None}, flatpak: BOOLEAN,
             user: Users \union {None}, wine: BOOLEAN,
             redirect: Runtimes \union {None}] :
            program.mentions \ {"configured"} \subseteq program.roots}

VARIABLES
    context,      \* PlatformContext, fixed when the daemon starts
    layout,       \* the file system
    procs,        \* the running processes
    starts,       \* processes started so far
    second,       \* the time of the last start, in the whole seconds of start times
    given,        \* the identities processes were given
    reused,       \* those given twice: a pid used again within a second
    inspection,   \* the inspect call under way, or the last one
    steady        \* no process started or exited since the last detection

startVars == <<starts, second, given, reused>>
hostVars == <<context, layout, procs, startVars, steady>>
resolverVars == <<hostVars, inspection>>

ASSUME ResolverAssumption ==
    Contexts \subseteq Context /\ Layouts \subseteq Layout /\ Programs \subseteq Program

\* The birth of a process tells apart those with the same pid and start.
Process == [pid: Pids, parent: Pids \union {None}, start: 0..MaxStarts, birth: 1..MaxStarts,
            program: Programs]

Identities == [pid: Pids, start: 0..MaxStarts]
Identity(process) == [pid |-> process.pid, start |-> process.start]

\* StudioEnvironmentCandidate; the fields but origin are its fingerprint.
Candidates == [runtime: Runtimes, process: {None} \union Identities]

\* ran: the births of the processes in the snapshot of the detection.
NoInspection == [pc |-> "none", todo |-> {}, found |-> {}, ran |-> {}]

ResolverInit == /\ context \in Contexts
                /\ layout \in Layouts
                /\ procs = {}
                /\ starts = 0 /\ second = 0
                /\ given = {} /\ reused = {}
                /\ inspection = NoInspection
                /\ steady = TRUE

(***************************************************************************)
(* The host.                                                               *)
(***************************************************************************)
PidsIn(set) == {process.pid : process \in set}

ProcessStarts(pid, parent, program) ==
    /\ starts < MaxStarts
    /\ pid \notin PidsIn(procs)
    /\ starts' = starts + 1
    /\ second' \in {second, second + 1}
    /\ LET process == [pid |-> pid, parent |-> parent, start |-> second', birth |-> starts',
                       program |-> program]
       IN  /\ procs' = procs \union {process}
           /\ given' = given \union {Identity(process)}
           /\ reused' = reused \union (given \intersect {Identity(process)})
    /\ steady' = FALSE
    /\ UNCHANGED <<context, layout, inspection>>

ProcessExits(process) ==                \* the host adopts its children
    /\ procs' = {IF child.parent = process.pid THEN [child EXCEPT !.parent = None] ELSE child :
                    child \in procs \ {process}}
    /\ steady' = FALSE
    /\ UNCHANGED <<context, layout, startVars, inspection>>

InstallationChanges(next) ==
    /\ next # layout
    /\ layout' = next
    /\ UNCHANGED <<context, procs, startVars, inspection, steady>>

(***************************************************************************)
(* detect_all.                                                             *)
(***************************************************************************)
IsDetected(owner, role) == <<owner, role>> \in layout.dirs
AnyDetected(runtime) == \E role \in {"config", "data", "cache"} : IsDetected(runtime, role)

\* The prefix override stands for the prefix of either Vinegar runtime.
PrefixOf(runtime) == IF context.prefix = "unset" THEN runtime ELSE "configured"

MatchesRoots(process, runtime) ==
    /\ process.program.studio
    /\ runtime \in Vinegar =>
          \/ process.program.prefix = PrefixOf(runtime)
          \/ PrefixOf(runtime) \in process.program.mentions
          \/ runtime \in process.program.roots
          \/ runtime = "VinegarFlatpak" /\ process.program.flatpak

Matching(runtime) == {process \in procs : MatchesRoots(process, runtime)}

HasNativeOverride == \E name \in {"dataRoot", "prefix", "deployment", "appdata"} :
                        context[name] # "unset"

HostRuntimes == IF context.platform = "linux" THEN Vinegar ELSE {"RobloxNative"}

RuntimeDetected(runtime) ==
    \/ AnyDetected(runtime)
    \/ Matching(runtime) # {}
    \/ runtime = "VinegarNative" /\ HasNativeOverride
    \/ context.platform = "macos" /\ layout.versions["RobloxNative"] # {}

Detected ==
    UNION {IF ~RuntimeDetected(runtime) THEN {}
           ELSE IF Matching(runtime) = {}
           THEN {[runtime |-> runtime, process |-> None]}
           ELSE {[runtime |-> runtime, process |-> Identity(process)] :
                    process \in Matching(runtime)} :
              runtime \in HostRuntimes}

InvalidForDetection ==
    \/ context.command = "invalid"
    \/ context.platform = "linux" /\ context.dataRoot = "invalid"

Detect ==
    /\ inspection.pc \in {"none", "done", "failed"}
    /\ inspection' = IF InvalidForDetection THEN [NoInspection EXCEPT !.pc = "failed"]
                     ELSE [pc |-> "resolving", todo |-> Detected, found |-> {},
                           ran |-> {process.birth : process \in procs}]
    /\ steady' = TRUE
    /\ UNCHANGED <<context, layout, procs, startVars>>

(***************************************************************************)
(* resolve_candidate and what it calls.                                    *)
(***************************************************************************)
HintedByPid(candidate) ==              \* the start time not compared
    {process \in procs : /\ candidate.process # None
                         /\ process.pid = candidate.process.pid}

Hinted(candidate) ==
    {process \in procs : candidate.process = Identity(process)}

PrefixAvailable(runtime) ==
    runtime \in Vinegar /\ IsDetected(PrefixOf(runtime), "prefix")

\* guest_for_host of a path in a deployment, over discover_drive_mappings.
Translatable(runtime) == PrefixAvailable(runtime) /\ layout.mapped

\* select_deployment: the one the process runs from, the only one, the newest.
SelectDeployment(versions, hinted) ==
    LET matched == {v \in versions : \E process \in hinted : process.program.version = v}
        newest  == {v \in versions : \A w \in versions \ {v} : layout.modified[v] > layout.modified[w]}
    IN  IF Cardinality(matched) = 1 THEN CHOOSE v \in matched : TRUE
        ELSE IF Cardinality(versions) = 1 THEN CHOOSE v \in versions : TRUE
        ELSE IF newest # {} THEN CHOOSE v \in newest : TRUE
        ELSE None

ResolveDeployment(runtime, hinted) ==
    IF context.deployment = "valid" THEN "configured"
    ELSE SelectDeployment(layout.versions[runtime], hinted)

\* The Wine user profile: the one the process names, the only one that holds a
\* Roblox directory, or the only one there is.
SelectUser(hinted) ==
    LET named == {process.program.user : process \in hinted} \ {None}
        withRoblox == {user \in layout.users : IsDetected(user, "Roblox")}
        candidates == IF named # {} THEN named \intersect layout.users
                      ELSE IF withRoblox # {} THEN withRoblox
                      ELSE layout.users
    IN  IF Cardinality(candidates) = 1 THEN CHOOSE user \in candidates : TRUE ELSE None

\* The owner of the available Roblox AppData directory.
ResolveAppData(runtime, hinted) ==
    IF context.appdata = "valid" THEN "configured"
    ELSE IF runtime = "RobloxNative"
    THEN IF IsDetected(runtime, "data") THEN runtime ELSE None
    ELSE IF ~PrefixAvailable(runtime) THEN None
    ELSE IF /\ IsDetected(runtime, "redirect")
            /\ \E process \in procs : process.program.redirect = runtime
    THEN runtime
    ELSE LET user == SelectUser(hinted)
         IN  IF user # None /\ IsDetected(user, "Roblox") THEN user ELSE None

\* first_detected of directories, then available_resolved: the owner of the first.
FirstDetected(owners, role) ==
    LET present == {i \in DOMAIN owners : owners[i] # None /\ IsDetected(owners[i], role)}
    IN  IF present = {} THEN None ELSE owners[Min(present)]

ResolveLogs(runtime, appdata) == FirstDetected(<<appdata, runtime>>, "logs")

ResolveProfiler(runtime, appdata) ==
    IF FirstDetected(<<appdata>>, "Profiler") # None THEN appdata
    ELSE ResolveLogs(runtime, appdata)

\* resolve_wine_runtime: the Studio process, then all of them in pid order.
ResolveWine(runtime, hinted) ==
    LET wine(set) == PidsIn({process \in set : process.program.wine})
    IN  IF runtime \notin Vinegar THEN None
        ELSE IF wine(hinted) # {} THEN Min(wine(hinted))
        ELSE IF wine(procs) # {} THEN Min(wine(procs))
        ELSE None

\* related_processes: those of the prefix and the relatives of the Studio.
IsAncestor(pid, of) ==
    LET parents == [p \in PidsIn(procs) |->
                       (CHOOSE process \in procs : process.pid = p).parent]
        up[p \in Pids \union {None}, hops \in 0..Cardinality(Pids)] ==
            \/ p = pid
            \/ /\ hops > 0 /\ p \in DOMAIN parents
               /\ up[parents[p], hops - 1]
    IN  up[of, Cardinality(Pids)]

RelatedProcesses(runtime, main) ==
    LET prefix == IF PrefixAvailable(runtime) THEN PrefixOf(runtime) ELSE None
        inPrefix(process) == prefix # None /\ process.program.prefix = prefix
        mentions(process) == prefix \in process.program.mentions
    IN  {process.pid : process \in {p \in procs :
            /\ p.pid # main
            /\ inPrefix(p) \/ IsAncestor(p.pid, main) \/ IsAncestor(main, p.pid)
            /\ prefix # None => inPrefix(p) \/ mentions(p) \/ IsAncestor(p.pid, main)}}

\* resolve_mcp_launcher: the configured command, the documented launcher of
\* Windows and macOS, or on Linux a wine command that needs all the evidence.
Launcher(runtime, deployment, wine) ==
    IF context.command = "valid" THEN [kind |-> "command"]
    ELSE IF context.platform = "windows" /\ "mcp.bat" \in layout.mcp
    THEN [kind |-> "documented", deployment |-> None]
    ELSE IF deployment \notin layout.mcp \/ context.platform = "windows" THEN [kind |-> "none"]
    ELSE IF context.platform = "macos" THEN [kind |-> "documented", deployment |-> deployment]
    ELSE IF wine # None /\ Translatable(runtime)
    THEN [kind |-> "wine", deployment |-> deployment, prefix |-> PrefixOf(runtime), wine |-> wine]
    ELSE [kind |-> "none"]

\* The StudioEnvironment of what was found out about the candidate, and the birth
\* of the process it stands for.
Environment(candidate, hinted, deployment, appdata) ==
    LET runtime == candidate.runtime
        main    == IF hinted = {} THEN None ELSE Identity(CHOOSE process \in hinted : TRUE)
        birth   == IF hinted = {} THEN 0 ELSE (CHOOSE process \in hinted : TRUE).birth
    IN  [id         |-> candidate,
         process    |-> main,
         birth      |-> birth,
         related    |-> IF main = None THEN {} ELSE RelatedProcesses(runtime, main.pid),
         deployment |-> deployment,
         appdata    |-> appdata,
         logs       |-> ResolveLogs(runtime, appdata),
         profiler   |-> ResolveProfiler(runtime, appdata),
         crashes    |-> FirstDetected(<<appdata>>, "crashes"),
         launcher   |-> Launcher(runtime, deployment, ResolveWine(runtime, hinted))]

ResolveCandidate(candidate) ==
    LET hinted == Hinted(candidate)
    IN  Environment(candidate, hinted, ResolveDeployment(candidate.runtime, hinted),
                    ResolveAppData(candidate.runtime, hinted))

InvalidFor(candidate) ==
    \/ candidate.runtime \in Vinegar /\ context.prefix = "invalid"
    \/ context.deployment = "invalid"
    \/ context.appdata = "invalid"

Resolve(candidate) ==
    /\ inspection.pc = "resolving" /\ candidate \in inspection.todo
    /\ inspection' = IF InvalidFor(candidate) THEN [NoInspection EXCEPT !.pc = "failed"]
                     ELSE [inspection EXCEPT !.todo = @ \ {candidate},
                                             !.found = @ \union {ResolveCandidate(candidate)}]
    /\ UNCHANGED hostVars

Conclude ==
    /\ inspection.pc = "resolving" /\ inspection.todo = {}
    /\ inspection' = [inspection EXCEPT !.pc = "done"]
    /\ UNCHANGED hostVars

\* inspect: the environment with the only running Studio, else the only one.
Running == {e \in inspection.found : e.process # None}

Selected == IF Cardinality(Running) = 1 THEN Running
            ELSE IF Running = {} /\ Cardinality(inspection.found) = 1 THEN inspection.found
            ELSE {}

HostNext == \/ \E pid \in Pids, parent \in PidsIn(procs) \union {None}, program \in Programs :
               ProcessStarts(pid, parent, program)
            \/ \E process \in procs : ProcessExits(process)
            \/ \E next \in Layouts : InstallationChanges(next)

InspectNext == Detect \/ (\E candidate \in inspection.todo : Resolve(candidate)) \/ Conclude

ResolverSpec == ResolverInit /\ [][HostNext \/ InspectNext]_resolverVars

(***************************************************************************)
(* Properties.                                                             *)
(***************************************************************************)
Homes == Runtimes \union Users \union {None, "configured"}

EnvironmentTyped(e) ==
    /\ e.id \in Candidates
    /\ e.process \in {None} \union Identities
    /\ e.birth \in 0..MaxStarts
    /\ e.deployment \in Versions \union {None, "configured"}
    /\ e.related \subseteq Pids
    /\ {e.appdata, e.logs, e.profiler, e.crashes} \subseteq Homes
    /\ e.launcher.kind \in {"none", "command", "documented", "wine"}

ResolverTypeOK ==
    /\ context \in Contexts /\ layout \in Layouts
    /\ procs \subseteq Process
    /\ starts \in 0..MaxStarts /\ second \in 0..starts
    /\ reused \subseteq given /\ given \subseteq Identities
    /\ inspection.pc \in {"none", "resolving", "done", "failed"}
    /\ inspection.todo \subseteq Candidates
    /\ \A e \in inspection.found : EnvironmentTyped(e)
    /\ inspection.ran \subseteq 1..MaxStarts
    /\ steady \in BOOLEAN

\* A resolved environment stands for a process with the pid and the start time its
\* identifier was made from: the very process that was detected, unless that pid
\* was used again within the second of its start, which start times in whole
\* seconds cannot tell.
ProcessCorrelated ==
    \A e \in inspection.found : e.process # None =>
        /\ e.process = e.id.process
        /\ e.birth \in inspection.ran \/ e.process \in reused

OnlyMatch(runtime, studio) ==
    \A other \in HostRuntimes : \A process \in Matching(other) : other = runtime /\ process = studio

\* If the processes did not change during an inspection and exactly one Studio
\* matches the host's runtimes, and only one of them (an override of the prefix,
\* or arguments that name both, make it match both Vinegar runtimes), its
\* environment is the selected one.
OnlyStudioSelected ==
    steady =>
        \A runtime \in HostRuntimes : \A studio \in Matching(runtime) : OnlyMatch(runtime, studio) =>
            \E e \in Selected : e.id.runtime = runtime /\ e.process = Identity(studio)

\* An inspection selects at most one environment, never one of several running
\* Studios, and the only Studio if it can; a process that reused a pid passes for
\* the detected one only if it started within the same second.
InspectionSound ==
    inspection.pc = "done" => /\ ProcessCorrelated
                              /\ Cardinality(Selected) <= 1
                              /\ Cardinality(Running) > 1 => Selected = {}
                              /\ OnlyStudioSelected
=============================================================================
