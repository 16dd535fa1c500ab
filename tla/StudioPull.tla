------------------------------ MODULE StudioPull ------------------------------
(***************************************************************************)
(* run_studio_pull of crates/lattice-cli: the scripts of the live place    *)
(* are listed and read through StudioMCP, compared with the files of a     *)
(* workspace, and written over them.  Somebody edits the place and         *)
(* somebody the files while this goes on; every call of StudioMCP and      *)
(* every file operation is a step, and may fail or be the last one.        *)
(***************************************************************************)
EXTENDS Naturals

CONSTANTS
    Instances,    \* the scripts there may be in the place
    FullPath,     \* [Instances -> Nat]: their full paths, numbered in sorted order
    Class,        \* [Instances -> their class names]
    Service,      \* [full paths -> service]
    Below,        \* pairs of full paths, the first a prefix of the second
    LocalPath,    \* [full path, class, has children -> file], see LocalFile
    TooDeep,      \* instances below max_depth or behind head_limit
    Texts,        \* sources
    Extracted,    \* extract_script_source of each of the Texts
    UserText,     \* what only the user of the workspace writes
    Gone, NoText, Unread,
    MaxEdits      \* bound on the edits of the model

\* What a file may hold.
Sources == {Extracted[text] : text \in Texts}
Contents == Sources \union {UserText, NoText}

\* Every script of a listed class has a file; a content that was read is one.
ASSUME PullAssumption ==
    /\ FullPath \in [Instances -> Nat]
    /\ \A i \in Instances, children \in BOOLEAN : <<FullPath[i], Class[i], children>> \in DOMAIN LocalPath
    /\ Gone \notin Texts /\ Unread \notin Contents
    /\ MaxEdits \in Nat

VARIABLES
    place,        \* [Instances -> source, or Gone]
    disk,         \* [Files -> content, or NoText]
    project,      \* whether place.json is there
    pull,         \* the pull under way, or the last one
    edits,        \* edits so far
    quiet,        \* nobody edited anything since the pull started
    wrote,        \* the files the pull under way, or the last one, wrote
    lost          \* files a pull without --force replaced although the
                  \* content it found in them is not Studio's

pullVars == <<place, disk, project, pull, edits, quiet, wrote, lost>>

Paths == {FullPath[i] : i \in Instances}
Files == {LocalPath[x] : x \in DOMAIN LocalPath}
Services == {Service[p] : p \in Paths}

Node(i) == [path |-> FullPath[i], class |-> Class[i]]

NoPull == [pc |-> "idle", force |-> FALSE, dry |-> FALSE, services |-> {}, nodes |-> {},
           files |-> {}, todo |-> {}]

PullInit == /\ place \in [Instances -> Texts \union {Gone}]
            /\ disk = [f \in Files |-> NoText]
            /\ project = FALSE
            /\ pull = NoPull
            /\ edits = 0 /\ quiet = TRUE /\ wrote = {} /\ lost = {}

Edited == edits < MaxEdits /\ edits' = edits + 1 /\ quiet' = FALSE

StudioEdits(i, text) == /\ place[i] # text
                        /\ place' = [place EXCEPT ![i] = text]
                        /\ Edited
                        /\ UNCHANGED <<disk, project, pull, wrote, lost>>

UserEdits(f) == /\ disk' = [disk EXCEPT ![f] = UserText]
                /\ Edited
                /\ UNCHANGED <<place, project, pull, wrote, lost>>

PullAt(pc) == pull.pc = pc /\ UNCHANGED <<place, edits>>

StartPull(force, dry) ==
    /\ pull.pc \in {"idle", "failed", "conflict", "dry_run", "pulled"} /\ UNCHANGED <<place, edits>>
    /\ pull' = [NoPull EXCEPT !.pc = "searching", !.force = force, !.dry = dry,
                              !.services = Services]
    /\ quiet' = TRUE /\ wrote' = {}
    /\ UNCHANGED <<disk, project, lost>>

\* An error, or the end of the process: what was written stays.
PullFails == /\ PullAt("searching") \/ PullAt("reading") \/ PullAt("comparing") \/ PullAt("writing")
             /\ pull' = [pull EXCEPT !.pc = "failed"]
             /\ UNCHANGED <<disk, project, quiet, wrote, lost>>

\* search_game_tree lists the scripts a service has now, up to its limits.
Present == {i \in Instances \ TooDeep : place[i] # Gone}

Search(service) ==
    /\ PullAt("searching") /\ service \in pull.services
    /\ pull' = [pull EXCEPT !.services = @ \ {service},
                            !.nodes = @ \union {Node(i) : i \in {i \in Present : Service[FullPath[i]] = service}}]
    /\ UNCHANGED <<disk, project, quiet, wrote, lost>>

\* sort_by, then dedup_by the full path, whatever the class.
Deduplicated(nodes) ==
    {kept \in SUBSET nodes : \A node \in nodes :
        \E first \in kept : {k \in kept : k.path = node.path} = {first}}

Searched ==
    /\ PullAt("searching") /\ pull.services = {}
    /\ \E kept \in Deduplicated(pull.nodes) :
          pull' = [pull EXCEPT !.pc = "reading", !.nodes = kept,
                               !.todo = {node.path : node \in kept}]
    /\ UNCHANGED <<disk, project, quiet, wrote, lost>>

\* local_script_path
LocalFile(node, paths) ==
    LocalPath[<<node.path, node.class, \E p \in paths : <<node.path, p>> \in Below>>]

\* extract_script_source of what script_read answers.
ScriptSource(i) == Extracted[place[i]]

\* The scripts, and then the files, are taken in the order of their paths.
Turn(path) == path \in pull.todo /\ \A other \in pull.todo : path <= other

\* script_read answers with a script of this path, whichever it is.
ReadScript(i) ==
    /\ PullAt("reading")
    /\ Turn(FullPath[i]) /\ place[i] # Gone
    /\ LET node == CHOOSE node \in pull.nodes : node.path = FullPath[i]
       IN  pull' = [pull EXCEPT
              !.todo = @ \ {node.path},
              !.files = @ \union {[path |-> node.path, seen |-> Unread,
                                   file |-> LocalFile(node, {n.path : n \in pull.nodes}),
                                   source |-> ScriptSource(i)]}]
    /\ UNCHANGED <<disk, project, quiet, wrote, lost>>

AllRead ==
    /\ PullAt("reading") /\ pull.todo = {}
    /\ pull' = [pull EXCEPT !.pc = "comparing"]
    /\ UNCHANGED <<disk, project, quiet, wrote, lost>>

Unseen == {file \in pull.files : file.seen = Unread}

CompareFile ==
    /\ PullAt("comparing")
    /\ \E file \in Unseen :
          /\ \A other \in Unseen : file.path <= other.path
          /\ pull' = [pull EXCEPT !.files = (@ \ {file}) \union
                                               {[file EXCEPT !.seen = disk[file.file]]}]
    /\ UNCHANGED <<disk, project, quiet, wrote, lost>>

Conflicts == {file \in pull.files : file.seen \notin {NoText, file.source}}

MayWriteProjectOnly == pull.force \/ ~project     \* the changed files forgotten
MayWrite == pull.force \/ (Conflicts = {} /\ ~project)

Compared ==
    /\ PullAt("comparing") /\ Unseen = {}
    /\ pull' = IF pull.dry THEN [pull EXCEPT !.pc = "dry_run"]
               ELSE IF ~MayWrite THEN [pull EXCEPT !.pc = "conflict"]
               ELSE [pull EXCEPT !.pc = "writing", !.todo = {file.path : file \in pull.files}]
    /\ UNCHANGED <<disk, project, quiet, wrote, lost>>

WriteFile ==
    /\ PullAt("writing")
    /\ \E file \in pull.files :
          /\ Turn(file.path)
          /\ disk' = [disk EXCEPT ![file.file] = file.source]
          /\ pull' = [pull EXCEPT !.todo = @ \ {file.path}]
          /\ wrote' = wrote \union {file.file}
          /\ lost' = IF ~pull.force /\ file.seen = disk[file.file] /\ file \in Conflicts
                     THEN lost \union {file.file} ELSE lost
    /\ UNCHANGED <<project, quiet>>

WriteProject ==
    /\ PullAt("writing") /\ pull.todo = {}
    /\ project' = TRUE
    /\ pull' = [pull EXCEPT !.pc = "pulled"]
    /\ wrote' = wrote \union {"place.json"}
    /\ lost' = IF ~pull.force /\ project THEN lost \union {"place.json"} ELSE lost
    /\ UNCHANGED <<disk, quiet>>

PullNext ==
    \/ \E i \in Instances : ReadScript(i) \/ \E text \in Texts \union {Gone} : StudioEdits(i, text)
    \/ \E f \in Files : UserEdits(f)
    \/ \E force, dry \in BOOLEAN : StartPull(force, dry)
    \/ PullFails
    \/ \E service \in pull.services : Search(service)
    \/ Searched \/ AllRead \/ CompareFile \/ Compared \/ WriteFile \/ WriteProject

PullSpec == PullInit /\ [][PullNext]_pullVars

(***************************************************************************)
(* Properties.                                                             *)
(***************************************************************************)
PullFiles == [path: Paths, seen: Contents \union {Unread}, file: Files, source: Sources]

Pulls == [pc: {"idle", "searching", "reading", "comparing", "writing", "failed",
               "conflict", "dry_run", "pulled"},
          force: BOOLEAN, dry: BOOLEAN, services: SUBSET Services,
          nodes: SUBSET {Node(i) : i \in Instances}, todo: SUBSET Paths, files: SUBSET PullFiles]

PullTypeOK ==
    /\ place \in [Instances -> Texts \union {Gone}]
    /\ disk \in [Files -> Contents]
    /\ project \in BOOLEAN /\ quiet \in BOOLEAN
    /\ pull \in Pulls
    /\ wrote \union lost \subseteq Files \union {"place.json"} /\ edits \in 0..MaxEdits

FileOf(i) == LocalFile(Node(i), {FullPath[j] : j \in Present})
Alone(i) == \A j \in Instances \ {i} : /\ place[j] # Gone => FullPath[j] # FullPath[i]
                                       /\ j \in Present => FileOf(j) # FileOf(i)

\* A pull that says so has written every script of the place, unless somebody
\* edited something meanwhile, the script is beyond the limits of the listing,
\* or it shares its path or its file with another one: whatever earlier pulls,
\* finished or cut short, left in the workspace.
PullComplete ==
    pull.pc = "pulled" /\ quiet =>
        \A i \in Present : Alone(i) => disk[FileOf(i)] = ScriptSource(i)

\* Nothing is written before the comparison is over, in a dry run or after a
\* conflict, nor without --force by a pull that found content that is not
\* Studio's; place.json is a file of the workspace like the others.
WritesAllowed ==
    wrote # {} => /\ pull.pc \in {"writing", "failed", "pulled"}
                  /\ ~pull.dry
                  /\ pull.force \/ Conflicts = {}

\* A finished pull is complete, and no pull leaves a trace it was not allowed to:
\* without --force nothing the comparison found in a file is replaced but by
\* itself, and a place.json is never replaced.
PullSound == PullComplete /\ WritesAllowed /\ lost = {}
=============================================================================
