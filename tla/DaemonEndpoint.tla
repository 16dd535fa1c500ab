---------------------------- MODULE DaemonEndpoint ----------------------------
(***************************************************************************)
(* crates/lattice-daemon-ipc: the socket and the endpoint file by which    *)
(* clients find the daemon of a user, when daemons start, stop and crash.  *)
(*                                                                         *)
(* The Unix build.  Every daemon uses the same three paths: the socket,    *)
(* the endpoint file and the temporary file it is renamed from.  A file    *)
(* is modelled by the daemon that wrote it; the address in an endpoint     *)
(* file is the socket path whoever wrote it.  A file operation is a step.  *)
(***************************************************************************)
EXTENDS Naturals, FiniteSets

CONSTANTS Daemons, NoFile

ASSUME NoFileAssumption == NoFile \notin Daemons

VARIABLES
    socket,       \* who bound the socket file, NoFile if there is none
    temporary,    \* daemon.endpoint.tmp
    endpoint,     \* daemon.endpoint.json
    phase,        \* [Daemons -> where bind or drop is]
    listening,    \* daemons whose listener is open
    overlapped,   \* two binds or drops overlapped since no daemon was running
    missed        \* a bind took a live daemon for dead since no daemon was running

endpointVars == <<socket, temporary, endpoint, phase, listening, overlapped, missed>>

Binding == {"checking", "removing", "listening", "restricting", "writing", "renaming",
            "published", "verifying"}
Dropping == {"dropping", "unpublishing"}

EndpointInit == /\ socket = NoFile /\ temporary = NoFile /\ endpoint = NoFile
                /\ phase = [d \in Daemons |-> "off"]
                /\ listening = {}
                /\ overlapped = FALSE /\ missed = FALSE

NoneRuns == \A d \in Daemons : phase[d] = "off"

\* d moves to a phase; the daemons busy at the same time overlap with it.
Moves(d, next) ==
    /\ phase' = [phase EXCEPT ![d] = next]
    /\ overlapped' = IF NoneRuns THEN FALSE
                     ELSE overlapped \/ \E e \in Daemons \ {d} :
                                           phase[e] \in Binding \union Dropping

Start(d) == /\ phase[d] = "off"
            /\ Moves(d, "checking")
            /\ missed' = (missed /\ ~NoneRuns)
            /\ UNCHANGED <<socket, temporary, endpoint, listening>>

\* endpoint_is_reachable: a connection is possible; the mutated form takes a
\* refused connection for an answer.
ReachableIfRefused == endpoint # NoFile /\ socket \notin listening
Reachable == endpoint # NoFile /\ socket \in listening

\* bind takes a live daemon for dead as well when connecting to it fails or takes
\* longer than 250 ms.
Check(d) == /\ phase[d] = "checking"
            /\ \E reached \in {FALSE, Reachable} :
                  /\ Moves(d, IF reached THEN "refused" ELSE "removing")
                  /\ missed' = (missed \/ (Reachable /\ ~reached))
            /\ UNCHANGED <<socket, temporary, endpoint, listening>>

RemoveSocket(d) == /\ phase[d] = "removing"
                   /\ socket' = NoFile
                   /\ Moves(d, "listening")
                   /\ UNCHANGED <<temporary, endpoint, listening, missed>>

\* UnixListener::bind refuses a path that exists.
Listen(d) == /\ phase[d] = "listening"
             /\ IF socket # NoFile THEN Moves(d, "failed") /\ UNCHANGED <<socket, listening>>
                ELSE /\ Moves(d, "restricting")
                     /\ socket' = d
                     /\ listening' = listening \union {d}
             /\ UNCHANGED <<temporary, endpoint, missed>>

\* restrict_socket_permissions needs the file; a failed bind closes the listener.
RestrictSocket(d) ==
    /\ phase[d] = "restricting"
    /\ IF socket = NoFile THEN Moves(d, "failed") /\ listening' = listening \ {d}
       ELSE Moves(d, "writing") /\ UNCHANGED listening
    /\ UNCHANGED <<socket, temporary, endpoint, missed>>

\* write_endpoint
Write(d) == /\ phase[d] = "writing"
            /\ temporary' = d
            /\ Moves(d, "renaming")
            /\ UNCHANGED <<socket, endpoint, listening, missed>>

Rename(d) == /\ phase[d] = "renaming"
             /\ IF temporary = NoFile
                THEN Moves(d, "failed") /\ listening' = listening \ {d} /\ UNCHANGED endpoint
                ELSE Moves(d, "published") /\ endpoint' = temporary /\ UNCHANGED listening
             /\ temporary' = NoFile
             /\ UNCHANGED <<socket, missed>>

RestrictEndpoint(d) ==
    /\ phase[d] = "published"
    /\ IF endpoint = NoFile THEN Moves(d, "failed") /\ listening' = listening \ {d}
       ELSE Moves(d, "verifying") /\ UNCHANGED listening
    /\ UNCHANGED <<socket, temporary, endpoint, missed>>

\* main reads the endpoint back; an error ends it, and drops the listener.
Verify(d) == /\ phase[d] = "verifying"
             /\ Moves(d, IF endpoint = NoFile THEN "dropping" ELSE "serving")
             /\ UNCHANGED <<socket, temporary, endpoint, listening, missed>>

\* Drop removes both files by path, then closes the listener.
Stop(d) == /\ phase[d] = "serving"
           /\ Moves(d, "dropping")
           /\ UNCHANGED <<socket, temporary, endpoint, listening, missed>>

DropSocket(d) == /\ phase[d] = "dropping"
                 /\ socket' = NoFile
                 /\ Moves(d, "unpublishing")
                 /\ UNCHANGED <<temporary, endpoint, listening, missed>>

DropEndpoint(d) == /\ phase[d] = "unpublishing"
                   /\ endpoint' = NoFile
                   /\ Moves(d, "off")
                   /\ listening' = listening \ {d}
                   /\ UNCHANGED <<socket, temporary, missed>>

\* A crash, or the exit of a daemon whose bind failed: no file is removed.
Exit(d) == /\ phase[d] # "off"
           /\ Moves(d, "off")
           /\ listening' = listening \ {d}
           /\ UNCHANGED <<socket, temporary, endpoint, missed>>

EndpointNext == \E d \in Daemons :
    \/ Start(d) \/ Check(d) \/ RemoveSocket(d) \/ Listen(d) \/ RestrictSocket(d)
    \/ Write(d) \/ Rename(d) \/ RestrictEndpoint(d) \/ Verify(d)
    \/ Stop(d) \/ DropSocket(d) \/ DropEndpoint(d) \/ Exit(d)

EndpointSpec == EndpointInit /\ [][EndpointNext]_endpointVars

\* connect: what a client finds.
Connects == IF endpoint = NoFile THEN "NotRunning"
            ELSE IF socket \in listening THEN "connected" ELSE "Io"

(***************************************************************************)
(* Properties.                                                             *)
(***************************************************************************)
EndpointTypeOK ==
    /\ {socket, temporary, endpoint} \subseteq Daemons \union {NoFile}
    /\ phase \in [Daemons -> {"off", "refused", "failed", "serving"} \union Binding \union Dropping]
    /\ listening \subseteq Daemons
    /\ {overlapped, missed} \subseteq BOOLEAN

Serving == {d \in Daemons : phase[d] = "serving"}

\* Whatever files crashed daemons left, when no two daemons bind or drop at the
\* same time: a bind never fails but because of a daemon that answers; a serving
\* daemon that owns the socket is the one the endpoint file leads to; and unless
\* some bind took a live daemon for dead, whoever serves owns the socket, so that
\* it is the only one and clients reach it.  After such a bind two daemons serve.
EndpointNamesLiveDaemon ==
    ~overlapped =>
        /\ \A d \in Daemons : phase[d] # "failed"
        /\ \A d \in Serving : socket = d => endpoint = d /\ Connects = "connected"
        /\ ~missed => /\ \A d \in Serving : socket = d
                      /\ Cardinality(Serving) <= 1
=============================================================================
