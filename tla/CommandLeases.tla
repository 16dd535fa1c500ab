---------------------------- MODULE CommandLeases ----------------------------
(***************************************************************************)
(* What lattice-studio-bridge promises the callers of `call`, without      *)
(* sessions, reports, sequences or locks. A command is submitted once, is  *)
(* handed to a plugin at most once as new work (it may be retransmitted    *)
(* while the lease lasts), leaves the broker once and never comes back;    *)
(* its caller gets at most one verdict, and gets a result only from a      *)
(* command that was leased at the time.                                    *)
(***************************************************************************)
CONSTANT Commands

VARIABLES
  stage,    \* where the broker holds the command
  verdict   \* what its caller was told

Stages == {"new", "queued", "leased", "out"}
Verdicts == {"none", "result", "failed", "abandoned"}

LeaseTypeOK ==
  /\ stage \in [Commands -> Stages]
  /\ verdict \in [Commands -> Verdicts]

Init ==
  /\ stage = [c \in Commands |-> "new"]
  /\ verdict = [c \in Commands |-> "none"]

Held == {c \in Commands : stage[c] \in {"queued", "leased"}}
Moved(S, to) == [c \in Commands |-> IF c \in S THEN to ELSE stage[c]]

Submit(c) ==
  /\ stage[c] = "new"
  /\ stage' = [stage EXCEPT ![c] = "queued"]
  /\ UNCHANGED verdict

\* One report: leased commands are settled, queued ones are leased. A caller
\* that has stopped listening (`late`) gets no verdict from it.
Exchange(settled, granted, late) ==
  /\ late \subseteq settled
  /\ \A c \in settled : stage[c] = "leased"
  /\ \A c \in granted : stage[c] = "queued"
  /\ stage' = [c \in Commands |-> IF c \in settled THEN "out"
                                  ELSE IF c \in granted THEN "leased" ELSE stage[c]]
  /\ verdict' = [c \in Commands |-> IF c \in settled \ late /\ verdict[c] = "none"
                                    THEN "result" ELSE verdict[c]]

\* The commands of a dropped session leave together.
Revoke(S) ==
  /\ S \subseteq Held
  /\ stage' = Moved(S, "out")
  /\ UNCHANGED verdict

\* A caller is told its call failed; the command is withdrawn with it.
Fail(c) ==
  /\ verdict[c] = "none"
  /\ stage[c] # "new"
  /\ verdict' = [verdict EXCEPT ![c] = "failed"]
  /\ stage' = [stage EXCEPT ![c] = "out"]

\* A caller goes away without waiting for a verdict.
Abandon(c) ==
  /\ verdict[c] = "none"
  /\ stage[c] # "new"
  /\ verdict' = [verdict EXCEPT ![c] = "abandoned"]
  /\ UNCHANGED stage

Next ==
  \/ \E c \in Commands : Submit(c) \/ Fail(c) \/ Abandon(c)
  \/ \E settled, granted \in SUBSET Commands :
       \E late \in SUBSET settled : Exchange(settled, granted, late)
  \/ \E S \in SUBSET Commands : Revoke(S)

Spec == Init /\ [][Next]_<<stage, verdict>>

\* The process that holds the commands ends, and the callers inside it.
Crash ==
  /\ stage' = Moved(Held, "out")
  /\ verdict' = [c \in Commands |-> IF stage[c] # "new" /\ verdict[c] = "none"
                                    THEN "abandoned" ELSE verdict[c]]

RestartableSpec == Init /\ [][Next \/ Crash]_<<stage, verdict>>
=============================================================================
