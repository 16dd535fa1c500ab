---------------------------- MODULE BackgroundJobs ----------------------------
(***************************************************************************)
(* JobSystem and EventBus of crates/lattice-core: jobs spawned with a      *)
(* cancellation token, run under a semaphore of permits, and reported on a *)
(* broadcast channel whose slow subscriber misses the oldest events.       *)
(***************************************************************************)
EXTENDS Naturals, FiniteSets, Sequences

CONSTANTS
    Jobs,
    Permits,        \* max_concurrency.max(1)
    EventCapacity   \* EVENT_CAPACITY

ASSUME PermitsPositive == Permits \in Nat \ {0} /\ EventCapacity \in Nat \ {0}

VARIABLES
    job,            \* [Jobs -> where the spawned task is]
    cancelled,      \* jobs whose token is cancelled
    events,         \* every event published
    received,       \* events the subscriber read or skipped
    seen            \* the ones it read

jobVars == <<job, cancelled, events, received, seen>>

JobsInit == /\ job = [j \in Jobs |-> "none"]
            /\ cancelled = {}
            /\ events = <<>> /\ received = 0 /\ seen = <<>>

Publish(j, state) == events' = Append(events, [job |-> j, state |-> state])

Holding == {j \in Jobs : job[j] \in {"granted", "running"}}

SpawnJob(j) ==
    /\ job[j] = "none"
    /\ job' = [job EXCEPT ![j] = "queued"]
    /\ Publish(j, "Queued")
    /\ UNCHANGED <<cancelled, received, seen>>

CancelJob(j) ==
    /\ job[j] # "none"
    /\ cancelled' = cancelled \union {j}
    /\ UNCHANGED <<job, events, received, seen>>

\* Tasks reach the semaphore in any order.
Grant(j) ==
    /\ job[j] = "queued" /\ Cardinality(Holding) < Permits
    /\ job' = [job EXCEPT ![j] = "granted"]
    /\ UNCHANGED <<cancelled, events, received, seen>>

\* The token is read, then the event published.
EntersUnchecked(j) == "running"       \* without the early return
Enters(j) == IF j \in cancelled THEN "ended" ELSE "running"

Begin(j) ==
    /\ job[j] = "granted"
    /\ job' = [job EXCEPT ![j] = Enters(j)]
    /\ Publish(j, IF j \in cancelled THEN "Cancelled" ELSE "Running")
    /\ UNCHANGED <<cancelled, received, seen>>

\* Ok is a cancellation if the token was cancelled meanwhile; an error is not.
End(j, ok) ==
    /\ job[j] = "running"
    /\ job' = [job EXCEPT ![j] = "ended"]
    /\ Publish(j, IF ~ok THEN "Failed" ELSE IF j \in cancelled THEN "Cancelled" ELSE "Succeeded")
    /\ UNCHANGED <<cancelled, received, seen>>

\* The task panics: the permit is dropped with it, and nothing is published.
Panic(j) ==
    /\ job[j] = "running"
    /\ job' = [job EXCEPT ![j] = "panicked"]
    /\ UNCHANGED <<cancelled, events, received, seen>>

\* recv: the oldest event still in the channel, after what it lagged behind.
Receive ==
    /\ received < Len(events)
    /\ LET oldest == IF Len(events) - received > EventCapacity THEN Len(events) - EventCapacity
                     ELSE received
       IN  /\ received' = oldest + 1
           /\ seen' = Append(seen, events[oldest + 1])
    /\ UNCHANGED <<job, cancelled, events>>

JobsNext == \/ \E j \in Jobs : SpawnJob(j) \/ CancelJob(j) \/ Grant(j) \/ Begin(j) \/ Panic(j)
                               \/ \E ok \in BOOLEAN : End(j, ok)
            \/ Receive

JobsSpec == JobsInit /\ [][JobsNext]_jobVars

(***************************************************************************)
(* Properties.                                                             *)
(***************************************************************************)
Terminal == {"Succeeded", "Failed", "Cancelled"}

JobEvents == [job: Jobs, state: {"Queued", "Running"} \union Terminal]

JobsTypeOK ==
    /\ job \in [Jobs -> {"none", "queued", "granted", "running", "ended", "panicked"}]
    /\ cancelled \subseteq Jobs
    /\ events \in Seq(JobEvents) /\ seen \in Seq(JobEvents)
    /\ received \in 0..Len(events)

\* How far in a life the state is.
Rank(state) == IF state = "Queued" THEN 0 ELSE IF state = "Running" THEN 1 ELSE 2

\* No job goes back, or is twice at the same point, in the list.
Forward(list) ==
    \A i, k \in DOMAIN list :
        i < k /\ list[i].job = list[k].job => Rank(list[i].state) < Rank(list[k].state)

Preceded(k, state) == \E i \in 1..(k - 1) : events[i] = [job |-> events[k].job, state |-> state]

\* A job runs or ends after it was queued, and it succeeds or fails after it ran.
NoneSkipped ==
    \A k \in DOMAIN events :
        /\ events[k].state # "Queued" => Preceded(k, "Queued")
        /\ events[k].state \in {"Succeeded", "Failed"} => Preceded(k, "Running")

EndReported(j) == \E i \in DOMAIN events : events[i].job = j /\ events[i].state \in Terminal

\* Each job is reported through one life, a job that runs holds one of the
\* permits, and a subscriber misses events but never sees them out of order:
\* what it saw of a job is a part of its life, and no life ends twice.  An end is
\* reported once the task returned and only then: never of one that panicked.
JobsOrderly ==
    /\ Cardinality(Holding) <= Permits
    /\ Forward(events) /\ NoneSkipped
    /\ \A j \in Jobs : job[j] = "ended" <=> EndReported(j)
    /\ Forward(seen)
=============================================================================
