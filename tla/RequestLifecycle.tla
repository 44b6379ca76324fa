-------------------------- MODULE RequestLifecycle --------------------------
(***************************************************************************)
(* What admission promises of a request, whatever queues, timers, retries  *)
(* and wakeups it uses: a request that arrives is refused at once or       *)
(* waits; one that waits is started on a Worker or failed, once and for    *)
(* good; and at most MaxConcurrency requests execute at the same time.     *)
(* Only a controller that goes down may lose a waiting request.            *)
(***************************************************************************)
EXTENDS Integers, FiniteSets

CONSTANTS Requests, MaxConcurrency

VARIABLES
    unseen,      \* requests not received yet
    waiting,     \* received and not decided
    executing,   \* on a Worker, holding an execution slot
    finished,    \* released by their Worker
    failed,      \* answered with an admission failure
    down         \* the controller stopped because of an error

vars == <<unseen, waiting, executing, finished, failed, down>>

Init ==
    /\ unseen = Requests
    /\ waiting = {} /\ executing = {} /\ finished = {} /\ failed = {}
    /\ down = FALSE

\* r arrives and is queued; rs are requests that waited for too long.
Admit(r, rs) ==
    /\ r \in unseen
    /\ unseen' = unseen \ {r}
    /\ waiting' = (waiting \ rs) \cup {r}
    /\ failed' = failed \cup rs
    /\ UNCHANGED <<executing, finished, down>>

\* r arrives and is refused.
Refuse(r, rs) ==
    /\ r \in unseen
    /\ unseen' = unseen \ {r}
    /\ waiting' = waiting \ rs
    /\ failed' = failed \cup rs \cup {r}
    /\ UNCHANGED <<executing, finished, down>>

Fail(rs) ==
    /\ waiting' = waiting \ rs
    /\ failed' = failed \cup rs
    /\ UNCHANGED <<unseen, executing, finished, down>>

Start(r) ==
    /\ r \in waiting
    /\ Cardinality(executing) < MaxConcurrency
    /\ waiting' = waiting \ {r}
    /\ executing' = executing \cup {r}
    /\ UNCHANGED <<unseen, finished, failed, down>>

Finish(r) ==
    /\ r \in executing
    /\ executing' = executing \ {r}
    /\ finished' = finished \cup {r}
    /\ UNCHANGED <<unseen, waiting, failed, down>>

\* An error ends the controller: the waiting requests rs get their failure, the
\* ones of `lost' get no answer.
GoDown(rs, lost) ==
    /\ down' = TRUE
    /\ waiting' = waiting \ (rs \cup lost)
    /\ failed' = failed \cup rs
    /\ UNCHANGED <<unseen, executing, finished>>

Step ==
    \/ \E r \in Requests, rs \in SUBSET waiting : Admit(r, rs) \/ Refuse(r, rs)
    \/ \E rs \in SUBSET waiting : Fail(rs)
    \/ \E r \in Requests : Start(r) \/ Finish(r)
    \/ \E rs, lost \in SUBSET waiting : GoDown(rs, lost)

Next == ~down /\ Step

Spec == Init /\ [][Next]_vars
=============================================================================
