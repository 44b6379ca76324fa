----------------------------- MODULE Admission -----------------------------
(***************************************************************************)
(* The admission controller: the actor between the request source and the  *)
(* sandbox pool (crates/snaplace/src/admission/controller.rs).  It keeps   *)
(* one FIFO queue per Function, a cached count of the queued requests and  *)
(* of the blocked Functions, a conservative deadline timer, at most one    *)
(* dispatch attempt awaiting the Pool's answer, and the semaphore of       *)
(* global execution slots.                                                 *)
(*                                                                         *)
(* One action is one iteration of the event loop of `run`: a branch of its *)
(* select!, the whole handler, and the check at the top of the loop that   *)
(* decides whether to start waiting for a slot.  No handler awaits between *)
(* two of its writes, so an iteration is atomic for the other actors.  The *)
(* Pool, the Workers, the registrar and the clock are environment actions. *)
(***************************************************************************)
EXTENDS Integers, Sequences, FiniteSets

CONSTANTS
    Functions,        \* the FunctionIds that may be registered
    Requests,         \* the requests the source may send, each at most once
    FunctionOf,       \* the Function each request invokes
    Profiles,         \* per Function, the limits it may be registered with
    GlobalMaxQueued,  \* AdmissionConfig::global_max_queued_reqs
    MaxConcurrency,   \* AdmissionConfig::max_concurrency
    MaxTime,          \* bound on the clock, for model checking
    None              \* Rust's None

Runnable == "Runnable"

(***************************************************************************)
(* The reasons a Pool asked in ReuseIdleOrProvision mode, the only mode    *)
(* the controller uses, may give.  NoIdleWorker answers ReuseIdleOnly.     *)
(***************************************************************************)
BlockReasons == {"FunctionWorkerCap", "MemoryPressure"}

Limits == [max_queued : Nat, max_queue_delay : Nat]

(***************************************************************************)
(* RequestEnvelope.  `ticket' is the request's rank of arrival, a history  *)
(* value that only the properties read.                                    *)
(***************************************************************************)
Envelope == [req : Requests, ticket : Nat, enqueued_at : Nat, deadline : Nat]

Replies == {"Dispatch", "Reject", "Closed"} \cup BlockReasons

ASSUME AdmissionAssumption ==
    /\ IsFiniteSet(Functions) /\ IsFiniteSet(Requests)
    /\ FunctionOf \in [Requests -> Functions]
    /\ Profiles \in [Functions -> SUBSET Limits]
    /\ GlobalMaxQueued \in Nat /\ MaxConcurrency \in Nat /\ MaxTime \in Nat
    /\ None \notin Nat \cup Envelope \cup Limits \cup Replies

VARIABLES
    now,          \* the monotonic clock (Instant::now)
    registered,   \* the metadata store: the limits of each registered Function
    source,       \* requests the source has not sent yet
    pc,           \* "running", or how `run` returned: "stopped" or "crashed"
    queues,       \* each Function's VecDeque of envelopes
    state,        \* each Function's FunctionDispatchState: Runnable or a reason
    total_queued_reqs,
    blocked_function_count,
    next_deadline,     \* the deadline timer, None when disarmed
    outstanding,       \* the envelope of the one dispatch attempt, or None
    reply,             \* the Pool's answer to it, None until it is sent
    waiting_for_slot,
    permits,           \* free permits of the running_slots semaphore
    stats,             \* QuickStats
    running,           \* requests whose Worker holds a RunningSlot
    dispatched,        \* requests forwarded to a Worker (history)
    failed,            \* requests given to fail_admission (history)
    poolUp             \* the Pool's end of the dispatch channel is open

controller == <<pc, queues, state, total_queued_reqs, blocked_function_count,
                next_deadline, outstanding, waiting_for_slot, stats>>
vars == <<now, registered, source, pc, queues, state, total_queued_reqs,
          blocked_function_count, next_deadline, outstanding, reply,
          waiting_for_slot, permits, stats, running, dispatched, failed, poolUp>>

-----------------------------------------------------------------------------
(***************************************************************************)
(* Helpers                                                                 *)
(***************************************************************************)

\* FunctionQueue::is_runnable, on any pair of queue contents and state.
is_runnable(q, s) == q # <<>> /\ s = Runnable

\* The guard of the deadline branch and of the opportunistic expiry sweeps.
Due == next_deadline # None /\ next_deadline <= now

\* Mutant: a request is expired only after its deadline.
NumExpiredStrictly(q) ==
    CHOOSE n \in 0..Len(q) :
        /\ \A i \in 1..n : q[i].deadline < now
        /\ n < Len(q) => q[n + 1].deadline >= now

\* The length of the prefix of q whose deadlines have passed.
NumExpired(q) ==
    CHOOSE n \in 0..Len(q) :
        /\ \A i \in 1..n : q[i].deadline <= now
        /\ n < Len(q) => q[n + 1].deadline > now

Remaining(q) == SubSeq(q, NumExpired(q) + 1, Len(q))

ExpiredReqs ==
    {r \in Requests : \E f \in Functions : \E i \in 1..NumExpired(queues[f]) :
                          queues[f][i].req = r}

\* The blocked Functions whose block went stale with the sweep.
Unblocked ==
    {f \in Functions : /\ state[f] # Runnable
                       /\ NumExpired(queues[f]) > 0 \/ Remaining(queues[f]) = <<>>}

HeadDeadlines(qs) == {Head(qs[f]).deadline : f \in {g \in Functions : qs[g] # <<>>}}

\* Mutant: the sweep disarms the timer.
NoHead(qs) == None

EarliestHead(qs) ==
    IF HeadDeadlines(qs) = {} THEN None
    ELSE CHOOSE d \in HeadDeadlines(qs) : \A e \in HeadDeadlines(qs) : d <= e

\* What a handler goes on with after a sweep, and what it has without one.
expire_queued_requests ==
    LET rest == [f \in Functions |-> Remaining(queues[f])] IN
    [queues  |-> rest,
     state   |-> [f \in Functions |-> IF f \in Unblocked THEN Runnable ELSE state[f]],
     total   |-> total_queued_reqs - Cardinality(ExpiredReqs),
     blocked |-> blocked_function_count - Cardinality(Unblocked),
     next    |-> EarliestHead(rest),
     expired |-> ExpiredReqs]

unswept ==
    [queues |-> queues, state |-> state, total |-> total_queued_reqs,
     blocked |-> blocked_function_count, next |-> next_deadline, expired |-> {}]

Swept(due) == IF due THEN expire_queued_requests ELSE unswept

\* Mutant: an armed timer is never moved to an earlier deadline.
ArmOnlyIfDisarmed(next, d) == IF next = None THEN d ELSE next

update_deadline_timer(next, d) == IF next = None \/ d < next THEN d ELSE next

\* fail_admission for every request of rs; the response is best effort.
fail_admission(rs) ==
    /\ failed' = failed \cup rs
    /\ stats' = [stats EXCEPT !.num_failed = @ + Cardinality(rs)]

\* pick_next_function: a runnable Function with the oldest head.
pick_next_function(c) ==
    {f \in Functions :
        /\ is_runnable(c.queues[f], c.state[f])
        /\ \A g \in Functions : is_runnable(c.queues[g], c.state[g]) =>
               Head(c.queues[f]).enqueued_at <= Head(c.queues[g]).enqueued_at}

\* Mutant: a slot is awaited while an attempt is outstanding.
WaitRegardless(waiting) ==
    waiting_for_slot' = \/ waiting
                        \/ \E f \in Functions : is_runnable(queues'[f], state'[f])

\* The top of the loop of `run' (should_wait_for_slot), after every handler.
LoopTop(waiting) ==
    waiting_for_slot' = \/ waiting
                        \/ /\ outstanding' = None
                           /\ \E f \in Functions : is_runnable(queues'[f], state'[f])

-----------------------------------------------------------------------------
(***************************************************************************)
(* handle_new_request                                                      *)
(***************************************************************************)

Receive(r) ==
    /\ pc = "running"
    /\ r \in source
    /\ source' = source \ {r}

\* The sweep that only a full queue triggers, before rejecting.
IngressSweep(f) ==
    Swept(Due /\ \/ total_queued_reqs >= GlobalMaxQueued
                 \/ Len(queues[f]) >= registered[f].max_queued)

QueueFull(f, c) ==
    \/ c.total >= GlobalMaxQueued
    \/ Len(c.queues[f]) >= registered[f].max_queued

NewRequestUnknown(r) ==
    /\ Receive(r)
    /\ registered[FunctionOf[r]] = None
    /\ failed' = failed \cup {r}
    /\ stats' = [stats EXCEPT !.num_received = @ + 1, !.num_failed = @ + 1]
    /\ UNCHANGED <<now, registered, pc, queues, state, total_queued_reqs,
                   blocked_function_count, next_deadline, outstanding, reply,
                   permits, running, dispatched, poolUp>>
    /\ LoopTop(waiting_for_slot)

NewRequestRefused(r) ==
    LET f == FunctionOf[r]
        c == IngressSweep(f) IN
    /\ Receive(r)
    /\ registered[f] # None
    /\ QueueFull(f, c)
    /\ queues' = c.queues
    /\ state' = c.state
    /\ total_queued_reqs' = c.total
    /\ blocked_function_count' = c.blocked
    /\ next_deadline' = c.next
    /\ failed' = failed \cup c.expired \cup {r}
    /\ stats' = [stats EXCEPT !.num_received = @ + 1,
                              !.num_failed = @ + Cardinality(c.expired) + 1]
    /\ UNCHANGED <<now, registered, pc, outstanding, reply, permits, running,
                   dispatched, poolUp>>
    /\ LoopTop(waiting_for_slot)

NewRequestQueued(r) ==
    LET f == FunctionOf[r]
        c == IngressSweep(f)
        env == [req |-> r, ticket |-> stats.num_received + 1, enqueued_at |-> now,
                deadline |-> now + registered[f].max_queue_delay] IN
    /\ Receive(r)
    /\ registered[f] # None
    /\ ~QueueFull(f, c)
    /\ queues' = [c.queues EXCEPT ![f] = Append(@, env)]
    /\ state' = c.state
    /\ total_queued_reqs' = c.total + 1
    /\ blocked_function_count' = c.blocked
    /\ next_deadline' = update_deadline_timer(c.next, env.deadline)
    /\ failed' = failed \cup c.expired
    /\ stats' = [stats EXCEPT !.num_received = @ + 1,
                              !.num_failed = @ + Cardinality(c.expired)]
    /\ UNCHANGED <<now, registered, pc, outstanding, reply, permits, running,
                   dispatched, poolUp>>
    /\ LoopTop(waiting_for_slot)

-----------------------------------------------------------------------------
(***************************************************************************)
(* The permit branch: handle_acquired_slot                                 *)
(***************************************************************************)

\* The permit is granted, and the sweep that keeps expired heads from the Pool.
AcquireSlot(c) ==
    /\ pc = "running"
    /\ waiting_for_slot
    /\ permits > 0
    /\ c = Swept(Due)
    /\ state' = c.state
    /\ blocked_function_count' = c.blocked
    /\ fail_admission(c.expired)
    /\ UNCHANGED <<now, registered, source, running, dispatched, poolUp>>

\* Nothing is runnable any more: the permit is dropped.
SlotUnused ==
    \E c \in {Swept(Due)} :
        /\ AcquireSlot(c)
        /\ pick_next_function(c) = {}
        /\ queues' = c.queues
        /\ total_queued_reqs' = c.total
        /\ next_deadline' = c.next
        /\ UNCHANGED <<pc, outstanding, reply, permits>>
        /\ LoopTop(FALSE)

SlotToDispatch(f) ==
    \E c \in {Swept(Due)} :
        /\ AcquireSlot(c)
        /\ f \in pick_next_function(c)
        /\ poolUp
        /\ queues' = [c.queues EXCEPT ![f] = Tail(@)]
        /\ total_queued_reqs' = c.total - 1
        /\ next_deadline' = c.next
        /\ outstanding' = Head(c.queues[f])
        /\ reply' = None
        /\ permits' = permits - 1
        /\ UNCHANGED pc
        /\ LoopTop(FALSE)

\* try_send fails on a closed channel: the pop is rolled back and `run' returns.
SlotPoolClosed(f) ==
    \E c \in {Swept(Due)} :
        /\ AcquireSlot(c)
        /\ f \in pick_next_function(c)
        /\ ~poolUp
        /\ queues' = c.queues
        /\ total_queued_reqs' = c.total
        /\ next_deadline' = update_deadline_timer(c.next, Head(c.queues[f]).deadline)
        /\ pc' = "crashed"
        /\ waiting_for_slot' = FALSE
        /\ UNCHANGED <<outstanding, reply, permits>>

-----------------------------------------------------------------------------
(***************************************************************************)
(* The reply branch: handle_dispatch_reply                                 *)
(***************************************************************************)

\* Mutant: the outstanding attempt is read but not taken.
PeekReply(resps) ==
    /\ pc = "running"
    /\ outstanding # None
    /\ reply \in resps
    /\ outstanding' = outstanding
    /\ reply' = None
    /\ UNCHANGED <<now, registered, source, poolUp>>

TakeReply(resps) ==
    /\ pc = "running"
    /\ outstanding # None
    /\ reply \in resps
    /\ outstanding' = None
    /\ reply' = None
    /\ UNCHANGED <<now, registered, source, poolUp>>

ReplyDispatch ==
    /\ TakeReply({"Dispatch"})
    /\ running' = running \cup {outstanding.req}
    /\ dispatched' = dispatched \cup {outstanding.req}
    /\ stats' = [stats EXCEPT !.num_dispatched = @ + 1]
    /\ UNCHANGED <<pc, queues, state, total_queued_reqs, blocked_function_count,
                   next_deadline, permits, failed>>
    /\ LoopTop(waiting_for_slot)

\* The assigned Worker closed its invocation channel first: `run' returns.
ReplyForwardFailed ==
    /\ TakeReply({"Dispatch"})
    /\ permits' = permits + 1
    /\ pc' = "crashed"
    /\ UNCHANGED <<queues, state, total_queued_reqs, blocked_function_count,
                   next_deadline, waiting_for_slot, stats, running, dispatched, failed>>

\* Mutant: the block is not counted.
BlockUncounted(f, reason) ==
    /\ state' = [state EXCEPT ![f] = reason]
    /\ UNCHANGED blocked_function_count

mark_function_blocked(f, reason) ==
    /\ state' = [state EXCEPT ![f] = reason]
    /\ blocked_function_count' =
           blocked_function_count + (IF state[f] = Runnable THEN 1 ELSE 0)

\* Mutant: the request rejoins its queue at the back.
push_back(q, env) == Append(q, env)

push_front(q, env) == <<env>> \o q

ReplyWouldBlock ==
    LET f == FunctionOf[outstanding.req] IN
    /\ TakeReply(BlockReasons)
    /\ queues' = [queues EXCEPT ![f] = push_front(@, outstanding)]
    /\ total_queued_reqs' = total_queued_reqs + 1
    /\ next_deadline' = update_deadline_timer(next_deadline, outstanding.deadline)
    /\ mark_function_blocked(f, reply)
    /\ permits' = permits + 1
    /\ UNCHANGED <<pc, stats, running, dispatched, failed>>
    /\ LoopTop(waiting_for_slot)

\* Mutant: the permit of a rejected request is not released.
RejectKeepsPermit ==
    /\ TakeReply({"Reject"})
    /\ fail_admission({outstanding.req})
    /\ UNCHANGED <<pc, queues, state, total_queued_reqs, blocked_function_count,
                   next_deadline, permits, running, dispatched>>
    /\ LoopTop(waiting_for_slot)

ReplyReject ==
    /\ TakeReply({"Reject"})
    /\ fail_admission({outstanding.req})
    /\ permits' = permits + 1
    /\ UNCHANGED <<pc, queues, state, total_queued_reqs, blocked_function_count,
                   next_deadline, running, dispatched>>
    /\ LoopTop(waiting_for_slot)

\* The Pool dropped its end of the oneshot.
ReplyClosed ==
    /\ TakeReply({"Closed"})
    /\ fail_admission({outstanding.req})
    /\ permits' = permits + 1
    /\ pc' = "crashed"
    /\ UNCHANGED <<queues, state, total_queued_reqs, blocked_function_count,
                   next_deadline, waiting_for_slot, running, dispatched>>

-----------------------------------------------------------------------------
(***************************************************************************)
(* The timers and the Pool's advisory events                               *)
(***************************************************************************)

DeadlineTimer ==
    LET c == expire_queued_requests IN
    /\ pc = "running"
    /\ Due
    /\ queues' = c.queues
    /\ state' = c.state
    /\ total_queued_reqs' = c.total
    /\ blocked_function_count' = c.blocked
    /\ next_deadline' = c.next
    /\ fail_admission(c.expired)
    /\ UNCHANGED <<now, registered, source, pc, outstanding, reply, permits,
                   running, dispatched, poolUp>>
    /\ LoopTop(waiting_for_slot)

\* Make the Functions of fs runnable, leaving everything else alone.
Unblock(fs) ==
    /\ pc = "running"
    /\ state' = [f \in Functions |-> IF f \in fs THEN Runnable ELSE state[f]]
    /\ UNCHANGED <<now, registered, source, pc, queues, total_queued_reqs,
                   next_deadline, outstanding, reply, permits, stats, running,
                   dispatched, failed, poolUp>>
    /\ LoopTop(waiting_for_slot)

BlockedFor(reasons) == {f \in Functions : state[f] \in reasons}

\* Mutant: the event counts down also for a Function that is not blocked.
WorkerIdleUnguarded(f) ==
    /\ blocked_function_count' = blocked_function_count - 1
    /\ Unblock({f})

\* PoolEvent::WorkerIdle: whatever the reason of the block.
WorkerIdleEvent(f) ==
    /\ state[f] # Runnable
    /\ blocked_function_count' = blocked_function_count - 1
    /\ Unblock({f})

WorkerCapAvailableEvent(f) ==
    /\ state[f] = "FunctionWorkerCap"
    /\ blocked_function_count' = blocked_function_count - 1
    /\ Unblock({f})

MemoryCapAvailableEvent ==
    LET fs == BlockedFor({"MemoryPressure"}) IN
    /\ fs # {}
    /\ blocked_function_count' = blocked_function_count - Cardinality(fs)
    /\ Unblock(fs)

\* unblock_all, on the fallback interval.
LivenessTimer ==
    /\ blocked_function_count > 0
    /\ blocked_function_count' = 0
    /\ Unblock(BlockedFor(BlockReasons))

\* The quit notification, or the request source closing its channel.
Quit ==
    /\ pc = "running"
    /\ pc' = "stopped"
    /\ UNCHANGED <<now, registered, source, queues, state, total_queued_reqs,
                   blocked_function_count, next_deadline, outstanding, reply,
                   waiting_for_slot, permits, stats, running, dispatched, failed,
                   poolUp>>

-----------------------------------------------------------------------------
(***************************************************************************)
(* The environment: the Pool, the Workers, the registrar and the clock     *)
(***************************************************************************)

\* A running Pool rejects exactly the requests of unknown Functions; whether a
\* known one gets a Worker is the Pool's decision.
PoolReply(resp) ==
    /\ poolUp
    /\ outstanding # None /\ reply = None
    /\ resp = "Reject" <=> registered[FunctionOf[outstanding.req]] = None
    /\ reply' = resp
    /\ UNCHANGED <<controller, now, registered, source, permits, running,
                   dispatched, failed, poolUp>>

\* A Pool that shuts down rejects the request it finds in its channel; one that
\* fails while it handles the request drops the reply channel.
PoolExit(resp) ==
    /\ poolUp
    /\ poolUp' = FALSE
    /\ reply' = IF outstanding # None /\ reply = None THEN resp ELSE reply
    /\ UNCHANGED <<controller, now, registered, source, permits, running,
                   dispatched, failed>>

\* The Worker releases its RunningSlot.
WorkerDone(r) ==
    /\ r \in running
    /\ running' = running \ {r}
    /\ permits' = permits + 1
    /\ UNCHANGED <<controller, now, registered, source, reply, dispatched,
                   failed, poolUp>>

Register(f, limits) ==
    /\ registered[f] = None
    /\ registered' = [registered EXCEPT ![f] = limits]
    /\ UNCHANGED <<controller, now, source, reply, permits, running, dispatched,
                   failed, poolUp>>

\* The store refuses while a Worker of the Function is alive.
Deregister(f) ==
    /\ registered[f] # None
    /\ \A r \in running : FunctionOf[r] # f
    /\ ~ (outstanding # None /\ reply = "Dispatch" /\ FunctionOf[outstanding.req] = f)
    /\ registered' = [registered EXCEPT ![f] = None]
    /\ UNCHANGED <<controller, now, source, reply, permits, running, dispatched,
                   failed, poolUp>>

Tick ==
    /\ now < MaxTime
    /\ now' = now + 1
    /\ UNCHANGED <<controller, registered, source, reply, permits, running,
                   dispatched, failed, poolUp>>

-----------------------------------------------------------------------------
Init ==
    /\ now = 0
    /\ registered \in [Functions -> UNION {Profiles[f] : f \in Functions} \cup {None}]
    /\ \A f \in Functions : registered[f] \in Profiles[f] \cup {None}
    /\ source = Requests
    /\ pc = "running"
    /\ queues = [f \in Functions |-> <<>>]
    /\ state = [f \in Functions |-> Runnable]
    /\ total_queued_reqs = 0
    /\ blocked_function_count = 0
    /\ next_deadline = None
    /\ outstanding = None
    /\ reply = None
    /\ waiting_for_slot = FALSE
    /\ permits = MaxConcurrency
    /\ stats = [num_received |-> 0, num_dispatched |-> 0, num_failed |-> 0]
    /\ running = {}
    /\ dispatched = {}
    /\ failed = {}
    /\ poolUp = TRUE

ControllerStep ==
    \/ \E r \in Requests : NewRequestUnknown(r) \/ NewRequestRefused(r) \/ NewRequestQueued(r)
    \/ SlotUnused
    \/ \E f \in Functions : SlotToDispatch(f) \/ SlotPoolClosed(f)
    \/ ReplyDispatch
    \/ ReplyForwardFailed
    \/ ReplyWouldBlock
    \/ ReplyReject
    \/ ReplyClosed
    \/ DeadlineTimer
    \/ \E f \in Functions : WorkerIdleEvent(f) \/ WorkerCapAvailableEvent(f)
    \/ MemoryCapAvailableEvent
    \/ LivenessTimer
    \/ Quit

EnvironmentStep ==
    \/ \E resp \in Replies \ {"Closed"} : PoolReply(resp)
    \/ \E resp \in {"Reject", "Closed"} : PoolExit(resp)
    \/ \E r \in Requests : WorkerDone(r)
    \/ \E f \in Functions : Deregister(f)
    \/ \E f \in Functions : \E limits \in Profiles[f] : Register(f, limits)
    \/ Tick

\* Once `run' has returned, the controller is gone and the system shuts down.
Exited == pc # "running" /\ UNCHANGED vars

Next ==
    \/ ControllerStep
    \/ pc = "running" /\ EnvironmentStep
    \/ Exited

Spec == Init /\ [][Next]_vars

(***************************************************************************)
(* select! picks at random among the ready branches, so a branch that      *)
(* stays ready is taken: weak fairness of each.  The Pool answers every    *)
(* dispatch request it took.  Nothing is assumed of the source, of the     *)
(* Pool's events (lossy by design), of Workers, nor (in LoopFairness) of   *)
(* the clock.                                                              *)
(***************************************************************************)
LoopFairness ==
    /\ WF_vars(SlotUnused \/ \E f \in Functions : SlotToDispatch(f) \/ SlotPoolClosed(f))
    /\ WF_vars(ReplyDispatch \/ ReplyWouldBlock \/ ReplyReject \/ ReplyClosed)
    /\ WF_vars(DeadlineTimer)
    /\ WF_vars(LivenessTimer)
    /\ WF_vars(pc = "running" /\ \E resp \in Replies \ {"Closed"} : PoolReply(resp))

FairSpec == Spec /\ LoopFairness

\* Time passes.
TimedSpec == FairSpec /\ WF_vars(pc = "running" /\ Tick)

-----------------------------------------------------------------------------
(***************************************************************************)
(* Properties                                                              *)
(***************************************************************************)

\* The requests held in the Function queues qs.
QueuedIn(qs) ==
    {r \in Requests : \E f \in Functions : \E i \in 1..Len(qs[f]) : qs[f][i].req = r}

Queued == QueuedIn(queues)

\* The Functions that the dispatch states st block.
BlockedIn(st) == {f \in Functions : st[f] # Runnable}

\* Every request of qs is in the queue of its Function, and only once.
Placed(qs) ==
    /\ \A f \in Functions : \A i \in 1..Len(qs[f]) : FunctionOf[qs[f][i].req] = f
    /\ \A f \in Functions : \A i, j \in 1..Len(qs[f]) : qs[f][i].req = qs[f][j].req => i = j

\* Every queue is in order of arrival.
InOrder(qs) ==
    \A f \in Functions : \A i, j \in 1..Len(qs[f]) :
        i < j => qs[f][i].ticket < qs[f][j].ticket

\* The request of the outstanding dispatch attempt, if any.
OutstandingReqs == IF outstanding = None THEN {} ELSE {outstanding.req}

\* The controller as the lifecycle it promises: the outstanding attempt and the
\* queued requests both wait, and the RunningSlots are the executing requests.
Lifecycle == INSTANCE RequestLifecycle WITH
    unseen    <- source,
    waiting   <- Queued \cup OutstandingReqs,
    executing <- running,
    finished  <- dispatched \ running,
    failed    <- failed,
    down      <- pc = "crashed"

\* Every variable keeps its type; the usize counters never go below zero, where
\* the code would panic (debug) or wrap (release).
TypeOK ==
    /\ now \in Nat
    /\ registered \in [Functions -> Limits \cup {None}]
    /\ source \subseteq Requests
    /\ pc \in {"running", "stopped", "crashed"}
    /\ queues \in [Functions -> Seq(Envelope)]
    /\ state \in [Functions -> BlockReasons \cup {Runnable}]
    /\ total_queued_reqs \in Nat
    /\ blocked_function_count \in Nat
    /\ next_deadline \in Nat \cup {None}
    /\ outstanding \in Envelope \cup {None}
    /\ reply \in Replies \cup {None}
    /\ waiting_for_slot \in BOOLEAN
    /\ permits \in Nat
    /\ stats \in [num_received : Nat, num_dispatched : Nat, num_failed : Nat]
    /\ running \subseteq Requests
    /\ dispatched \subseteq Requests
    /\ failed \subseteq Requests
    /\ poolUp \in BOOLEAN

\* The controller implements RequestLifecycle: each request is decided once, for
\* good, and never more than max_concurrency execute, whatever the interleaving
\* of arrivals, sweeps, requeues, replies and Worker releases.
ImplementsLifecycle == Lifecycle!Spec

\* The two cached counters equal what a scan of the queues would count, whatever
\* mix of sweeps, requeues, events and fallback ticks led here (the fields
\* total_queued_reqs and blocked_function_count, and debug_assert_blocked_count).
CountersExact ==
    /\ total_queued_reqs = Cardinality(Queued)
    /\ blocked_function_count = Cardinality(BlockedIn(state))

\* No Function is left Blocked with an empty queue, where no wakeup would ever
\* find work for it (the invariant of FunctionDispatchState::Blocked).
NeverBlockedEmpty ==
    \A f \in Functions : state[f] # Runnable => queues[f] # <<>>

\* A request the controller received is in exactly one place: once in the queue
\* of its own Function, or in the outstanding attempt, or forwarded to a Worker,
\* or failed; it is lost only with a controller that crashed while forwarding it.
ExactlyOnePlace ==
    /\ Placed(queues)
    /\ Queued \cap OutstandingReqs = {}
    /\ Queued \cap (dispatched \cup failed \cup source) = {}
    /\ OutstandingReqs \cap (dispatched \cup failed \cup source) = {}
    /\ dispatched \cap failed = {}
    /\ source \cap (dispatched \cup failed) = {}
    /\ pc # "crashed" => Requests = source \cup Queued \cup OutstandingReqs \cup dispatched \cup failed

\* The lifecycle counters balance: every received request is queued, outstanding,
\* dispatched or failed, and no request is counted twice by fail_admission.
StatsBalance ==
    pc # "crashed" =>
        stats.num_received = total_queued_reqs + Cardinality(OutstandingReqs)
                             + stats.num_dispatched + stats.num_failed

\* No execution slot leaks or is duplicated: the free permits, the one held by
\* the outstanding attempt and the ones held by Workers are max_concurrency in all.
SlotConservation ==
    permits + Cardinality(OutstandingReqs) + Cardinality(running) = MaxConcurrency

\* A slot is awaited only when no attempt is outstanding: handle_acquired_slot
\* would otherwise overwrite the outstanding attempt and lose its request.
OneAttempt == waiting_for_slot => outstanding = None

\* Requests of a Function are attempted in their order of arrival, also across
\* WouldBlock requeues: queues are sorted by arrival and the outstanding request
\* is older than all that wait behind it.
FifoPerFunction ==
    /\ InOrder(queues)
    /\ outstanding # None =>
           \A i \in 1..Len(queues[FunctionOf[outstanding.req]]) :
               outstanding.ticket < queues[FunctionOf[outstanding.req]][i].ticket

\* The conservative timer is never late: while a request is queued the timer is
\* armed for no later than the deadline of each queue's head.
TimerNotLate ==
    \A f \in Functions :
        queues[f] # <<>> => next_deadline # None /\ next_deadline <= Head(queues[f]).deadline

\* The comment on expire_queued_requests: deadlines within a queue increase in
\* enqueue order, so that draining expired heads finds every expired request.
DeadlinesOrdered ==
    \A f \in Functions : \A i, j \in 1..Len(queues[f]) :
        i < j => queues[f][i].deadline <= queues[f][j].deadline

\* A request whose deadline has passed is never handed to the Pool, even when the
\* slot branch of the select! wins over a deadline timer that is also ready.
NoExpiredAttempt ==
    [][outstanding' # None /\ outstanding' # outstanding => now < outstanding'.deadline]_vars

\* A WouldBlock requeue bypasses the admission checks, yet the queues exceed the
\* global limit, and a Function's own limit, by at most the one requeued request.
OvershootAtMostOne ==
    /\ total_queued_reqs + Cardinality(OutstandingReqs) <= GlobalMaxQueued + 1
    /\ \A f \in Functions :
           queues[f] # <<>> =>
               \E limits \in Profiles[f] : Len(queues[f]) <= limits.max_queued + 1

\* The configuration's own words: global_max_queued_reqs is the maximum total
\* number of requests that may be held in the Function queues at once.
WithinGlobalMax == total_queued_reqs <= GlobalMaxQueued

\* A blocked Function is made runnable again even if every wakeup event is lost
\* and no deadline ever passes.
BlockedIsRetried ==
    \A f \in Functions : state[f] # Runnable ~> state[f] = Runnable \/ pc # "running"

\* Within the time horizon, every admitted request leaves admission: it reaches a
\* Worker or is failed, even if the Pool answers WouldBlock for ever.
InAdmission(r) ==
    \/ \E f \in Functions : \E i \in 1..Len(queues[f]) :
           queues[f][i].req = r /\ queues[f][i].deadline <= MaxTime
    \/ outstanding # None /\ outstanding.req = r /\ outstanding.deadline <= MaxTime

EveryRequestResolved ==
    \A r \in Requests : InAdmission(r) ~> r \in dispatched \cup failed \/ pc # "running"
=============================================================================
