-------------------------- MODULE LifecycleProofs --------------------------
(***************************************************************************)
(* Proofs about the order in which the server's actors come up and end,    *)
(* for every number of requests, clients and calls.                        *)
(***************************************************************************)
EXTENDS Lifecycle, TLAPS

-----------------------------------------------------------------------------
(***************************************************************************)
(* The inductive invariant                                                 *)
(***************************************************************************)

\* The types that the argument rests on.
Typed ==
    /\ stage \in {"spawn", "run", "reap", "done", "failed"} /\ reaped \in Nat
    /\ st \in [Actors -> {"unborn", "init", "up", "stop", "gone"}]
    /\ req \in [Requests -> {"new", "outbox", "queued", "run", "answered", "over"}]
    /\ work \in [Requests -> {"none", "run", "store", "fail", "idle", "gone"}]
    /\ backlog \in [Clients -> SUBSET Requests]

\* Actors come up in the order of SpawnsAfter; few of them take a while to come up or to end.
SpawnedInOrder ==
    /\ \A a \in Actors : st[a] # "unborn" =>
           \A b \in SpawnsAfter[a] : st[b] \notin {"unborn", "init"}
    /\ \A a \in Actors : st[a] = "init" => a \in {"pool", "ctl"}
    /\ \A a \in Actors : st[a] = "stop" => a \in {"pool", "ctl", "timings"}

\* What has been reaped is gone, and it was reaped in the order of ReapOrder.
ReapedAreGone ==
    /\ reaped <= Len(ReapOrder)
    /\ \A i \in 1..reaped : st[ReapOrder[i]] = "gone"

\* Only a Pool that is there has Workers.
WorkersHavePool == ~NoWorker => st["pool"] \in {"up", "stop"}

\* Who ends last: what each actor that others depend on has waited for.
EndsAfterPool ==
    /\ \A a \in {"netman", "snapman", "sink"} : st[a] = "gone" => st["pool"] = "gone"
    /\ st["timings"] \in {"stop", "gone"} => st["pool"] = "gone"

\* Where a request is there is somebody to move it on.
RequestsCarried ==
    \A r \in Requests :
        /\ req[r] = "queued" => st["adm"] \in {"unborn", "up"}
        /\ req[r] = "run" => work[r] = "run"
        /\ req[r] = "answered" => r \in chan

\* The sink has ended after all who could send to it, with nothing left to send.
SinkEndsLast ==
    st["sink"] = "gone" =>
        /\ st["adm"] = "gone" /\ chan = {}
        /\ \A c \in Clients : backlog[c] = {}

LInv ==
    /\ Typed /\ SpawnedInOrder /\ ReapedAreGone /\ WorkersHavePool
    /\ EndsAfterPool /\ RequestsCarried /\ SinkEndsLast

USE DEF Actors, ReapOrder, clientVars, bootVars, vars

InvVars == <<st, reaped, req, work, chan, backlog>>

LEMMA LInvInit == Init => LInv
  BY DEF Init, LInv, Typed, SpawnedInOrder, ReapedAreGone, WorkersHavePool, EndsAfterPool,
     RequestsCarried, SinkEndsLast, NoWorker, WorkerLives

\* Steps of the Orchestrator, the clients and the callers that move no actor and no request.
LEMMA FrameKeeps ==
    ASSUME LInv, stage' \in {"spawn", "run", "reap", "done", "failed"}, UNCHANGED InvVars
    PROVE  LInv'
  BY DEF InvVars, LInv, Typed, SpawnedInOrder, ReapedAreGone, WorkersHavePool, EndsAfterPool,
     RequestsCarried, SinkEndsLast, NoWorker, WorkerLives

\* The Orchestrator reaps the next actor of its order, which has ended.
LEMMA ReapKeeps == ASSUME LInv, NEW a \in Actors, reap(a) PROVE LInv'
<1>1. ReapedAreGone'
  <2>1. reaped' = reaped + 1 /\ reaped < 8 /\ ReapOrder[reaped + 1] = a /\ st[a] = "gone" /\ st' = st
    BY DEF reap, Awaits
  <2> QED
    BY <2>1 DEF ReapedAreGone, LInv, Typed
<1> QED
  BY <1>1 DEF reap, LInv, Typed, SpawnedInOrder, WorkersHavePool, EndsAfterPool,
     RequestsCarried, SinkEndsLast, NoWorker, WorkerLives

\* The state of one actor changes on the way up.
LEMMA SpawnKeeps ==
    ASSUME LInv, NEW a \in Actors, NEW s \in {"init", "up", "gone"},
           st[a] \in {"unborn", "init"}, Goes(a, s), s = "init" => a \in {"pool", "ctl"},
           s = "gone" => a \in {"src", "ctl"},
           \A b \in SpawnsAfter[a] : st[b] \notin {"unborn", "init"},
           stage' \in {"spawn", "run", "reap", "done", "failed"},
           UNCHANGED <<reaped, req, work, chan, backlog>>
    PROVE  LInv'
<1>1. st' = [st EXCEPT ![a] = s] /\ st \in [Actors -> {"unborn", "init", "up", "stop", "gone"}]
  BY DEF Goes, LInv, Typed
<1>2. Typed'
  BY <1>1 DEF LInv, Typed
<1>3. SpawnedInOrder'
  BY <1>1 DEF LInv, SpawnedInOrder, SpawnsAfter
<1>4. ReapedAreGone'
  BY <1>1 DEF LInv, Typed, ReapedAreGone
<1>5. WorkersHavePool' /\ EndsAfterPool'
  BY <1>1 DEF LInv, WorkersHavePool, EndsAfterPool, NoWorker, WorkerLives
<1>6. RequestsCarried' /\ SinkEndsLast'
  BY <1>1 DEF LInv, RequestsCarried, SinkEndsLast
<1> QED
  BY <1>2, <1>3, <1>4, <1>5, <1>6 DEF LInv

\* An actor that is up leaves its loop, or ends, once what it waits for has happened.
LEMMA EndKeeps ==
    ASSUME LInv, NEW a \in Actors, NEW s \in {"stop", "gone"},
           st[a] \in {"up", "stop"}, Goes(a, s), s = "stop" => a \in {"pool", "ctl", "timings"},
           a \in {"netman", "snapman", "sink", "timings"} => st["pool"] = "gone",
           a = "pool" /\ s = "gone" => NoWorker,
           a = "sink" => st["adm"] = "gone" /\ chan = {} /\ \A c \in Clients : backlog[c] = {},
           req' = IF a = "adm" THEN [r \in Requests |-> IF req[r] = "queued" THEN "over" ELSE req[r]]
                  ELSE req,
           UNCHANGED <<stage, reaped, work, chan, backlog>>
    PROVE  LInv'
<1>1. st' = [st EXCEPT ![a] = s] /\ st \in [Actors -> {"unborn", "init", "up", "stop", "gone"}]
  BY DEF Goes, LInv, Typed
<1>2. Typed'
  BY <1>1 DEF LInv, Typed
<1>3. SpawnedInOrder'
  BY <1>1 DEF LInv, SpawnedInOrder, SpawnsAfter
<1>4. ReapedAreGone'
  BY <1>1 DEF LInv, Typed, ReapedAreGone
<1>5. WorkersHavePool' /\ EndsAfterPool'
  BY <1>1 DEF LInv, WorkersHavePool, EndsAfterPool, NoWorker, WorkerLives
<1>6. RequestsCarried'
  BY <1>1 DEF LInv, RequestsCarried, Typed
<1>7. SinkEndsLast'
  BY <1>1 DEF LInv, SinkEndsLast
<1> QED
  BY <1>2, <1>3, <1>4, <1>5, <1>6, <1>7 DEF LInv

\* The Pool has been reaped, and so is gone, when the Orchestrator awaits the snapshot manager
\* or the collector of timings.
LEMMA AwaitedAfterPool ==
    ASSUME LInv, Awaits("snapman") \/ Awaits("timings")
    PROVE  st["pool"] = "gone"
<1>1. reaped \in {5, 7}
  BY DEF Awaits, LInv, Typed
<1>2. 4 \in 1..reaped /\ ReapOrder[4] = "pool"
  BY <1>1
<1> QED
  BY <1>2 DEF LInv, ReapedAreGone

LEMMA ActorsKeep == LInv /\ ActorStep => LInv'
<1> SUFFICES ASSUME LInv, ActorStep PROVE LInv'
  OBVIOUS
<1>1. CASE src_run
  BY <1>1, EndKeeps DEF src_run, Up
<1>2. CASE adm_run
  BY <1>2, EndKeeps DEF adm_run, Up
<1>3. CASE pool_run(FALSE)
  BY <1>3, EndKeeps DEF pool_run, Up
<1>4. CASE pool_shutdown
  BY <1>4, EndKeeps DEF pool_shutdown
<1>5. CASE netman_run
  BY <1>5, EndKeeps DEF netman_run, Up
<1>6. CASE snapman_run
  BY <1>6, EndKeeps DEF snapman_run, Up
<1>7. CASE sink_shutdown
  BY <1>7, EndKeeps DEF sink_shutdown, SinkSendersGone, Up
<1>8. CASE timings_run
  BY <1>8, EndKeeps, AwaitedAfterPool DEF timings_run, Up
<1>9. CASE metrics_writer
  BY <1>9, EndKeeps DEF metrics_writer, LInv, EndsAfterPool
<1>10. CASE ctl_run
  BY <1>10, EndKeeps DEF ctl_run, Up
<1>11. CASE ctl_shutdown
  BY <1>11, EndKeeps DEF ctl_shutdown
<1> QED
  BY <1>1, <1>2, <1>3, <1>4, <1>5, <1>6, <1>7, <1>8, <1>9, <1>10, <1>11 DEF ActorStep

LEMMA SpawnsKeep == LInv /\ SpawnStep => LInv'
<1> SUFFICES ASSUME LInv, SpawnStep PROVE LInv'
  OBVIOUS
<1>1. CASE setup_signal_handlers
  BY <1>1, FrameKeeps DEF setup_signal_handlers, InvVars, LInv, Typed
<1>2. ASSUME NEW a \in Actors, construct_begin(a) PROVE LInv'
  BY <1>2, SpawnKeeps DEF construct_begin, MaySpawn, LInv, Typed
<1>3. ASSUME NEW a \in Actors, NEW binds \in BOOLEAN, spawn_actor(a, binds) PROVE LInv'
  BY <1>3, SpawnKeeps DEF spawn_actor, Runs, MaySpawn, LInv, Typed
<1>4. ASSUME NEW a \in Actors, NEW binds \in BOOLEAN, construct_end(a, binds) PROVE LInv'
  BY <1>4, SpawnKeeps DEF construct_end, Runs, LInv, Typed, SpawnedInOrder
<1> QED
  BY <1>1, <1>2, <1>3, <1>4 DEF SpawnStep

\* A request moves on.
LEMMA RequestsKeep == ASSUME LInv, NEW r \in Requests, RequestStep(r) PROVE LInv'
<1> USE DEF LInv, Typed, SpawnedInOrder, ReapedAreGone, EndsAfterPool, SinkEndsLast
<1>1. CASE dispatch(r)
  BY <1>1 DEF dispatch, Up, RequestsCarried, WorkersHavePool, NoWorker, WorkerLives
<1>2. CASE store_all(r)
  BY <1>2 DEF store_all, PoolServes, RequestsCarried, WorkersHavePool, NoWorker, WorkerLives
<1>3. CASE worker_ends(r)
  BY <1>3 DEF worker_ends, PoolServes, RequestsCarried, WorkersHavePool, NoWorker, WorkerLives
<1>4. ASSUME NEW full \in BOOLEAN, fail_admission(r, full) PROVE LInv'
  BY <1>4 DEF fail_admission, Up, RequestsCarried, WorkersHavePool, NoWorker, WorkerLives
<1>5. ASSUME NEW ok \in BOOLEAN, forward_response(r, ok) PROVE LInv'
  BY <1>5 DEF forward_response, PoolServes, RequestsCarried, WorkersHavePool, NoWorker, WorkerLives
<1> QED
  BY <1>1, <1>2, <1>3, <1>4, <1>5 DEF RequestStep

LEMMA SinkKeeps == LInv /\ SinkStep => LInv'
<1> SUFFICES ASSUME LInv, SinkStep PROVE LInv'
  OBVIOUS
<1> USE DEF LInv, Typed, SpawnedInOrder, ReapedAreGone, EndsAfterPool, SinkEndsLast,
            RequestsCarried, WorkersHavePool, NoWorker, WorkerLives
<1>1. ASSUME NEW r \in Requests, NEW lagging \in SUBSET Clients, sink_broadcast(r, lagging)
      PROVE  LInv'
  BY <1>1 DEF sink_broadcast, Up
<1>2. ASSUME NEW c \in Clients, NEW r \in Requests, sink_worker_recv(c, r) PROVE LInv'
  BY <1>2 DEF sink_worker_recv
<1>3. ASSUME NEW c \in Clients, NEW full \in BOOLEAN, sink_worker_send(c, full) PROVE LInv'
  BY <1>3 DEF sink_worker_send
<1> QED
  BY <1>1, <1>2, <1>3 DEF SinkStep

LEMMA OrchestratorKeeps == LInv /\ OrchStep => LInv'
  BY FrameKeeps, ReapKeeps DEF OrchStep, orch_run, orch_ends, InvVars

LEMMA EnvironmentKeeps == LInv /\ Environment => LInv'
<1> SUFFICES ASSUME LInv, Environment PROVE LInv'
  OBVIOUS
<1>1. CASE pool_run(TRUE)
  BY <1>1, EndKeeps DEF pool_run, Up
<1>2. ASSUME NEW r \in Requests, issue(r) PROVE LInv'
  BY <1>2 DEF issue, LInv, Typed, SpawnedInOrder, ReapedAreGone, EndsAfterPool, SinkEndsLast,
     RequestsCarried, WorkersHavePool, NoWorker, WorkerLives
<1>3. ASSUME NEW r \in Requests, NEW received \in BOOLEAN, snaplace_requests(r, received)
      PROVE  LInv'
  BY <1>3 DEF snaplace_requests, LInv, Typed, SpawnedInOrder, ReapedAreGone, EndsAfterPool,
     SinkEndsLast, RequestsCarried, WorkersHavePool, NoWorker, WorkerLives
<1>4. CASE spawn_fails \/ signal_handler
  BY <1>4, FrameKeeps DEF spawn_fails, signal_handler, InvVars, LInv, Typed
<1>5. ASSUME NEW c \in Clients,
             \/ connect(c) \/ disconnect(c) \/ snaplace_responses(c) \/ client_leaves(c)
             \/ \E r \in Requests : client_receives(c, r)
      PROVE  LInv'
  BY <1>5, FrameKeeps DEF connect, disconnect, snaplace_responses, client_leaves, client_receives,
     InvVars, LInv, Typed
<1>6. ASSUME NEW c \in Calls,
             refuse_call(c) \/ respond(c) \/ \E sent \in BOOLEAN : call_sends(c, sent)
      PROVE  LInv'
  BY <1>6, FrameKeeps DEF refuse_call, respond, call_sends, InvVars, LInv, Typed
<1> QED
  BY <1>1, <1>2, <1>3, <1>4, <1>5, <1>6 DEF Environment

LEMMA LInvStep == LInv /\ [Next]_vars => LInv'
<1> SUFFICES ASSUME LInv, [Next]_vars PROVE LInv'
  OBVIOUS
<1>1. ASSUME NEW c \in Calls, CallStep(c) PROVE LInv'
  BY <1>1, FrameKeeps DEF CallStep, handle_control, call_returns, call_times_out, InvVars, LInv, Typed
<1>2. CASE UNCHANGED vars
  BY <1>2, FrameKeeps DEF InvVars, LInv, Typed
<1> QED
  BY <1>1, <1>2, ActorsKeep, SpawnsKeep, RequestsKeep, SinkKeeps, OrchestratorKeeps, EnvironmentKeeps
  DEF Next, System, Ended

-----------------------------------------------------------------------------
\* Nobody sends to an actor that has ended: while the Pool is being constructed, runs or
\* shuts down, and while a Worker lives, the network manager, the snapshot manager, the sink
\* and the collector of timings are up, however signals, failures and losses interleave.
THEOREM ServicesOutliveUsers == Spec => []ServicesOutlive
<1>1. LInv => ServicesOutlive
  BY DEF LInv, Typed, SpawnedInOrder, SpawnsAfter, WorkersHavePool, EndsAfterPool, ServicesOutlive
<1> QED
  BY <1>1, LInvInit, LInvStep, PTL DEF Spec

\* When the sink ends, no request is queued or runs, nobody can send a response any more,
\* every answer was broadcast, and each sink-worker has taken what was broadcast to it.
THEOREM AnswersAllForwarded == Spec => []AnswersForwarded
<1>1. LInv => AnswersForwarded
  BY DEF LInv, WorkersHavePool, NoWorker, WorkerLives, EndsAfterPool, RequestsCarried, SinkEndsLast,
     AnswersForwarded
<1> QED
  BY <1>1, LInvInit, LInvStep, PTL DEF Spec
=============================================================================
