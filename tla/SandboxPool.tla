---------------------------- MODULE SandboxPool ----------------------------
(***************************************************************************)
(* The SandboxPool actor (sbpool/pool/mod.rs and control.rs) with the      *)
(* Workers it spawns, at the level of the messages they exchange.          *)
(*                                                                         *)
(* The Pool is one task: every handler of its event loop is one action.    *)
(* Workers, keep-alive timer tasks and the AdmissionController run beside  *)
(* it.  A WorkerId is spawned at most once, so `Workers' bounds the        *)
(* Workers of a behaviour; a Worker creates at most one Sandbox, which is  *)
(* named after it, so SandboxIds are Workers too.  Every Function needs    *)
(* one unit of memory.                                                     *)
(*                                                                         *)
(* Each Worker's messages to the Pool are kept in order, but the order     *)
(* between Workers, and between them, the timers and the two request       *)
(* channels, is left open: a message may become ready while any handler    *)
(* runs, so every order the biased `select!' can produce is included.      *)
(***************************************************************************)
EXTENDS Integers, Sequences, FiniteSets

CONSTANTS
    Functions, Workers, Calls,
    WorkerCap,        \* max_live_instances of every Function
    Total,            \* MemoryStats::total
    ThresHi, ThresLo, \* MemoryStats::eviction_thres_hi, ::eviction_thres_lo
    RetainSnapshots,  \* SandboxPoolConfig::retain_snapshots
    None

PendingControlOp == {"PrepareSandbox", "DestroySandbox", "Snapshot"}
SandboxExit == {"Reusable", "Gone", "Trashed", "Leaked"}

ASSUME PoolAssumption ==
    /\ None \notin Functions \cup Workers \cup Calls \cup PendingControlOp \cup SandboxExit
    /\ WorkerCap \in Nat /\ Total \in Nat /\ ThresHi \in Nat /\ ThresLo \in Nat
    /\ RetainSnapshots \in BOOLEAN

VARIABLES
    mode,               \* "running", "stopping" (left the loop), "draining", "exited", or
                        \* "aborted": an assertion failed, which ends the process
    state,              \* the store's view of each Worker
    fn,                 \* the Function each Worker was spawned for
    acct,               \* WorkerHandle::memory_accounting
    sandbox_id,         \* WorkerHandle::sandbox_id
    worker_by_sandbox,
    timers,             \* keys of KeepAlive::timers
    armed,              \* timers whose task is still asleep
    late,               \* Workers for which a stopped timer's notification is still to come
    deadlines,          \* keys of worker_deadlines
    cpu,                \* keys of CpuSetManager::allocations
    inuse, reclaimed,   \* MemoryStats
    snapshots,          \* the orphan snapshots, of all Functions
    trashed,            \* trashed_sandboxes
    leaked,             \* reaped Workers whose memory stays charged
    op,                 \* pending.op_by_worker
    paused,             \* Sandboxes whose pending snapshot has a timer_info
    call,               \* control-plane calls; a waiting one names its pending context
    inflight,           \* the Worker of a Dispatch reply admission has not forwarded yet
    at,                 \* where each Worker task is
    invoked,            \* Workers with an Invocation in their queue
    ctrl, out,          \* Pool -> Worker and Worker -> Pool messages
    box,                \* the Sandbox each Worker owns
    exit,               \* WorkerExit
    snapped,            \* Sandboxes that have a snapshot
    overtaken           \* history: Workers that handled a CreateSnapshot before an invocation
                        \* they had been dispatched, which admission had not forwarded yet

storeVars  == <<state, fn, acct, sandbox_id, worker_by_sandbox>>
timerVars  == <<timers, armed, late, deadlines>>
memVars    == <<inuse, reclaimed, leaked>>
boxVars    == <<snapshots, trashed>>
ctlVars    == <<op, paused, call>>
workerVars == <<at, invoked, ctrl, out, box, exit, snapped, overtaken>>
poolVars   == <<mode, storeVars, timerVars, cpu, memVars, boxVars, ctlVars, inflight>>
vars       == <<poolVars, workerVars>>

-----------------------------------------------------------------------------
Lifecycle == {"None", "Idle", "Active", "Dying"}
Place == {"unborn", "starting", "loop", "busy", "preparing", "finished", "reaped"}
ControlMessage == {"ShutDown", "DestroySandbox", "PrepareSandbox", "CreateSnapshot"}
OutboundMessage == {"SandboxId", "NeedWork", "ReapMe", "Prepared", "PrepFailed", "Snapshotted"}

\* A call that was answered, and one that waits in the context of operation o on x.
New  == [op |-> "New", on |-> None]
Done == [op |-> "Done", on |-> None]
Waiting(o, x) == [op |-> o, on |-> x]

Init ==
    /\ mode = "running"
    /\ state = [w \in Workers |-> "None"]
    /\ fn = [w \in Workers |-> None]
    /\ acct = [w \in Workers |-> "Uncharged"]
    /\ sandbox_id = [w \in Workers |-> None]
    /\ worker_by_sandbox = [s \in Workers |-> None]
    /\ timers = {} /\ armed = {} /\ late = {} /\ deadlines = {}
    /\ cpu = {}
    /\ inuse = 0 /\ reclaimed = 0
    /\ snapshots = {} /\ trashed = {} /\ leaked = {}
    /\ op = [w \in Workers |-> None]
    /\ paused = {}
    /\ call = [c \in Calls |-> New]
    /\ inflight = None
    /\ at = [w \in Workers |-> "unborn"]
    /\ invoked = {}
    /\ ctrl = [w \in Workers |-> <<>>]
    /\ out = [w \in Workers |-> <<>>]
    /\ box = [w \in Workers |-> None]
    /\ exit = [w \in Workers |-> None]
    /\ snapped = {} /\ overtaken = {}

-----------------------------------------------------------------------------
\* Helpers of the handlers.

Idle == {w \in Workers : state[w] = "Idle"}
Active == {w \in Workers : state[w] = "Active"}

\* The function f with the value v for every element of S.
Put(f, S, v) == [x \in DOMAIN f |-> IF x \in S THEN v ELSE f[x]]

\* MemoryStats uses ByteUnit, whose subtraction saturates at zero.
Less(m, n) == IF n <= m THEN m - n ELSE 0

\* The timers of the Workers in S are stopped, then new ones are spawned for K.  A task
\* that has sent its notification, or is past the point where `abort' could reach it, is
\* not recalled; the others, and those that gave up on a full channel, notify nobody.
rearm(S, K) ==
    /\ timers' = (timers \ S) \cup K
    /\ armed' = (armed \ S) \cup K
    /\ \E L \in SUBSET (S \cap timers) : late' = late \cup L

\* The store's transitions: worker_idle_to_dying and worker_active_to_dying for every Worker
\* of S, and worker_active_to_idle.
workers_to_dying(S) == Put(state, S, "Dying")
worker_active_to_idle(w) == [state EXCEPT ![w] = "Idle"]

\* _idle_worker_to_dying and _active_worker_to_dying, for every Worker of S, but for
\* the timers.
to_dying(S) ==
    /\ state' = workers_to_dying(S)
    /\ acct' = Put(acct, S, "Reclaimed")
    /\ inuse' = Less(inuse, Cardinality(S))
    /\ reclaimed' = reclaimed + Cardinality(S)
    /\ deadlines' = deadlines \ S

\* CpuSetManager::alloc and ::release.  Which CPU it is makes no difference.
cpuset_alloc(w) == cpu \cup {w}
cpuset_release(w) == cpu \ {w}

\* The keep-alive policy's answer: f is one of the Functions it gives a period, or not.
assign(f) == BOOLEAN

\* The control queues once m is sent to the Workers of S.  A message for a Worker that
\* has left its loop goes nowhere.
Sent(S, m) == [w \in Workers |-> IF w \in S /\ at[w] # "finished" THEN Append(ctrl[w], m) ELSE ctrl[w]]

\* A new deadline makes an Active Worker Idle, none shuts it down; newDeadline holds the
\* possible answers of the keep-alive policy.  For a Worker that is not Active this is an
\* error that changes nothing.
deactivate_worker(w, newDeadline) ==
    IF state[w] = "Active"
    THEN \/ /\ TRUE \in newDeadline
            /\ state' = worker_active_to_idle(w)
            /\ deadlines' = deadlines \cup {w}
            /\ rearm({}, {w})
            /\ UNCHANGED <<acct, inuse, reclaimed, ctrl>>
         \/ /\ FALSE \in newDeadline
            /\ to_dying({w})
            /\ ctrl' = Sent({w}, "ShutDown")
            /\ UNCHANGED <<timers, armed, late>>
    ELSE UNCHANGED <<state, acct, inuse, reclaimed, timerVars, ctrl>>

\* All calls waiting in one of the contexts K are answered.
Answered(K) == [c \in Calls |-> IF call[c] \in K THEN Done ELSE call[c]]

-----------------------------------------------------------------------------
\* Keep-alive.

\* The keep-alive period of w elapses: its timer task notifies the Pool, if the channel
\* has room in time (nothing makes KeepAliveTimeout follow).  Out of the loop it is not read.
timer_run(w) ==
    /\ mode = "running"
    /\ w \in armed
    /\ armed' = armed \ {w}
    /\ UNCHANGED <<mode, storeVars, timers, late, deadlines, cpu, memVars, boxVars, ctlVars,
                   inflight, workerVars>>

\* A notification for w is handled: of its current timer, or (stale) of one that was
\* stopped before.  The Pool sees a WorkerId and looks it up among the timers.
KeepAliveTimeout(w, stale) ==
    /\ mode = "running"
    /\ IF stale THEN w \in late ELSE w \in timers \ armed
    /\ IF w \in timers
       THEN /\ to_dying({w})
            /\ timers' = timers \ {w} /\ armed' = armed \ {w}
            /\ late' \in IF stale THEN {late, late \ {w}} ELSE {late}
            /\ ctrl' = Sent({w}, "ShutDown")
       ELSE /\ late' = late \ {w}
            /\ deadlines' = deadlines \ {w}
            /\ UNCHANGED <<state, acct, inuse, reclaimed, timers, armed, ctrl>>
    /\ UNCHANGED <<mode, fn, sandbox_id, worker_by_sandbox, cpu, leaked, boxVars, ctlVars, inflight,
                   at, invoked, out, box, exit, snapped, overtaken>>

-----------------------------------------------------------------------------
\* Dispatching, and the Workers spawned for it.

\* Mutant of Spawn: the snapshot stays among the orphans.
SpawnKeepsOrphan(w, f, s, place) ==
    /\ at[w] = "unborn"
    /\ at' = [at EXCEPT ![w] = place]
    /\ fn' = [fn EXCEPT ![w] = f]
    /\ box' = [box EXCEPT ![w] = s]
    /\ sandbox_id' = [sandbox_id EXCEPT ![w] = s]
    /\ worker_by_sandbox' = Put(worker_by_sandbox, {s}, w)
    /\ snapshots' = snapshots

\* Worker w is spawned for f around the Sandbox s, if any, and recorded.
Spawn(w, f, s, place) ==
    /\ at[w] = "unborn"
    /\ at' = [at EXCEPT ![w] = place]
    /\ fn' = [fn EXCEPT ![w] = f]
    /\ box' = [box EXCEPT ![w] = s]
    /\ sandbox_id' = [sandbox_id EXCEPT ![w] = s]
    /\ worker_by_sandbox' = Put(worker_by_sandbox, {s}, w)
    /\ snapshots' = snapshots \ {s}

\* The eviction policies: NoOp chooses nobody, Random and LruWorker choose Idle Workers until
\* mem units are reclaimed, but LruWorker at least one.
evict(mem) ==
    LET upTo(n) == IF n <= Cardinality(Idle) THEN n ELSE Cardinality(Idle)
    IN  {E \in SUBSET Idle : Cardinality(E) \in {0, upTo(mem), IF mem = 0 THEN upTo(1) ELSE upTo(mem)}}

\* trigger_eviction_policy, when n units are in use.
Victims(n) == IF n >= ThresHi THEN evict(Less(n, ThresLo)) ELSE {{}}

\* spawn_new_worker, followed by the eviction of E.  The new Worker is left in the given
\* place and the given state; if it is Idle again, its memory was discounted.
SpawnAndEvict(w, f, s, E, place, newState) ==
    LET idle == IF newState = "Idle" THEN {w} ELSE {} IN
    /\ inuse + reclaimed + 1 <= Total
    /\ Spawn(w, f, s, place)
    /\ E \in Victims(inuse + 1)
    /\ state' = [workers_to_dying(E) EXCEPT ![w] = newState]
    /\ acct' = [Put(acct, E, "Reclaimed") EXCEPT ![w] = "InUse"]
    /\ inuse' = Less(inuse + 1, Cardinality(E \cup idle))
    /\ reclaimed' = reclaimed + Cardinality(E)
    /\ deadlines' = (deadlines \ E) \cup idle
    /\ rearm(E, idle)

\* The policy evicts E when there is no memory for a new Worker.
EvictOnly(E) ==
    /\ inuse + reclaimed + 1 > Total
    /\ E \in Victims(inuse)
    /\ to_dying(E)
    /\ rearm(E, {})
    /\ ctrl' = Sent(E, "ShutDown")

Orphans(f) == {s \in snapshots : fn[s] = f}

\* The Sandbox a new Worker starts from: an orphan snapshot of f when there is one.
PreferSnapshot(f) == IF Orphans(f) = {} THEN {None} ELSE Orphans(f)

NumLive(f) == Cardinality({w \in Idle \cup Active : fn[w] = f})

\* admission has one DispatchRequest outstanding, and forwards before the next one.
Dispatching == mode = "running" /\ inflight = None

\* What is left of a dispatch to w once the reply is sent.  If nobody receives it,
\* cleanup_failed_dispatch parks w again and the Pool leaves its loop.
Reply(w, answered) ==
    /\ mode' = IF answered THEN mode ELSE "stopping"
    /\ inflight' = IF answered THEN w ELSE None
    /\ cpu' = IF answered THEN cpuset_alloc(w) ELSE cpuset_release(w)

\* The Worker of f that became Idle last is picked, which can be any of them.
pick_idle_worker(f) == {w \in Idle : fn[w] = f}

\* handle_dispatch reuses the Idle Worker w.
DispatchIdle(f, w, answered) ==
    /\ Dispatching
    /\ w \in pick_idle_worker(f) \ cpu
    /\ Reply(w, answered)
    /\ IF answered
       THEN /\ state' = [state EXCEPT ![w] = "Active"]
            /\ deadlines' = deadlines \ {w}
            /\ rearm({w}, {})
            /\ inuse' = inuse
       ELSE /\ inuse' = Less(inuse, 1)
            /\ rearm({w}, {w})
            /\ UNCHANGED <<state, deadlines>>
    /\ UNCHANGED <<fn, acct, sandbox_id, worker_by_sandbox, reclaimed, leaked, boxVars, ctlVars,
                   workerVars>>

\* The same, but w holds a cpuset already: the assertion of CpuSetManager::alloc fails.
DispatchAborts(f, w) ==
    /\ Dispatching
    /\ w \in pick_idle_worker(f) \cap cpu
    /\ mode' = "aborted"
    /\ UNCHANGED <<storeVars, timerVars, cpu, memVars, boxVars, ctlVars, inflight, workerVars>>

\* No Idle Worker of f, and its Worker cap is not reached.
MaySpawn(f) ==
    /\ Dispatching
    /\ pick_idle_worker(f) = {}
    /\ NumLive(f) < WorkerCap

\* handle_dispatch spawns w.
DispatchNew(f, w, s, E, answered) ==
    /\ MaySpawn(f)
    /\ s \in PreferSnapshot(f)
    /\ SpawnAndEvict(w, f, s, E, "starting", IF answered THEN "Active" ELSE "Idle")
    /\ Reply(w, answered)
    /\ ctrl' = Sent(E, "ShutDown")
    /\ UNCHANGED <<leaked, trashed, ctlVars, invoked, out, exit, snapped, overtaken>>

\* handle_dispatch denies the request for lack of memory, after an eviction.
DispatchDenied(f, E) ==
    /\ MaySpawn(f)
    /\ E # {}
    /\ EvictOnly(E)
    /\ UNCHANGED <<mode, fn, sandbox_id, worker_by_sandbox, cpu, leaked, boxVars, ctlVars, inflight,
                   at, invoked, out, box, exit, snapped, overtaken>>

\* The Pool leaves its loop: a quit notification, a Worker that cannot be spawned for a
\* dispatch, or a closed admission channel, with which an unforwarded invocation is lost.
\* Notifications of timers that are still under way are not read any more.
LeaveLoop ==
    /\ mode = "running"
    /\ mode' = "stopping"
    /\ inflight' \in {inflight, None}
    /\ late' = {}
    /\ UNCHANGED <<storeVars, timers, armed, deadlines, cpu, memVars, boxVars, ctlVars, workerVars>>

\* The AdmissionController forwards the invocation with the WorkerRef it was given.
Forward(w) ==
    /\ mode # "aborted"
    /\ inflight = w
    /\ inflight' = None
    /\ invoked' = IF at[w] \in {"finished", "reaped"} THEN invoked ELSE invoked \cup {w}
    /\ UNCHANGED <<mode, storeVars, timerVars, cpu, memVars, boxVars, ctlVars, at, ctrl, out, box,
                   exit, snapped, overtaken>>

-----------------------------------------------------------------------------
\* Messages from the Workers.

\* m is the oldest message of w, and is consumed.
Receive(w, m) ==
    /\ out[w] # <<>> /\ Head(out[w]) = m
    /\ out' = [out EXCEPT ![w] = Tail(@)]

Up == mode \in {"running", "draining"}

\* w has created its Sandbox.
update_sandbox_id(w) ==
    /\ Up
    /\ Receive(w, "SandboxId")
    /\ sandbox_id' = [sandbox_id EXCEPT ![w] = w]
    /\ worker_by_sandbox' = [worker_by_sandbox EXCEPT ![w] = w]
    /\ UNCHANGED <<mode, state, fn, acct, timerVars, cpu, memVars, boxVars, ctlVars, inflight, at,
                   invoked, ctrl, box, exit, snapped, overtaken>>

\* Mutant of on_need_work: a pending operation does not keep the Worker Active.
NeedWorkIgnoresOps(w) ==
    /\ mode = "running"
    /\ Receive(w, "NeedWork")
    /\ cpu' = cpuset_release(w)
    /\ mode' = IF w \in cpu /\ state[w] = "Active" THEN mode ELSE "stopping"
    /\ IF w \in cpu
       THEN deactivate_worker(w, assign(fn[w]))
       ELSE UNCHANGED <<state, acct, inuse, reclaimed, timerVars, ctrl>>
    /\ UNCHANGED <<fn, sandbox_id, worker_by_sandbox, leaked, boxVars, ctlVars, inflight, at,
                   invoked,
                   box, exit, snapped, overtaken>>

\* w has handled its invocation.
on_need_work(w) ==
    /\ mode = "running"
    /\ Receive(w, "NeedWork")
    /\ cpu' = cpuset_release(w)
    /\ mode' = IF w \in cpu /\ (op[w] = None => state[w] = "Active") THEN mode ELSE "stopping"
    /\ IF w \in cpu /\ op[w] = None
       THEN deactivate_worker(w, assign(fn[w]))
       ELSE UNCHANGED <<state, acct, inuse, reclaimed, timerVars, ctrl>>
    /\ UNCHANGED <<fn, sandbox_id, worker_by_sandbox, leaked, boxVars, ctlVars, inflight, at,
                   invoked,
                   box, exit, snapped, overtaken>>

\* The preparation that w was asked for has ended.
finalize_sandbox_preparation(w, result) ==
    /\ mode = "running"
    /\ Receive(w, result)
    /\ cpu' = cpuset_release(w)
    /\ mode' = IF w \in cpu /\ (result = "Prepared" => state[w] = "Active") THEN mode ELSE "stopping"
    /\ IF result = "Prepared"
       THEN deactivate_worker(w, assign(fn[w]))
       ELSE UNCHANGED <<state, acct, inuse, reclaimed, timerVars, ctrl>>
    /\ call' = Answered({Waiting("PrepareSandbox", w)})
    /\ op' = [op EXCEPT ![w] = None]
    /\ UNCHANGED <<fn, sandbox_id, worker_by_sandbox, leaked, boxVars, paused, inflight, at,
                   invoked,
                   box, exit, snapped, overtaken>>

\* The snapshotting that w was asked for has ended, well or not.  A Worker that was Idle
\* before gets the rest of its keep-alive period.
finalize_snapshotting(w) ==
    /\ mode = "running"
    /\ Receive(w, "Snapshotted")
    /\ mode' = IF state[w] = "Active" THEN mode ELSE "stopping"
    /\ deactivate_worker(w, IF box[w] \in paused THEN {TRUE} ELSE assign(fn[w]))
    /\ paused' = paused \ {box[w]}
    /\ call' = Answered({Waiting("Snapshot", box[w])})
    /\ op' = [op EXCEPT ![w] = None]
    /\ UNCHANGED <<fn, sandbox_id, worker_by_sandbox, cpu, leaked, boxVars, inflight, at, invoked,
                   box, exit, snapped, overtaken>>

\* Mutant of EndControlOps: those who wait for a snapshot are forgotten.
EndOpsButSnapshots(w) ==
    /\ op' = [op EXCEPT ![w] = None]
    /\ paused' = paused \ {sandbox_id[w]}
    /\ call' = Answered({Waiting("PrepareSandbox", w), Waiting("DestroySandbox", w)})

\* finalize_control_ops and the answer to the pending DestroySandbox calls.
EndControlOps(w) ==
    /\ op' = [op EXCEPT ![w] = None]
    /\ paused' = paused \ {sandbox_id[w]}
    /\ call' = Answered({Waiting("PrepareSandbox", w), Waiting("DestroySandbox", w),
                         Waiting("Snapshot", sandbox_id[w])} \ {Waiting("Snapshot", None)})

\* Mutant of ReapMemory: all memory is taken from what is in use.
ReapFromInUse(w) ==
    /\ inuse' = IF exit[w] \in {"Reusable", "Gone"} THEN Less(inuse, 1) ELSE inuse
    /\ leaked' = IF exit[w] \in {"Reusable", "Gone"} THEN leaked ELSE leaked \cup {w}
    /\ reclaimed' = reclaimed

\* reap_mem_account, unless the Worker's resources may still be there.
ReapMemory(w) ==
    IF exit[w] \in {"Reusable", "Gone"}
    THEN /\ inuse' = IF acct[w] = "InUse" THEN Less(inuse, 1) ELSE inuse
         /\ reclaimed' = IF acct[w] = "Reclaimed" THEN Less(reclaimed, 1) ELSE reclaimed
         /\ leaked' = leaked
    ELSE /\ leaked' = leaked \cup {w}
         /\ UNCHANGED <<inuse, reclaimed>>

\* The Sandbox that w hands back is an orphan snapshot, or trash.
ReapSandbox(w) ==
    /\ snapshots' = IF exit[w] = "Reusable" THEN snapshots \cup {box[w]} ELSE snapshots
    /\ trashed' = IF exit[w] = "Trashed" THEN trashed \cup {box[w]} ELSE trashed

\* Mutant of reap_worker: the stale cpuset is not released.
ReapKeepsCpu(w) ==
    /\ Up
    /\ Receive(w, "ReapMe")
    /\ state[w] \in {"Active", "Dying"}
    /\ state' = [state EXCEPT ![w] = "None"]
    /\ deadlines' = deadlines \ {w}
    /\ worker_by_sandbox' = Put(worker_by_sandbox, {sandbox_id[w]}, None)
    /\ EndControlOps(w)
    /\ ReapMemory(w)
    /\ ReapSandbox(w)
    /\ at' = [at EXCEPT ![w] = "reaped"]
    /\ UNCHANGED <<mode, fn, acct, sandbox_id, timers, armed, late, cpu, inflight, invoked, ctrl,
                   box,
                   exit, snapped, overtaken>>

\* w has ended; its Sandbox comes back to the Pool.
reap_worker(w) ==
    /\ Up
    /\ Receive(w, "ReapMe")
    /\ state[w] \in {"Active", "Dying"}
    /\ state' = [state EXCEPT ![w] = "None"]
    /\ deadlines' = deadlines \ {w}
    /\ worker_by_sandbox' = Put(worker_by_sandbox, {sandbox_id[w]}, None)
    /\ cpu' = cpuset_release(w)
    /\ EndControlOps(w)
    /\ ReapMemory(w)
    /\ ReapSandbox(w)
    /\ at' = [at EXCEPT ![w] = "reaped"]
    /\ UNCHANGED <<mode, fn, acct, sandbox_id, timers, armed, late, inflight, invoked, ctrl, box,
                   exit,
                   snapped, overtaken>>

\* A ReapMe of a Worker that was reaped before, or is taken for Idle, is ignored.
ReapIgnored(w) ==
    /\ Up
    /\ Receive(w, "ReapMe")
    /\ state[w] \in {"None", "Idle"}
    /\ UNCHANGED <<poolVars, at, invoked, ctrl, box, exit, snapped, overtaken>>
-----------------------------------------------------------------------------
\* The control plane.

\* A call is answered at once: an unknown Function or Sandbox, a Worker that cannot be
\* spawned, another operation pending, an Active Worker it may not disturb.
RequestRefused(c) ==
    /\ mode = "running"
    /\ call[c] = New
    /\ call' = [call EXCEPT ![c] = Done]
    /\ UNCHANGED <<mode, storeVars, timerVars, cpu, memVars, boxVars, op, paused, inflight,
                   workerVars>>

\* A call on the Sandbox s, whose Worker has the operation o pending, joins its waiters.
RequestJoins(c, s, o) ==
    /\ mode = "running"
    /\ call[c] = New
    /\ LET w == worker_by_sandbox[s] IN
       /\ w # None /\ op[w] = o
       /\ call' = [call EXCEPT ![c] = Waiting(o, IF o = "Snapshot" THEN s ELSE w)]
    /\ UNCHANGED <<mode, storeVars, timerVars, cpu, memVars, boxVars, op, paused, inflight,
                   workerVars>>

\* request_sandbox_prep spawns w, fresh or around a snapshot, and asks it to prepare.
RequestPrep(c, f, w, s, E) ==
    /\ mode = "running"
    /\ call[c] = New
    /\ s \in {None} \cup Orphans(f)
    /\ SpawnAndEvict(w, f, s, E, "starting", "Active")
    /\ cpu' = cpuset_alloc(w)
    /\ op' = [op EXCEPT ![w] = "PrepareSandbox"]
    /\ call' = [call EXCEPT ![c] = Waiting("PrepareSandbox", w)]
    /\ ctrl' = [Sent(E, "ShutDown") EXCEPT ![w] = <<"PrepareSandbox">>]
    /\ UNCHANGED <<mode, leaked, trashed, paused, inflight, invoked, out, exit, snapped, overtaken>>

\* The same, but w has failed to initialise by the time it is asked.  It keeps its
\* pending operation until it is reaped.
RequestPrepUnheard(c, f, w, s, E) ==
    /\ mode = "running"
    /\ call[c] = New
    /\ s \in {None} \cup Orphans(f)
    /\ SpawnAndEvict(w, f, s, E, "finished", "Active")
    /\ op' = [op EXCEPT ![w] = "PrepareSandbox"]
    /\ call' = [call EXCEPT ![c] = Done]
    /\ ctrl' = Sent(E, "ShutDown")
    /\ out' = [out EXCEPT ![w] = <<"ReapMe">>]
    /\ exit' = [exit EXCEPT ![w] = IF s = None THEN "Gone" ELSE "Reusable"]
    /\ UNCHANGED <<mode, cpu, leaked, trashed, paused, inflight, invoked, snapped, overtaken>>

\* The same, but its task is over by then, so that it is reaped here, before its ReapMe
\* is seen: its memory and its snapshot are the Pool's again.
RequestPrepReaped(c, f, w, E) ==
    /\ mode = "running"
    /\ call[c] = New
    /\ at[w] = "unborn"
    /\ inuse + reclaimed + 1 <= Total
    /\ E \in Victims(inuse + 1)
    /\ to_dying(E)
    /\ rearm(E, {})
    /\ ctrl' = Sent(E, "ShutDown")
    /\ fn' = [fn EXCEPT ![w] = f]
    /\ at' = [at EXCEPT ![w] = "reaped"]
    /\ out' = [out EXCEPT ![w] = <<"ReapMe">>]
    /\ call' = [call EXCEPT ![c] = Done]
    /\ UNCHANGED <<mode, sandbox_id, worker_by_sandbox, cpu, leaked, boxVars, op, paused, inflight,
                   invoked, box, exit, snapped, overtaken>>

\* There is no memory for a Worker.  The snapshot that was picked for it is dropped.
RequestPrepOutOfMemory(c, f, s, E) ==
    /\ mode = "running"
    /\ call[c] = New
    /\ s \in {None} \cup Orphans(f)
    /\ EvictOnly(E)
    /\ snapshots' = snapshots \ {s}
    /\ call' = [call EXCEPT ![c] = Done]
    /\ UNCHANGED <<mode, fn, sandbox_id, worker_by_sandbox, cpu, leaked, trashed, op, paused,
                   inflight,
                   at, invoked, out, box, exit, snapped, overtaken>>

\* The call c starts the operation o on w, if its message was heard.
Started(c, w, o, x, heard) ==
    /\ op' = IF heard THEN [op EXCEPT ![w] = o] ELSE op
    /\ call' = [call EXCEPT ![c] = IF heard THEN Waiting(o, x) ELSE Done]

\* A message can fail to be sent only to a Worker that has left its loop.
MayBeHeard(w, heard) == ~heard => at[w] = "finished"

\* destroy_idle_worker and destroy_active_worker.
destroy_live_worker(w, remove) ==
    /\ to_dying({w})
    /\ rearm({w} \cap Idle, {})
    /\ ctrl' = Sent({w}, IF remove THEN "DestroySandbox" ELSE "ShutDown")

\* request_sandbox_destr on the Sandbox of an Idle or an Active Worker.
RequestDestroyLive(c, s, remove, heard) ==
    LET w == worker_by_sandbox[s] IN
    /\ mode = "running"
    /\ call[c] = New
    /\ w # None /\ op[w] = None /\ w \in Idle \cup Active
    /\ MayBeHeard(w, heard)
    /\ destroy_live_worker(w, remove)
    /\ Started(c, w, "DestroySandbox", w, heard)
    /\ UNCHANGED <<mode, fn, sandbox_id, worker_by_sandbox, cpu, leaked, boxVars, paused,
                   inflight, at,
                   invoked, out, box, exit, snapped, overtaken>>

\* request_sandbox_destr on the Sandbox of a Dying Worker waits for it to be reaped.
RequestDestroyDying(c, s) ==
    LET w == worker_by_sandbox[s] IN
    /\ mode = "running"
    /\ call[c] = New
    /\ w # None /\ op[w] = None /\ state[w] = "Dying"
    /\ Started(c, w, "DestroySandbox", w, TRUE)
    /\ UNCHANGED <<mode, storeVars, timerVars, cpu, memVars, boxVars, paused, inflight, workerVars>>

\* request_sandbox_destr on an orphan snapshot spawns a Dying Worker to destroy it.
RequestDestroyOrphan(c, s, w, heard) ==
    /\ mode = "running"
    /\ call[c] = New
    /\ s \in snapshots
    /\ Spawn(w, fn[s], s, IF heard THEN "starting" ELSE "finished")
    /\ state' = [state EXCEPT ![w] = "Dying"]
    /\ acct' = [acct EXCEPT ![w] = "Uncharged"]
    /\ ctrl' = [ctrl EXCEPT ![w] = IF heard THEN <<"DestroySandbox">> ELSE <<>>]
    /\ out' = [out EXCEPT ![w] = IF heard THEN <<>> ELSE <<"ReapMe">>]
    /\ exit' = [exit EXCEPT ![w] = IF heard THEN None ELSE "Reusable"]
    /\ Started(c, w, "DestroySandbox", w, heard)
    /\ UNCHANGED <<mode, timerVars, cpu, memVars, trashed, paused, inflight, invoked, snapped,
                   overtaken>>

\* Mutant of RequestSnapshot: a second snapshotting is started instead of joined.
SnapshotAgain(c, s, heard) ==
    LET w == worker_by_sandbox[s] IN
    /\ mode = "running"
    /\ call[c] = New
    /\ w # None /\ op[w] \in {None, "Snapshot"} /\ w \in Idle \cup Active
    /\ MayBeHeard(w, heard)
    /\ rearm({w}, {})
    /\ state' = [state EXCEPT ![w] = "Active"]
    /\ deadlines' = deadlines \ {w}
    /\ paused' = IF heard /\ w \in deadlines THEN paused \cup {s} ELSE paused
    /\ ctrl' = Sent({w}, "CreateSnapshot")
    /\ Started(c, w, "Snapshot", s, heard)
    /\ UNCHANGED <<mode, fn, acct, sandbox_id, worker_by_sandbox, cpu, memVars, boxVars,
                   inflight, at,
                   invoked, out, box, exit, snapped, overtaken>>

\* request_snapshotting on the Sandbox of an Idle Worker, which becomes Active for it,
\* or of an Active one.
RequestSnapshot(c, s, heard) ==
    LET w == worker_by_sandbox[s] IN
    /\ mode = "running"
    /\ call[c] = New
    /\ w # None /\ op[w] = None /\ w \in Idle \cup Active
    /\ MayBeHeard(w, heard)
    /\ rearm({w}, {})
    /\ state' = [state EXCEPT ![w] = "Active"]
    /\ deadlines' = deadlines \ {w}
    /\ paused' = IF heard /\ w \in deadlines THEN paused \cup {s} ELSE paused
    /\ ctrl' = Sent({w}, "CreateSnapshot")
    /\ Started(c, w, "Snapshot", s, heard)
    /\ UNCHANGED <<mode, fn, acct, sandbox_id, worker_by_sandbox, cpu, memVars, boxVars,
                   inflight, at,
                   invoked, out, box, exit, snapped, overtaken>>

-----------------------------------------------------------------------------
\* Shutting down.

\* All Idle Workers that have a timer, and all Active ones, are asked to shut down.
BeginShutdown ==
    LET idle == Idle \cap timers IN
    /\ mode = "stopping"
    /\ mode' = "draining"
    /\ to_dying(idle \cup Active)
    /\ timers' = timers \ idle /\ armed' = armed \ idle
    /\ ctrl' = Sent(idle \cup Active, "ShutDown")
    /\ UNCHANGED <<late, fn, sandbox_id, worker_by_sandbox, cpu, leaked, boxVars, ctlVars, inflight,
                   at, invoked, out, box, exit, snapped, overtaken>>

\* Mutant of DrainNeedWork: the message is looked at but not taken from the channel.
DrainPeek(w) ==
    /\ mode = "draining"
    /\ out[w] # <<>> /\ Head(out[w]) = "NeedWork"
    /\ cpu' = cpuset_release(w)
    /\ UNCHANGED <<mode, storeVars, timerVars, memVars, boxVars, ctlVars, inflight, workerVars>>

\* An invocation ends while the Pool is shutting down.
DrainNeedWork(w) ==
    /\ mode = "draining"
    /\ Receive(w, "NeedWork")
    /\ cpu' = cpuset_release(w)
    /\ UNCHANGED <<mode, storeVars, timerVars, memVars, boxVars, ctlVars, inflight, at, invoked,
                   ctrl,
                   box, exit, snapped, overtaken>>

\* finalize_sandbox_preparation_during_shutdown
DrainPreparation(w, result) ==
    /\ mode = "draining"
    /\ Receive(w, result)
    /\ cpu' = cpuset_release(w)
    /\ call' = Answered({Waiting("PrepareSandbox", w)})
    /\ op' = [op EXCEPT ![w] = None]
    /\ UNCHANGED <<mode, storeVars, timerVars, memVars, boxVars, paused, inflight, at, invoked,
                   ctrl,
                   box, exit, snapped, overtaken>>

\* finalize_snapshotting_during_shutdown
DrainSnapshot(w) ==
    /\ mode = "draining"
    /\ Receive(w, "Snapshotted")
    /\ op' = [op EXCEPT ![w] = None]
    /\ paused' = paused \ {box[w]}
    /\ call' = Answered({Waiting("Snapshot", box[w])})
    /\ UNCHANGED <<mode, storeVars, timerVars, cpu, memVars, boxVars, inflight, at, invoked,
                   ctrl, box,
                   exit, snapped, overtaken>>

\* No Worker is tracked any more: the orphan snapshots are kept, or destroyed one by one,
\* and the senders of whatever is pending are dropped.
FinishShutdown ==
    /\ mode = "draining"
    /\ \A w \in Workers : state[w] = "None"
    /\ mode' = "exited"
    /\ snapshots' = IF RetainSnapshots THEN snapshots ELSE {}
    /\ \E S \in SUBSET (snapshots \ snapshots') : trashed' = trashed \cup S
    /\ call' = [c \in Calls |-> Done]
    /\ UNCHANGED <<storeVars, timerVars, cpu, memVars, op, paused, inflight, workerVars>>

-----------------------------------------------------------------------------
\* The Workers.

\* w leaves its loop, or never reached it, and asks to be reaped.
Finish(w, messages, e) ==
    /\ at' = [at EXCEPT ![w] = "finished"]
    /\ out' = [out EXCEPT ![w] = @ \o messages \o <<"ReapMe">>]
    /\ exit' = [exit EXCEPT ![w] = e]
    /\ ctrl' = [ctrl EXCEPT ![w] = <<>>]
    /\ invoked' = invoked \ {w}
    /\ UNCHANGED <<poolVars, box, snapped, overtaken>>

\* What can become of the Sandbox of a Worker whose request failed: one without a snapshot
\* is destroyed, one with a snapshot is unloaded, or destroyed if it cannot be paused;
\* each can go wrong.
FailureExits(w) ==
    IF box[w] = None THEN {"Gone"}
    ELSE {"Gone", "Trashed", "Leaked"} \cup (IF box[w] \in snapped THEN {"Reusable"} ELSE {})

ShutdownExits(w) ==
    IF box[w] = None THEN {"Gone"}
    ELSE IF box[w] \in snapped THEN {"Reusable", "Trashed"} ELSE {"Gone", "Trashed", "Leaked"}

DestroyExits(w) == IF box[w] = None THEN {"Gone"} ELSE {"Gone", "Trashed", "Leaked"}

\* The runtime instance of w is initialised, or not.
WorkerInit(w) ==
    /\ at[w] = "starting"
    /\ at' = [at EXCEPT ![w] = "loop"]
    /\ UNCHANGED <<poolVars, invoked, ctrl, out, box, exit, snapped, overtaken>>

WorkerInitFails(w) ==
    /\ at[w] = "starting"
    /\ Finish(w, <<>>, IF box[w] = None THEN "Gone" ELSE "Reusable")

\* w takes the invocation from its queue.
handle_request(w) ==
    /\ at[w] = "loop" /\ w \in invoked
    /\ at' = [at EXCEPT ![w] = "busy"]
    /\ invoked' = invoked \ {w}
    /\ UNCHANGED <<poolVars, ctrl, out, box, exit, snapped, overtaken>>

\* w, which has no Sandbox, creates one and tells the Pool its SandboxId.
create_sandbox(w) ==
    /\ at[w] \in {"busy", "preparing"} /\ box[w] = None
    /\ box' = [box EXCEPT ![w] = w]
    /\ out' = [out EXCEPT ![w] = Append(@, "SandboxId")]
    /\ UNCHANGED <<poolVars, at, invoked, ctrl, exit, snapped, overtaken>>

\* The request w is busy with ends well, its Sandbox paused and perhaps snapshotted.
RequestEnds(w) ==
    /\ at[w] \in {"busy", "preparing"} /\ box[w] # None
    /\ at' = [at EXCEPT ![w] = "loop"]
    /\ out' = [out EXCEPT ![w] = Append(@, IF at[w] = "busy" THEN "NeedWork" ELSE "Prepared")]
    /\ snapped' \in {snapped, snapped \cup {box[w]}}
    /\ UNCHANGED <<poolVars, invoked, ctrl, box, exit, overtaken>>

\* The request fails, and try_handle_failure does what it can about the Sandbox.
RequestFails(w, e) ==
    /\ at[w] \in {"busy", "preparing"}
    /\ e \in FailureExits(w)
    /\ Finish(w, IF at[w] = "busy" THEN <<>> ELSE <<"PrepFailed">>, e)

\* The loop of w takes the control message m: no invocation is waiting.
Control(w, m) == at[w] = "loop" /\ w \notin invoked /\ ctrl[w] # <<>> /\ Head(ctrl[w]) = m

HandleShutDown(w, e) ==
    /\ Control(w, "ShutDown")
    /\ e \in ShutdownExits(w)
    /\ Finish(w, <<>>, e)

HandleDestroySandbox(w, e) ==
    /\ Control(w, "DestroySandbox")
    /\ e \in DestroyExits(w)
    /\ Finish(w, <<>>, e)

handle_prepare_sandbox_request(w) ==
    /\ Control(w, "PrepareSandbox")
    /\ at' = [at EXCEPT ![w] = "preparing"]
    /\ ctrl' = [ctrl EXCEPT ![w] = Tail(@)]
    /\ UNCHANGED <<poolVars, invoked, out, box, exit, snapped, overtaken>>

\* The snapshot is created, or exists already, or cannot be created.
handle_snapshot_request(w) ==
    /\ Control(w, "CreateSnapshot")
    /\ ctrl' = [ctrl EXCEPT ![w] = Tail(@)]
    /\ out' = [out EXCEPT ![w] = Append(@, "Snapshotted")]
    /\ snapped' \in {snapped, snapped \cup {box[w]}}
    /\ overtaken' = IF inflight = w THEN overtaken \cup {w} ELSE overtaken
    /\ UNCHANGED <<poolVars, at, invoked, box, exit>>

-----------------------------------------------------------------------------
\* One step of the Worker w.
WorkerStep(w) ==
    /\ mode # "aborted"
    /\ \/ WorkerInit(w) \/ WorkerInitFails(w)
       \/ handle_request(w) \/ create_sandbox(w) \/ RequestEnds(w)
       \/ \E e \in SandboxExit :
              RequestFails(w, e) \/ HandleShutDown(w, e) \/ HandleDestroySandbox(w, e)
       \/ handle_prepare_sandbox_request(w) \/ handle_snapshot_request(w)

\* One message of the Worker w is handled by the Pool.
MessageStep(w) ==
    \/ update_sandbox_id(w)
    \/ on_need_work(w) \/ DrainNeedWork(w)
    \/ \E m \in {"Prepared", "PrepFailed"} :
           finalize_sandbox_preparation(w, m) \/ DrainPreparation(w, m)
    \/ finalize_snapshotting(w) \/ DrainSnapshot(w)
    \/ reap_worker(w) \/ ReapIgnored(w)

\* One DispatchRequest is handled.
DispatchStep ==
    \E f \in Functions :
        \/ \E w \in Workers : DispatchAborts(f, w)
        \/ \E w \in Workers, answered \in BOOLEAN :
               \/ DispatchIdle(f, w, answered)
               \/ \E s \in Workers \cup {None}, E \in SUBSET Idle : DispatchNew(f, w, s, E, answered)
        \/ \E E \in SUBSET Idle : DispatchDenied(f, E)

\* One control-plane call is handled.
ControlStep(c) ==
    \/ RequestRefused(c)
    \/ \E s \in Workers, o \in {"DestroySandbox", "Snapshot"} : RequestJoins(c, s, o)
    \/ \E f \in Functions, s \in Workers \cup {None}, E \in SUBSET Idle :
           \/ RequestPrepOutOfMemory(c, f, s, E)
           \/ \E w \in Workers : RequestPrep(c, f, w, s, E) \/ RequestPrepUnheard(c, f, w, s, E)
    \/ \E f \in Functions, w \in Workers, E \in SUBSET Idle : RequestPrepReaped(c, f, w, E)
    \/ \E s \in Workers, heard \in BOOLEAN :
           \/ \E remove \in BOOLEAN : RequestDestroyLive(c, s, remove, heard)
           \/ \E w \in Workers : RequestDestroyOrphan(c, s, w, heard)
           \/ RequestSnapshot(c, s, heard)
    \/ \E s \in Workers : RequestDestroyDying(c, s)

KeepAliveStep(w) == \E stale \in BOOLEAN : KeepAliveTimeout(w, stale)

\* A Worker that ended while the Pool took it for Idle: its ReapMe was ignored, and it stays
\* tracked.  Only a snapshotting that overtakes an invocation leads there.
Forgotten(w) == w \in overtaken /\ at[w] = "finished" /\ out[w] = <<>>

\* The process is gone, or waits for Workers that are forgotten.
Exited ==
    /\ \/ mode \in {"exited", "aborted"}
       \/ mode = "draining" /\ \A w \in Workers : state[w] = "None" \/ Forgotten(w)
    /\ UNCHANGED vars

Next ==
    \/ \E w \in Workers :
           WorkerStep(w) \/ MessageStep(w) \/ timer_run(w) \/ KeepAliveStep(w) \/ Forward(w)
    \/ DispatchStep
    \/ \E c \in Calls : ControlStep(c)
    \/ LeaveLoop \/ BeginShutdown \/ FinishShutdown \/ Exited

Spec == Init /\ [][Next]_vars

\* Workers make progress (runtime calls and issued requests time out), the Pool handles
\* what Workers send it (its channel is polled before dispatches and calls), admission
\* forwards what it was given, and shutting down goes on once begun.
Fairness ==
    /\ \A w \in Workers :
           WF_vars(WorkerStep(w)) /\ WF_vars(MessageStep(w)) /\ WF_vars(Forward(w))
    /\ WF_vars(BeginShutdown) /\ WF_vars(FinishShutdown)

FairSpec == Spec /\ Fairness

-----------------------------------------------------------------------------
\* Properties.

InQueue(q, M) == \E i \in DOMAIN q : q[i] \in M

CallType ==
    {New, Done} \cup [op : PendingControlOp, on : Workers]

\* Every variable keeps its type.
TypeOK ==
    /\ mode \in {"running", "stopping", "draining", "exited", "aborted"}
    /\ state \in [Workers -> Lifecycle]
    /\ fn \in [Workers -> Functions \cup {None}]
    /\ acct \in [Workers -> {"InUse", "Reclaimed", "Uncharged"}]
    /\ sandbox_id \in [Workers -> Workers \cup {None}]
    /\ worker_by_sandbox \in [Workers -> Workers \cup {None}]
    /\ timers \subseteq Workers /\ armed \subseteq timers
    /\ late \subseteq Workers /\ deadlines \subseteq Workers
    /\ cpu \subseteq Workers
    /\ inuse \in Nat /\ reclaimed \in Nat
    /\ snapshots \subseteq Workers /\ trashed \subseteq Workers /\ leaked \subseteq Workers
    /\ op \in [Workers -> PendingControlOp \cup {None}]
    /\ paused \subseteq Workers
    /\ call \in [Calls -> CallType]
    /\ inflight \in Workers \cup {None}
    /\ at \in [Workers -> Place]
    /\ invoked \subseteq Workers
    /\ ctrl \in [Workers -> Seq(ControlMessage)]
    /\ out \in [Workers -> Seq(OutboundMessage)]
    /\ box \in [Workers -> Workers \cup {None}]
    /\ exit \in [Workers -> SandboxExit \cup {None}]
    /\ snapped \subseteq Workers /\ overtaken \subseteq Workers

\* An Idle Worker can be dispatched to: it has a timer that will end its keep-alive and a
\* deadline for pick_idle_worker to compare, holds no cpuset that a second `alloc' would
\* collide with, has no operation pending, and is still there with nothing left to do.
\* Nothing else has a timer, so a valid timeout always finds an Idle Worker.  A Worker whose
\* invocation a snapshotting overtook may be Idle with its cpuset, and busy: control.rs:900
\* makes an Active Worker Idle though the invocation it is Active for is still to come.
IdleIsReady ==
    mode # "exited" =>
    /\ timers = Idle /\ deadlines = Idle
    /\ \A w \in Idle \ overtaken :
           /\ w \notin cpu /\ op[w] = None
           /\ at[w] \in {"starting", "loop"} \/ (at[w] = "finished" /\ mode = "stopping")
           /\ w # inflight /\ w \notin invoked /\ ctrl[w] = <<>>
           /\ ~InQueue(out[w], OutboundMessage \ {"ReapMe"})

\* A cpuset is released: whoever holds one is a tracked Worker that is on its way to
\* telling the Pool, by the end of an invocation or of a preparation, or by its own end
\* (unless a snapshotting overtook its invocation: see IdleIsReady).
CpuComesBack ==
    mode = "running" =>
    \A w \in cpu \ overtaken :
        /\ state[w] \in {"Active", "Dying"}
        /\ \/ w = inflight \/ w \in invoked
           \/ at[w] \in {"busy", "preparing"}
           \/ InQueue(ctrl[w], {"PrepareSandbox"})
           \/ InQueue(out[w], {"NeedWork", "Prepared", "PrepFailed", "ReapMe"})

\* The memory in use is that of the live Workers, the memory being reclaimed that of the
\* Dying ones, each with the memory of Workers whose resources could not be freed.
Charged(a) == {w \in Workers : acct[w] = a /\ (state[w] # "None" \/ w \in leaked)}

MemoryExact ==
    mode = "running" =>
    /\ inuse = Cardinality(Charged("InUse"))
    /\ reclaimed = Cardinality(Charged("Reclaimed"))
    /\ \A w \in Workers : state[w] \in {"Idle", "Active"} => acct[w] = "InUse"

\* The Pool never waits for a Worker: at most two messages are ever queued for one,
\* half of its control queue.
ControlQueueBounded == \A w \in Workers : Len(ctrl[w]) <= 2

\* No caller waits in vain: the context of a waiting call belongs to a tracked Worker with
\* that operation pending, and what will end it has not been answered yet (unless a
\* snapshotting overtook its invocation: a ReapMe that is ignored ends nothing).
NoWaiterStranded ==
    mode # "exited" =>
    \A c \in Calls :
        call[c].op \in PendingControlOp =>
        LET o == call[c].op
            w == IF o = "Snapshot" THEN worker_by_sandbox[call[c].on] ELSE call[c].on
        IN  /\ w # None /\ state[w] # "None" /\ op[w] = o
            /\ \/ w \in overtaken
               \/ InQueue(out[w], {"ReapMe"})
               \/ o = "PrepareSandbox" /\ (at[w] = "preparing" \/ InQueue(ctrl[w], {"PrepareSandbox"})
                                             \/ InQueue(out[w], {"Prepared", "PrepFailed"}))
               \/ o = "DestroySandbox" /\ InQueue(ctrl[w], {"ShutDown", "DestroySandbox"})
               \/ o = "Snapshot" /\ (InQueue(ctrl[w], {"CreateSnapshot"})
                                       \/ InQueue(out[w], {"Snapshotted"}))

\* A Sandbox has one owner, a Worker or the Pool, and the reverse index names exactly the
\* tracked Workers that are known to own one.
Owners(s) == {w \in Workers : box[w] = s /\ at[w] # "reaped"}

SandboxOwnedOnce ==
    \A s \in Workers :
        /\ Cardinality(Owners(s)) <= 1
        /\ s \in snapshots \cup trashed => Owners(s) = {}
        /\ s \notin snapshots \cap trashed
        /\ \A w \in Workers :
               worker_by_sandbox[s] = w <=> sandbox_id[w] = s /\ state[w] # "None"
        /\ \A w \in Owners(s) :
               sandbox_id[w] = s \/ InQueue(out[w], {"SandboxId"})

\* The assertion of CpuSetManager::alloc (cpuset.rs:92) never fails: no cpuset is allocated to
\* a Worker that has one.  Violated by a CreateSnapshot that overtakes an invocation.
AllocFindsNoConflict == mode # "aborted"

\* Every call that the Pool has accepted is answered, unless its Worker is forgotten or the
\* assertion fails.
CallsAnswered ==
    \A c \in Calls :
        (call[c].op \in PendingControlOp) ~>
            \/ call[c] = Done \/ mode = "aborted"
            \/ \E w \in Workers : Forgotten(w) /\ call[c].on \in {w, box[w]}

\* Once the Pool has left its loop, it shuts all Workers down and exits, unless it waits for
\* the ReapMe of a Worker that is forgotten.
ShutdownEnds == (mode = "stopping") ~> (mode = "exited" \/ \E w \in Workers : Forgotten(w))
=============================================================================
