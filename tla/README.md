# A TLA+ verification of FaaSCell / snaplace

FaaSCell is a Function-as-a-Service node: it runs each Function invocation in a
Firecracker microVM ("sandbox") and keeps paused sandboxes and snapshots so that
later invocations start fast. Its core is the crate `crates/snaplace`, a set of
tokio actors that talk through channels. This directory models those actors in
TLA+, checks the models with TLC on small instances, and proves the main results
with TLAPS for every value of the constants.

File names below are relative to `src/crates/snaplace/src/`.

## 1. Inventory

| Component | State | Operations | Talks to |
|---|---|---|---|
| Orchestrator (`orchestrator.rs`), server binary (`crates/faascell`) | the actors' handles, the quit channel | start, catch a signal, await everything in order | all |
| Admission controller (`admission/`) | a FIFO queue and a dispatch state per Function, two cached counters, a deadline timer, one outstanding attempt, the semaphore of execution slots | receive, attempt, take the Pool's answer, expire, unblock | request source, Pool (a oneshot reply per attempt and a lossy event channel), Workers (forwarded invocation) |
| Sandbox pool (`sbpool/pool/`) | the Idle/Active/Dying Workers of each Function, memory accounting, orphan snapshots, keep-alive timers and deadlines, CPU sets, pending control operations | answer a dispatch, spawn, keep alive, evict, decommission, reap, prepare/destroy/snapshot on request, reinstate at boot, reconcile the tables at exit | admission, Workers, control plane, snapshot manager, database |
| Worker (`worker/actor.rs`) | one sandbox and its state | create/load/resume, run one invocation, pause, snapshot, recover from a failure, destroy | Pool (SandboxId, NeedWork, ReapMe, ...), Runtime, network manager, snapshot manager, response sink |
| Runtimes (`worker/runtime/`), firecracker-containerd client | VMM processes, sockets, directories, containerd objects, snapshot files | the Runtime trait: init, create, load, pause, resume, snapshot, unload, shut down, destroy | the operating system, the containerd daemon |
| Network manager and providers (`network/`) | the subnet pool, a list of ready TAPs, the TAP devices | allocate, request by name, deallocate, shut down | Workers, Pool (at boot), the kernel |
| Subnet pool (`network/ip_utils/subnet_pool/`) | an iterator, a set taken ahead of it, a queue and a set of returned subnets | get_next, get, give_back | the providers |
| Snapshot manager (`snapman/`) | placement of each snapshot, a writing thread | answer queries for paths, persist a new or a removed snapshot | Workers, Pool, database |
| `faasctl snapshots` (`crates/tools/faasctl`) | none: the tables and the files | mv, sync, forget, ls, while the server is down | database, files |
| Registrar (`metadata/registration/`) | none of its own: the metadata store and the table FUNCTIONS | register, deregister, load at boot | gRPC clients, store, database, Runtime |
| Metadata store (`metadata/store/`) | registered Functions and the sets of their Workers | look-ups and Worker-set moves | everybody |
| Database (`metadata/db.rs`) | redb tables FUNCTIONS, SNAPSHOTS, SNAPS_PER_FUNC | transactions | Registrar, Pool, snapshot manager, faasctl |
| Request source, response sink (`crates/snaplace-grpc`), load generator (`crates/faasrail-snaplace-grpc`) | subscribed clients, the broadcast channel | take a request, broadcast a response, end | clients, admission, Workers |
| Control plane (`control/`) | calls under way | prepare, snapshot, destroy a sandbox; (de)register | Pool, Registrar |
| Metrics (`metrics/collector.rs`) | stored timings | store, write out at the end | Workers |
| Request issuers (`crates/request-issuers`) | a connection to the guest | carry a request into the sandbox, return its response | Workers |
| Configuration, back-off | - | - | - |

What is hard here. Every actor is a `select!` loop: the order in which ready
branches are served is arbitrary, and a message may be overtaken by one on
another channel (an event that announces an idle Worker may be handled before the
`WouldBlock` it would have cured). The Pool's events are dropped when their
channel is full. Counters, timers and reasons are cached and may be stale when
used. A permit, a subnet, a CPU and a Worker's memory are resources which every
error path must give back exactly once. Registration writes two stores without a
lock that spans them, and the process may crash between the writes. A Runtime call is
a sequence of system calls and remote calls, each of which may fail, and a remote one
may take effect although its answer is lost. SandboxIds, which are names of TAP
devices, are used again while the removal of their last snapshot is still on its way to
the database. Devices, files and rows outlive the process. An actor ends when nobody can
send to it any more, or on a quit notification: the order is decided by who holds what.
A panic in any task ends the whole process (`panic = "abort"`, `src/Cargo.toml:69-76`).
`PROJECT.json` lists these hazards one by one, at their lines, with the
properties that would catch them going wrong.

What makes each part correct:

* admission: a request is decided once; none is lost or duplicated; slots are
  neither leaked nor exceeded; the caches agree with the queues; requests of a
  Function are tried in order; no expired request reaches the Pool; everything
  admitted is eventually decided although events get lost;
* registration: what a client was told survives failures and restarts; store and
  database do not disagree about a Function that can be invoked;
* subnet pool: no subnet has two holders and none is lost;
* sandbox pool: charged memory equals the memory of the Workers that hold some;
  a CPU is held by exactly the Workers that run; a Worker is in one set; every
  control operation is answered once; shutdown ends;
* Worker: the sandbox state machine makes only legal moves; whatever is reported
  to the Pool is true of the sandbox; failures destroy or hand over the sandbox;
* networking: a subnet has one owner; a sandbox gets the device it was promised;
* snapshots: a row of the tables names files that exist and hold the Function's VM;
  what the Pool keeps at its shutdown is there after the restart;
* server: a signal ends it; nobody ends before those who still need them.

## 2. Modules and their code

### Admission (`Admission.tla`)

Models `admission/controller.rs`. One action is one iteration of the loop of
`run`: a branch of its `select!`, the whole handler, and the check at the loop's
top that decides whether to wait for a slot (`LoopTop`). No handler awaits
between two of its writes, so an iteration is atomic for the other actors.

| Code | Model |
|---|---|
| `FunctionQueues`: per-Function deque, `FunctionDispatchState`, `total_queued_reqs`, `blocked_function_count` | `queues`, `state`, `total_queued_reqs`, `blocked_function_count` |
| the deadline `Sleep` and its cached instant | `next_deadline` |
| `OutstandingDispatch` and its oneshot | `outstanding`, `reply` |
| the pending `acquire_owned` future | `waiting_for_slot` |
| the semaphore and the `RunningSlot`s of Workers | `permits`, `running` |
| `QuickStats` | `stats` |
| `handle_new_request` | `NewRequestUnknown`, `NewRequestRefused`, `NewRequestQueued` |
| `handle_acquired_slot` | `SlotUnused`, `SlotToDispatch`, `SlotPoolClosed` |
| `handle_dispatch_reply` | `ReplyDispatch`, `ReplyForwardFailed`, `ReplyWouldBlock`, `ReplyReject`, `ReplyClosed` |
| `expire_queued_requests` | `expire_queued_requests` (the swept configuration), used by `DeadlineTimer`, by ingress and by the slot branch |
| `handle_pool_event`, `unblock_all` | `WorkerIdleEvent`, `WorkerCapAvailableEvent`, `MemoryCapAvailableEvent`, `LivenessTimer` |

Events that find nothing to unblock change nothing and are left out: a stuttering
step. The Pool is an environment that answers each attempt as it likes (a running
Pool rejects exactly the unknown Functions) or exits; Workers finish at any time;
Functions are registered and deregistered at any time; the clock ticks. Requests
carry no payload, and the best-effort failure response is left out: `failed`
means handed to `fail_admission`. `ticket`, `dispatched` and `failed` are history.

`RequestLifecycle.tla` is the abstract specification: a request is unseen,
waiting, executing, finished or failed; it is decided once; at most
`MaxConcurrency` execute. `Admission` implements it with queued and outstanding
requests mapped to `waiting` (`ImplementsLifecycle`).

### Registrar (`Registrar.tla`)

Models `metadata/registration/registrar.rs` with the parts of the store and of
the database it uses. An RPC is a task whose steps are separated wherever another
task, or a crash, may come in between: check, Runtime call, database write, store
write; store removal, database removal. A transaction is atomic and may fail. A
crash loses the store and the tasks; `load_from_db` refills the store. `promise`
is history: what clients were last told of each id. Calls on one id overlap as they
like, as nothing in the code prevents it; two histories say where they did: `raced` has
the ids whose latest calls past their check overlapped, `crossed` those where one of these
calls was a deregistration. An id leaves them when a later call passes its check alone,
or by a restart.

### Subnet pool (`SubnetPool.tla`)

Models `FifoExactIpv4SubnetPool` in `network/ip_utils/subnet_pool/fifo_exact.rs`.
Subnets are numbered in the iterator's order; `Nets` also has subnets outside the
configured network, because `get` and `give_back` accept them. `held` is history:
how many holders each subnet has. `Careful` restricts callers to naming subnets
that nobody holds; the callers give back exactly what they got, as the type's
documentation asks.

### Sandbox pool (`SandboxPool.tla`)

Models `sbpool/pool/mod.rs` and `control.rs`, the Workers' loop and messages
(`worker/actor.rs`), the timers and the CPU allocations. The Pool is one task: a
handler, with everything it awaits, is one action. Workers, timer tasks and the
AdmissionController take steps between handlers.

| Code | Model |
|---|---|
| the store's Idle/Active/Dying sets, `WorkerHandle` fields, `worker_by_sandbox` | `state`, `fn`, `acct`, `sandbox_id`, `worker_by_sandbox` |
| `KeepAlive::timers`, sleeping timer tasks, notifications of stopped timers, `worker_deadlines` | `timers`, `armed`, `late`, `deadlines` |
| `MemoryStats`; Workers reaped with their memory still charged (history) | `inuse`, `reclaimed`; `leaked` |
| `CpuSetManager::allocations` | `cpu` |
| orphan snapshots, `trashed_sandboxes` | `snapshots`, `trashed` |
| `PendingControlRequests`: `op_by_worker`, the `timer_info` of snapshots, the waiters | `op`, `paused`, `call` |
| a Dispatch answer that admission has not acted on | `inflight` |
| a Worker's place in its loop, its two queues, its messages, its Sandbox and its `WorkerExit` | `at`, `invoked`, `ctrl`, `out`, `box`, `exit`, `snapped` |
| `handle_dispatch`, `cleanup_failed_dispatch` | `DispatchIdle`, `DispatchNew` (answered or not), `DispatchDenied` |
| `request_sandbox_prep` | `RequestPrep`, `RequestPrepUnheard`, `RequestPrepReaped`, `RequestPrepOutOfMemory` |
| `request_sandbox_destr` | `RequestDestroyLive`, `RequestDestroyDying`, `RequestDestroyOrphan`, `RequestJoins` |
| `request_snapshotting` | `RequestSnapshot`, `RequestJoins` |
| `shutdown` | `BeginShutdown`, `DrainNeedWork`, `DrainPreparation`, `DrainSnapshot`, `FinishShutdown` |

Abstractions. A WorkerId is used once, and a Worker creates at most one Sandbox,
so SandboxIds are Workers. Every Function needs one unit of memory and has the same
Worker cap. A policy may give any answer: a keep-alive period or none, any set of
Idle victims, and any Idle Worker is the one whose deadline is latest. A refusal
that changes nothing but the caller's answer is `RequestRefused`; a dispatch denied
without an eviction changes nothing and is left out. A request inside a Worker ends
well or fails at any point; how the Sandbox then ends is any outcome its state
allows; `Worker` refines that. A timer whose sleep is over may still be about to send:
its notification is handled at any later time, also after the timer was stopped and
replaced, which the comment in `stop_timer` warns of, or never, as when the channel
stayed full for the timer's limit. Events to admission are left out; `Admission` does
not depend on them. Not modelled: a store operation that fails for a Function that is gone.

The Pool may handle a snapshot request for a Worker between its Dispatch answer and the
arrival of the invocation in the Worker's queue (`control.rs:900`), and the Worker may then
snapshot first. `overtaken` is history: the Workers to which this has happened, and the only
ones of which `IdleIsReady`, `CpuComesBack` and `NoWaiterStranded` say less. Two things can
become of such a Worker. Its next dispatch may fail the assertion in `cpuset.rs:92`, which
ends the process (mode `aborted`); or its invocation fails while the Pool has it for Idle, its
`ReapMe` is ignored, and it stays tracked for ever (`Forgotten`).

### Worker and Runtimes (`Worker.tla`, `MicroVm.tla`, `FcRuntime.tla`, `FcctrdRuntime.tla`, `ToyRuntime.tla`)

`Worker` models the actor of `worker/actor.rs`: each step ends at an await, and the
Pool, the VMM and the peers act between steps.

| Code | Model |
|---|---|
| `SandboxState`, the `Sandbox` and what exists of it in the host | `st`, `u` |
| the `NetworkResource` | `net` |
| the await the task is at, the request it serves, the `Error` on its way to the loop | `pc`, `job`, `err` |
| `exit_status`, `WorkerExit` | `status`, `exit` |
| the `RunningSlot`, responses forwarded | `slot`, `resp` |
| what the SnapshotManager was told | `row` |
| the Pool's books on this Worker; the channels | `view`, `known`; `inv`, `ctrl`, `out` |
| `prepare_sandbox`: create, load, resume, pin, tell the Pool | `Allocate`, `Create`, `Pin`, `SendSandboxId`, `Load`, `LoadPin`, `Resume`, `ResumePin` |
| `handle_request` | `TakeInvocation`, the preparation, `PauseBeforeInvoc`, `ResumeAfterSnapshot`, `issue_request`, `forward_response`, `PauseAfterInvoc`, `ReleaseSlot`, `SendNeedWork` |
| `try_handle_failure`, `shutdown`, the end of `run` | `try_handle_failure`, `Quiesce`, `Repause`, `Unload`, `destroy_sandbox`, `Deallocate`, `SendReapMe`, `Return` |

A Runtime operation is a set of outcomes: each says whether the call returned `Ok` and
what the microVM is then. `MicroVm` has the record and the combinators (`Then` is Rust's
`?`, `OrElse` a clean-up on failure, `Rpc` a remote call whose answer may be lost);
`FcRuntime` puts `fc/runtime.rs` together from them, `FcctrdRuntime` `fcctrd/runtime.rs`
with the client it calls, and `ToyRuntime` the Runtimes used in tests, one of which may
do anything the trait allows. The three are extended by `Worker`, which picks among them by
the Runtime the server was built with. `stray` marks a VMM that may run though the Runtime was
told that its call failed.

### Network (`Network.tla`)

Models the NetworkManager, `PlainTapDevices` and `PoolTapDevices` on top of
`SubnetPool` (instantiated with Network's own variables), the making and deleting of a
device in `tap.rs` step by step, the Workers that hold devices, and what happens to all
that in a crash and in the next process, where the Pool asks by name for the devices of
the snapshots it finds in the database. A device is named after its guest's address, so
the subnet stands for both. `link` is the kernel's view: absent, partly made, complete,
torn (left half made by a dead process) or alien (with a VM of a dead process on it).
`lost` is history: subnets that a failure cost, which the code accepts. A subnet counts as
free in the pool only if it also has an entry in the pool's queue: without one `get_next`
would never find it. A `TapBuilder` that comes back to the pool provider is `unreachable!`
there (`pool_tap.rs:227`): the process ends like in a crash (`UndoPanics`).

### Snapshots (`Snapshots.tla`)

Models the files, the tables SNAPSHOTS and SNAPS_PER_FUNC, the SnapshotManager with its
bounded channel and its writing thread, reinstatement and reconciliation by the Pool
(`sbpool/pool/reinstate.rs`), and `faasctl snapshots mv`, `sync`, `forget`. `failed` is
history: IDs on which an operation failed, a removal that a crash loses included; what the
properties say of an ID ends there. Functions with snapshots are deregistered and registered
again, `retain_snapshots` changes between lives, and at shutdown the writing thread is behind
by any number of messages: nothing of that is restricted. `stale` is history too: the IDs that
met one of the windows in which the code mixes up or loses rows. There are five, each
recorded by the action in which it occurs:

* `Create`: the ID is used again beside an older row of it, which the last start passed over
  because its Function was not registered then;
* `Crossed` (in `Stop`): another Function's removal of the ID is still queued at the writing
  thread when the reconciliation begins, and takes the row just written;
* `OnlyListed` (in `SyncListed`, `SyncUnlisted`): SNAPS_PER_FUNC goes on listing an ID of which the
  reconciliation has deleted the state;
* `DestroyOrphan`: the files go before the tables are wiped, and the server may stop between;
* `wipe_db_snapshots`: a NewSnapshot still queued is written after the wipe.

`Sound` are the IDs in neither history. Section 5 says what goes wrong in each window: without
its entry in `stale` a property fails.

### Lifecycle (`Lifecycle.tla`)

Composes the server: `Orchestrator::spawn`, the signal handlers, the quit channel with
one receiver per listener (a receiver sees what is sent after it subscribed), the ends
of all eight actors, and the order in which `Orchestrator::shutdown` awaits them. What
an actor does in between is reduced to what its end depends on: where each request and
its Worker are, the clients, control calls with their time limits. Clients come as soon as a
service listens, also while the rest is being spawned. Admission's channel closes when the last
sender is dropped, and tonic's connection tasks hold clones of the source's: `feeds` are the
clients connected to it, and `SourceSendersGone` says that the source has returned and none of
them is left. On the way back a response is in the sink's channel (`chan`), broadcast
(`backlog`), in the hand of its sink-worker (`hand`), which waits up to its time limit for room,
or in the queue of the connection (`to_client`). The losses the code allows (a full response
channel, queued requests at the quit, a response whose client lags or is gone, one that is
still in hand or in a connection's queue at the end) are there; a request is `over` once its
response is broadcast or lost.

## 3. Runs

`MC*.tla` instantiate the modules; a `.cfg` gives the constants their values.

| Run | Checks | Shows |
|---|---|---|
| `admission_safety` | `TypeOK`, `CountersExact`, `ExactlyOnePlace`, `SlotConservation`, `FifoPerFunction`, `TimerNotLate`, `NoExpiredAttempt`, `ImplementsLifecycle` | the controller's safety with two Functions, three requests, two slots, a clock of two ticks |
| `admission_liveness` | `BlockedIsRetried`, `EveryRequestResolved` | with every event lost, blocked Functions are retried and every request leaves admission |
| `registrar` | `StoreBackedByDb`, `AckedIsDurable`, `RacedIsNotLost` | registration survives failures and crashes on each id whose calls did not overlap, and registrations that race lose no Function |
| `subnets_careful` | `NoDoubleHandout`, `NoFalseExhaustion` | with callers that name free subnets only, the pool is right |
| `pool_safety` | `IdleIsReady`, `CpuComesBack`, `MemoryExact`, `ControlQueueBounded`, `SandboxOwnedOnce` | the Pool's books agree with one another and with what its Workers are doing, timers and CPUs with the exception of `overtaken` Workers |
| `pool_liveness` | `CallsAnswered`, `ShutdownEnds` | every accepted call is answered and shutdown ends, unless an `overtaken` Worker is `Forgotten` |
| `pool_window` | `AllocFindsNoConflict` (violated) | a Worker that was overtaken is Idle with the CPU of a dispatch, and the next dispatch fails an assertion: the process aborts |
| `worker_safety` | `ReusableIsIntact`, `NothingLeftBehind`, `LoopStateIsReal`, `PoolProtocol`, `RowIsTrue`, `PanicsOnlyOnResume`, `EndsWhenTold`, `SlotComesBack` | whatever fails inside a Runtime call, what the Worker says and returns is true, and it ends |
| `worker_resume` | `NeverPanics` (violated) | a failed resume after the first snapshot reaches an `unreachable!`, which aborts the server |
| `network` | `InOnePlace`, `DeviceIsRight`, `ManagerEnds` | both providers keep every subnet in one place and every sandbox on the right device, across a crash |
| `snapshots` | `RowsHaveFiles`, `SnapshotForItsFunction`, `KeptAcrossRestart` | for `Sound` IDs the tables list what can be loaded, as what it is, through ID reuse, lag, deregistration, crashes, restarts and interrupted tools |
| `lifecycle` | `ServicesOutlive`, `AnswersForwarded`, `QuitEndsServer`, `SourceLossStopsPool` | services outlive their users, every response that was sent reaches the sink-workers, and a signal, or the loss of everything that can send requests, brings the server, or the Pool, to its end |

Every property of a passing run has a mutant in `PROJECT.json`: a plausible bug in
a definition, under which TLC finds the property violated. The mutated forms stand
in the modules, before the definitions they replace, marked "Mutant". Each module also
states its type invariant, `TypeOK`; the one of `Admission`, which is proved, is part of
a run, the others hold on the same instances.

Bounds. Three requests over two Functions are the fewest with a queue of two, a
requeue behind which another request waits, and a second Function that is blocked
or expires at the same time; the limits are chosen so that a queue is full while
the global one is not, and the other way round; two slots let a dispatch overtake a
running invocation; two ticks let one request expire while another does not. Four
calls on two ids give two registrations of one id that race, a deregistration among them,
and a later call that meets what they left. Four subnets and one foreign one on each side give an iterator head, a subnet
taken ahead, a returned one and a held one at once; `MaxQueue` bounds the queue,
which the code does not. For the Pool, two Workers give one that serves while the
other is evicted, prepared, destroyed or made from the first one's snapshot; two
Functions let a dispatch be denied while the other's Worker is evicted; two calls meet on one
operation (`pool_liveness` has one Function and one call, which meets the shutdown); memory for two
Workers makes it run out, and the thresholds trigger evictions as soon as both are charged. A Worker gets two requests (`Work`), of
any kind, then its end: the second meets every state that the first can leave. Two
subnets and two Workers (`network`) give one that holds or waits for what the other
lost, and a ready list (`Capacity` 1) that runs empty; two processes (`MaxLives`) are a
crash and what follows. For snapshots, two IDs and two Functions let one ID be used again
by the other Function while another is moved; `MaxLives` 3 is a kept snapshot that is
reinstated and kept again, `QueueCap` 2 lets a removal and a creation of one ID be under
way together, and `MaxFailed` 1, `MaxMade` 2 and `MaxMoves` 1 bound the IDs that fail, the
sandboxes made and the files moved: one failure beside an ID that stays sound, one reuse of an
ID, one move cut short. For the server, two signal handlers (the second signal comes during the
shutdown) and one request, one client and one call, each at any place when the signal comes: the
actors are told apart, their clients are alike.

Deadlock is checked in all runs but `snapshots`, where a server whose `MaxLives` are
used up is down for good. A controller, Pool, Worker, manager or server that has
returned stutters (`Exited`, `Ended`): there the system really stops.

Fairness. For admission (`LoopFairness`): tokio's `select!` polls its branches in random
order, so a branch that stays ready is taken: weak fairness of the slot, reply, deadline
and fallback branches. The fallback interval is restarted only when the count of
blocked Functions leaves zero, so later blocks do not postpone it. A running Pool
answers each attempt. Nothing is assumed of the request source, of the Pool's
events, of Workers, or of the registrar; `TimedSpec` adds that the clock ticks,
which only `EveryRequestResolved` needs. For the Pool (`Fairness`): a Worker makes
progress (its Runtime calls and issued requests have time limits), the Pool takes
the messages of Workers (polled ahead of dispatches and calls), admission forwards
what it was given, and shutdown proceeds once begun. Nothing is assumed of
dispatches, calls, timers or the quit signal. For the Worker: its own steps (each await
has a time limit, or is a local call) and the Pool's reading of its channel, while the
Pool is there. For the network: the manager's steps, and that Workers give back or park
their devices once the node is quitting. For the server: the runtime polls its tasks as
long as one can go on; nothing is assumed of clients (which need not end their streams, send
what they wrote, or take their responses), of signals or of the Pool's answers.

## 4. Proofs

* `AdmissionProofs.tla`. The inductive invariant `IInv` is the conjunction of the
  checked invariants and the few links between them which they need of each other
  (a queue holds envelopes of its own Function, the tickets in use are below the
  next one, ...). The work is in what a sweep does: `ExpireSound` shows that the
  swept configuration is as sound as the one it came from, and each handler is that
  lemma followed by one append, pop or push. From `Invariance` follow `TypeCorrect`,
  `CountersCorrect`, `RequestsAccounted`, `SlotsConserved`, `FifoCorrect`, and, with
  one lemma per group of actions, the refinement `LifecycleImplemented`. The second part,
  `DeadlinesCorrect` and `NoExpiredDispatch`, assumes that a Function always registers with
  the same `max_queue_delay` (`StableDelays`): section 5 says what happens otherwise. The
  invariant `DInv` adds that deadlines are ordered and no later than the clock allows, that
  the timer is not late, and that the outstanding request's deadline precedes those that
  wait behind it.
* `RegistrarProofs.tla`, for any number of calls that overlap in any way. What a checked call
  knows of its id holds only while no other call is past its check on it, so `RInv` first says
  that the histories are right (`OverlapsKnown`: two calls past their check on one id make it
  `raced`, and `crossed` if one deregisters); then what a call alone knows (`AloneFindsOwn`: the
  store has no entry; past the database write, the database holds its settings); then what is
  left under a race (`RegisteringKeepsRow`: registrations never remove a row). `BetweenWrites`
  ties the promise to the calls. `StoreSurvivesRestart`, `RegistrationsDurable` and
  `RacesLoseNothing` follow.
* `SubnetPoolProofs.tla`. Under `Careful`, `Inv` says that the held subnets, the
  returned ones and the ones the iterator has still to give partition the network,
  and that every free returned subnet has a queue entry.
* `SandboxPoolProofs.tla`. Two invariants, over any number of Functions, Workers and calls.
  `BInv`, the books, holds whatever the order of events. The checked properties alone are not
  inductive: what the Pool may do next depends on the messages under way. So `FitAt` says,
  for each Worker, which messages its two queues may hold and in which order, given its
  state, place and pending operation (an order to end is the last and makes it Dying, a
  preparation or a snapshotting is under way at most once and only while pending, `ReapMe`
  comes last); `OwningAt` and `SharedAt` say who has which Sandbox, and which of them the Pool
  has been told of. `SpecControlQueueBounded` follows from `FitAt`, `SpecSandboxOwnedOnce` from
  the others. `SpecMemoryExact` also needs that no handler discounts a Worker twice, and
  counts the charged Workers before and after an eviction.
  `RInv` adds `ServingAt`: where the one invocation of a Worker is (with admission, in its
  queue, in its hands, or answered and on the way to the Pool), that an Idle Worker has none
  and nothing to say, that whoever holds a cpuset or has an operation pending has an answer
  under way; and `WaitingAt`: each call waits for an operation that is pending. It is
  stated Worker by Worker: a snapshot that overtakes an invocation makes its Worker Idle while
  admission still has work for it, which ends `ServingAt` for that Worker and must not touch the
  others. From `RInv` follow `SpecIdleIsReady`, `SpecCpuComesBack`, `SpecNoWaiterStranded` (every
  waiting call has its answer coming, the safety half of `CallsAnswered`), each with the
  exception of `overtaken` Workers, and `SpecAbortsOnlyOvertaken`: the assertion that
  `pool_window` sees fail cannot fail in any other way.
* `NetworkProofs.tla`. `NoSubnetTwice` and `SandboxDevices` hold for either provider, any
  capacity, any number of subnets, Workers and lives. `NInv` has one part per concern. For
  each subnet exactly one of a series of claims holds (`One`: a Worker, the manager's queue,
  the ready list, the pool, its iterator, ...), and neither list has it twice (`PlaceAt`).
  That alone is not inductive: `get` does not look at `taken` at the iterator's head, so a
  subnet requested twice would get two owners. `RequestAt` says why it is not: the rows are
  requested once each, and nothing else happens before the last request is served, so
  the marks in `taken` are those of earlier requests. What the kernel knows (`LinkAt`) is that
  whatever will be a sandbox's device is complete and only what is being made is not;
  `FreshAt` follows the devices of an earlier process. `SubnetPool`'s own invariant is not
  reused: `PlainTapDevices` gives back another net than it took, which `Careful` excludes.
* `WorkerProofs.tla`. The first part proves what each operation promises whichever Runtime
  performs it (a failed call leaves no VMM that is neither known nor stray; a recorded
  snapshot is complete; ...), from the combinators of `MicroVm`. The second uses those
  promises alone. `WInv` says what each `pc` knows: the `SandboxState` and what the microVM
  is in it, the request being served and its slot and response, the error on its way, the
  network resource, what the Pool and the snapshot manager were told. From it follow
  `ReusableLoads`, `WorkerCleansUp`, `LoopActsOnWhatIs`, `PoolHearsInOrder`,
  `MetadataFollowsSandbox` and `OnePanicIsReachable`, for any number of requests.
* `SnapshotsProofs.tla`. `ListedLoads`, `RestoredIsOwn` and `KeptIsListed` hold without any
  assumption on lag, deregistrations or the configuration, of all `Sound` IDs. `SInv` relates
  three views of such an ID that lag behind one another: the sandbox, the messages about it on
  their way to the writing thread (a snapshot that is announced is the sandbox's, or its removal
  comes next), and the tables (a listed ID is that of the sandbox unless its removal is on the
  way); on disk it follows each half-done move. The work is to show that an ID which leaves
  these relations does so in one of the five windows.
* `LifecycleProofs.tla`. `LInv` says who has waited for whom when an actor is up, stopping
  or gone, and that where a request is there is somebody to move it on, as far as the
  sink-workers: what they have taken is theirs, and the sink does not wait for it.
  `ServicesOutliveUsers` and `AnswersAllForwarded` follow, for any number of requests,
  clients and calls.

Each inductive invariant also holds under TLC on the instance of its component's run.

The constants' assumptions are named in the modules that declare them
(`AdmissionAssumption`, `RegistrarAssumption`, `SubnetAssumption`, `PoolAssumption`,
`WorkerAssumption`, `NetworkAssumption`, `SnapshotsAssumption`, `LifecycleAssumption`) and
evaluated by TLC in every run. Every safety property of a passing run has its theorem.
Model-checked only: the liveness properties (`BlockedIsRetried`, `EveryRequestResolved`,
`CallsAnswered`, `ShutdownEnds`, `EndsWhenTold`, `SlotComesBack`, `ManagerEnds`,
`QuitEndsServer`, `SourceLossStopsPool`): fairness is out of the prover's reach.

## 5. Where the code and its words differ

Two runs show a disagreement between the code and a comment or an assertion of its own
(`pool_window`, `worker_resume`; `PROJECT.json` quotes the lines). The others met while
modelling, each with how to see it: change the named constant or definition, or add the named
property, in the named configuration; TLC then finds a violation.

* `controller.rs:882`. The requeue after `WouldBlock` checks no limit, so one request more
  than `global_max_queued` ("Maximum _total_ number of requests", `conf/mod.rs:88`) may be
  queued, and never more than one: `WithinGlobalMax` fails in `Admission_safety.cfg`,
  `OvershootAtMostOne` holds (with `MCMoreRequests` and `MCTightProfiles`).
* `controller.rs:627`. The sweep drains heads only, "because deadlines within a queue
  therefore increase" (597); a Function registered again with a shorter delay breaks that:
  `DeadlinesOrdered` with `Profiles <- MCUnstableProfiles`.
* `registrar.rs:224`. "Fail fast if the Function is already registered; do not overwrite"
  (223), and of the overwritten row "Currently, this should be unreachable, as we check for it
  earlier" (144): two registrations of one id that overlap both pass the check, the later row
  overwrites the earlier one, and the store keeps the settings of one and the database those of
  the other: `StoreBackedByDb` stated of all `Ids`, without `\ raced`, in `Registrar.cfg`.
* `registrar.rs:321`. A registration that passes its check between the two removals of a
  deregistration is acknowledged, and its row is then removed: `RacedIsNotLost` stated of all
  `Ids`, without `\ crossed`.
* `fifo_exact.rs:84`. `get` at the iterator's head does not look at `taken`, contrary to the
  test at 193: `NoDoubleHandout` with `Careful = FALSE`. The providers name each subnet once
  (`InOnePlace`).
* `reinstate.rs:461`. "If any snapshot was not successfully persisted in DB by snapman's writing
  thread, this will be fixed now" (208): for a Function that the tables already list the
  reconciliation writes SNAPSHOTS only, and SNAPS_PER_FUNC stays without the row. The IDs are in
  `failed`: `KeptAcrossRestart` with `Sids` for `Sound`.
* `manager.rs:485`. "leaving eventual reconciliation to Pool's shutdown-time DB sync": a removal of
  another Function's snapshot with the same ID may still be queued when that reconciliation
  writes the row of the ID's new owner, and then takes it from SNAPSHOTS. Without `Crossed` in
  `Stop`, `KeptAcrossRestart` and `RowsHaveFiles` fail.
* `dash.rs:111`, `reinstate.rs`. A start passes over the rows of a Function that is not
  registered then, and the devices they name are free. When such an ID is used again and the
  Function registered again, a Function is given another's snapshot: without the entry in
  `Create`, all three properties of `Snapshots.cfg` fail. The reconciliation may also delete the
  state of such a row and leave it listed (`OnlyListed`: `RowsHaveFiles`).
* `reinstate.rs`, `wipe_db_snapshots`. With `retain_snapshots` off the files of reinstated
  snapshots go first and the tables are emptied last. A crash between, or a Function with a
  snapshot that has been deregistered (`registered_function` panics, `PoolPanics`), leaves rows
  without files, and so does a NewSnapshot still queued behind the wipe: `RowsHaveFiles` without
  the entries in `DestroyOrphan` and `wipe_db_snapshots`.
* `control.rs:900`. What `pool_window` shows has a second consequence: a Worker taken for Idle
  whose invocation then fails asks to be reaped, which the Pool ignores as it does not know it
  as Dying; at shutdown it becomes Dying, and no second `ReapMe` comes. `ShutdownEnds` without
  `Forgotten` fails in `Pool_liveness.cfg`: the Pool stays in `draining`.
* `orchestrator.rs:220`. The control plane subscribes to the quit channel after the Pool has
  been spawned; a signal caught before that is heard by the Orchestrator alone, which then
  awaits the control plane for ever, although `run` is to "gracefully shut down" (452):
  `EveryQuitEndsServer` in `Lifecycle.cfg`.
* `orchestrator.rs:297`. The source "is the owner of the only tx half of
  `AdmissionController`'s data channel", and when it is dropped "the whole system is brought
  down" (294-297): the source's connections and streams hold clones of it, so a client that
  stays connected keeps admission and the Pool up after the source has returned:
  `SourceReturnStopsPool` in `Lifecycle.cfg`. When the last clone is gone they do end
  (`SourceLossStopsPool`), and the rest of the system stays up.
* `sink.rs:188`. "poll until our sink-workers ... are done forwarding the responses" (186): the
  broadcast channel is empty once they have taken the responses, which may then still be in
  their hands or in the queues of their connections: `AnswersPassedOn` in `Lifecycle.cfg`. Nor
  does dropping the sender close "all connections" (191): each connection's task holds a clone.

Met in reading, and part of the models without a property: `request_sandbox_prep` drops a
snapshot it has picked when memory is short (`control.rs:325`); `cleanup_failed_dispatch`
gives back memory of a Worker that lives (`pool/mod.rs:2110`); a `TapBuilder` given back to
the pool provider aborts the process (`pool_tap.rs:227`); rt-fc leaves its directory when a
create fails (`fc/runtime.rs:347`); a VM may survive a lost answer of the daemon
(`fcctrd/runtime.rs:642`); the collector leaves what is queued when it is told to quit
(`collector.rs:259`); a control call may time out while the Pool goes on with it
(`api.rs:240`).

## 6. Plan

Done: the modules above, with proofs of the safety properties of each.
To do: the two look-ups of `handle_new_request` as two steps (`controller.rs:745`).

## 7. Not modelled

The kernel, the containerd daemon and the guest are external: the models give each call to
them every outcome that the code distinguishes. `crates/firecracker-containerd-ttrpc` and the
`pb` modules are generated. The OCI specifications (`oci/spec.rs`), configuration structures,
conversions between messages, argument parsing, logging, rolling statistics, back-off delays,
CPU-list parsing and the placement and keep-alive policies' numbers are data that no property
here tells apart; a policy is any answer it may give. The two subnet pools that no provider
uses (`fifo.rs`, `exact.rs`) are left out, as is `reinstate_and`, which is `unimplemented!`.
