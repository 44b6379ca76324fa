------------------------------ MODULE Lifecycle ------------------------------
(***************************************************************************)
(* The server as a whole: how Orchestrator::spawn brings its actors up,    *)
(* how a signal reaches them, in which order they end, and what becomes of *)
(* the requests, responses, metrics and control calls that are under way.  *)
(*                                                                         *)
(* An actor holds the sending halves of other actors' channels and most    *)
(* actors end only once nobody can send to them any more, so the order of  *)
(* the shutdown is decided by who holds what, by who listens to the quit   *)
(* channel, and by the order in which the Orchestrator awaits its actors.  *)
(* What an actor does between start and end is in its own module           *)
(* (Admission, SandboxPool, Worker, Network, Snapshots); here it is up,    *)
(* stopping or gone. The channels also carry the traffic of other clients: *)
(* they may be full whenever something is sent.                            *)
(***************************************************************************)
EXTENDS Naturals, Sequences, FiniteSets

CONSTANTS
    Requests,       \* requests of the clients, each with its invocation ID
    Clients,        \* clients subscribed to the responses
    Calls,          \* calls of the sandbox-lifecycle service
    Handlers        \* how many kinds of signal have a handler

ASSUME LifecycleAssumption == Handlers \in Nat \ {0}

Actors == {"src", "sink", "netman", "timings", "adm", "snapman", "pool", "ctl"}
Listeners == {"orch", "src", "sink", "netman", "adm", "pool", "ctl"}

VARIABLES
    stage,      \* the Orchestrator: spawn, run, reap, done; or failed
    reaped,     \* how many actors the Orchestrator has reaped
    st,         \* actor -> unborn, init (being constructed), up, stop or gone
    armed,      \* signal handlers that wait for their signal
    booted,     \* the signal handlers have been set up
    heard,      \* listener -> the quit notification is in its receiver
    req,        \* request -> where it is; over once broadcast, or lost
    work,       \* request -> what the Worker that serves it does
    chan,       \* responses in the sink's channel
    feeds,      \* the clients that are connected to the request source
    sub,        \* client -> off, on, left (its sink-worker lives) or gone
    backlog,    \* client -> responses broadcast, not yet taken by its sink-worker
    hand,       \* client -> the response its sink-worker has taken and not yet queued
    to_client,  \* client -> responses in the queue of its connection
    call        \* call -> where it is, while its caller waits for it

clientVars == <<feeds, sub, backlog, hand, to_client>>
bootVars == <<stage, reaped, armed, booted, heard>>
vars == <<bootVars, st, req, work, chan, clientVars, call>>


TypeOK ==
    /\ stage \in {"spawn", "run", "reap", "done", "failed"}
    /\ reaped \in 0..Cardinality(Actors)
    /\ st \in [Actors -> {"unborn", "init", "up", "stop", "gone"}]
    /\ armed \in 0..Handlers /\ booted \in BOOLEAN
    /\ heard \in [Listeners -> BOOLEAN]
    /\ req \in [Requests -> {"new", "outbox", "queued", "run", "answered", "over"}]
    /\ work \in [Requests -> {"none", "run", "store", "fail", "idle", "gone"}]
    /\ chan \subseteq Requests
    /\ sub \in [Clients -> {"off", "on", "left", "gone"}]
    /\ feeds \subseteq Clients
    /\ {backlog, hand, to_client} \subseteq [Clients -> SUBSET Requests]
    /\ call \in [Calls -> {"none", "queued", "served", "settled", "over"}]

Init ==
    /\ stage = "spawn" /\ reaped = 0
    /\ st = [a \in Actors |-> "unborn"]
    /\ armed = 0 /\ booted = FALSE
    /\ heard = [a \in Listeners |-> FALSE]
    /\ req = [r \in Requests |-> "new"]
    /\ work = [r \in Requests |-> "none"]
    /\ chan = {}
    /\ feeds = {} /\ sub = [c \in Clients |-> "off"]
    /\ backlog = [c \in Clients |-> {}] /\ hand = backlog /\ to_client = backlog
    /\ call = [c \in Calls |-> "none"]

\* The process runs: main has not returned, so the runtime drives its tasks.
Alive == stage \notin {"done", "failed"}
Up(a) == Alive /\ st[a] = "up"
Goes(a, s) == st' = [st EXCEPT ![a] = s]
WorkerLives(r) == work[r] \notin {"none", "gone"}
NoWorker == \A r \in Requests : ~WorkerLives(r)

-----------------------------------------------------------------------------
(* Orchestrator::spawn. *)

\* The signal handlers come first: from here on a signal is caught.
setup_signal_handlers ==
    /\ stage = "spawn" /\ ~booted
    /\ booted' = TRUE /\ armed' = Handlers
    /\ UNCHANGED <<stage, reaped, heard, st, req, work, chan, clientVars, call>>

\* The order in which the actors that need no construction are spawned.
SpawnsAfter ==
    [src |-> {}, sink |-> {"src"}, netman |-> {"sink"}, timings |-> {"netman"},
     adm |-> {"timings"}, snapman |-> {"adm"}, pool |-> {"snapman"}, ctl |-> {"pool"}]
MaySpawn(a) ==
    /\ stage = "spawn" /\ booted
    /\ st[a] = "unborn"
    /\ \A b \in SpawnsAfter[a] : st[b] \notin {"unborn", "init"}

\* The task of an actor runs. The request source and the control plane bind a
\* socket first and return if they cannot. The sink, whose server is a task of
\* its own, goes on without: no client ever subscribes.
Runs(a, binds) ==
    /\ a \notin {"src", "ctl"} => binds
    /\ Goes(a, IF binds THEN "up" ELSE "gone")

\* An actor subscribes to the quit channel as it is spawned: what was sent
\* earlier it never sees.
spawn_actor(a, binds) ==
    /\ a \notin {"pool", "ctl"} /\ MaySpawn(a)
    /\ Runs(a, binds)
    /\ UNCHANGED <<bootVars, req, work, chan, clientVars, call>>

\* The receivers of the Pool and of the control plane are made before they
\* are constructed, which takes a while: the Pool reinstates its snapshots,
\* the control plane loads the registered Functions.
construct_begin(a) ==
    /\ a \in {"pool", "ctl"} /\ MaySpawn(a)
    /\ Goes(a, "init")
    /\ UNCHANGED <<bootVars, req, work, chan, clientVars, call>>

\* The task is spawned; after the last one spawn returns the Orchestrator.
construct_end(a, binds) ==
    /\ stage = "spawn" /\ st[a] = "init"
    /\ Runs(a, binds)
    /\ stage' = IF a = "ctl" THEN "run" ELSE stage
    /\ UNCHANGED <<reaped, armed, booted, heard, req, work, chan, clientVars, call>>

\* initialize_state opens the database and creates its tables, if need be.
InitializesState == st["timings"] # "unborn" /\ st["adm"] = "unborn"

\* The limit of files, the handlers, the network provider, the tables of the
\* database, the Pool and the control plane may fail to come up: spawn returns the error, main
\* returns, and the runtime drops whatever was spawned.
spawn_fails ==
    /\ stage = "spawn"
    /\ \/ ~booted
       \/ st["sink"] # "unborn" /\ st["netman"] = "unborn"
       \/ InitializesState
       \/ \E a \in {"pool", "ctl"} : st[a] = "init"
    /\ stage' = "failed"
    /\ UNCHANGED <<reaped, armed, booted, heard, st, req, work, chan, clientVars, call>>

-----------------------------------------------------------------------------
(* Signals and the quit channel. *)

Subscribed(a) == IF a = "orch" THEN stage \in {"spawn", "run"} ELSE st[a] \in {"init", "up"}

\* A handler broadcasts one notification to whoever has subscribed by now
\* and ends: the same signal is never handled again.
signal_handler ==
    /\ Alive /\ armed > 0
    /\ armed' = armed - 1
    /\ heard' = [a \in Listeners |-> heard[a] \/ Subscribed(a)]
    /\ UNCHANGED <<stage, reaped, booted, st, req, work, chan, clientVars, call>>

\* recv returns: a notification, how many were missed, or that every sender
\* is gone (spawn's own and those of the handlers). All mean quit.
QuitRecv(a) == heard[a] \/ (stage # "spawn" /\ armed = 0)
\* A listener that has left its loop does not look at its receiver again.
Deaf(a) == heard' = [heard EXCEPT ![a] = FALSE]

-----------------------------------------------------------------------------
(* The request source and the clients that feed it. *)

\* A client connects as soon as the source serves, though spawn has not
\* returned. Its connection is a task of its own, which may serve further
\* streams when the source has returned, until the client closes it.
connect(c) ==
    /\ Up("src") /\ c \notin feeds
    /\ feeds' = feeds \cup {c}
    /\ UNCHANGED <<bootVars, st, req, work, chan, sub, backlog, hand, to_client, call>>

disconnect(c) ==
    /\ Alive /\ c \in feeds
    /\ feeds' = feeds \ {c}
    /\ UNCHANGED <<bootVars, st, req, work, chan, sub, backlog, hand, to_client, call>>

\* A client queues a request to go out on a stream of its connection.
issue(r) ==
    /\ Alive /\ req[r] = "new" /\ feeds # {}
    /\ req' = [req EXCEPT ![r] = "outbox"]
    /\ UNCHANGED <<bootVars, st, work, chan, clientVars, call>>

\* The handler of the stream, which outlives a connection that breaks, receives
\* the request or the error of its stream, and sends it to the admission
\* controller, whose channel is there before the controller is. If that is
\* gone the request is lost, and the stream still Acked at its end.
snaplace_requests(r, received) ==
    /\ Alive /\ req[r] = "outbox"
    /\ req' = [req EXCEPT ![r] =
                  IF received /\ st["adm"] # "gone" THEN "queued" ELSE "over"]
    /\ UNCHANGED <<bootVars, st, work, chan, clientVars, call>>

\* Each task that holds the server of the source holds a sending half of the
\* admission controller's channel: the source, the connections and the streams.
SourceSendersGone ==
    /\ st["src"] = "gone"
    /\ feeds = {}
    /\ \A r \in Requests : req[r] # "outbox"

\* Mutant: the notification is read and the loop goes on.
SrcRunGoesOn ==
    /\ Up("src") /\ QuitRecv("src")
    /\ Deaf("src")
    /\ UNCHANGED <<stage, reaped, armed, booted, st, req, work, chan, clientVars, call>>

src_run ==
    /\ Up("src") /\ QuitRecv("src")
    /\ Goes("src", "gone") /\ Deaf("src")
    /\ UNCHANGED <<stage, reaped, armed, booted, req, work, chan, clientVars, call>>

-----------------------------------------------------------------------------
(* The admission controller and the Pool. *)

\* A dispatch attempt that the running Pool grants: a Worker has the request.
dispatch(r) ==
    /\ Up("adm") /\ Up("pool") /\ req[r] = "queued"
    /\ req' = [req EXCEPT ![r] = "run"]
    /\ work' = [work EXCEPT ![r] = "run"]
    /\ UNCHANGED <<bootVars, st, chan, clientVars, call>>

\* A request that will not be served, because of a limit, of its deadline, or
\* because the Pool rejects it: the response is dropped if the channel is full.
fail_admission(r, full) ==
    /\ Up("adm") /\ req[r] = "queued"
    /\ IF ~full /\ st["sink"] # "gone"
         THEN req' = [req EXCEPT ![r] = "answered"] /\ chan' = chan \cup {r}
         ELSE req' = [req EXCEPT ![r] = "over"] /\ UNCHANGED chan
    /\ UNCHANGED <<bootVars, st, work, clientVars, call>>

\* Mutant: a channel nobody can send to is taken for a quiet one.
AdmRunIgnoresSource ==
    /\ Up("adm")
    /\ QuitRecv("adm") \/ st["pool"] = "gone"
    /\ Goes("adm", "gone") /\ Deaf("adm")
    /\ req' = [r \in Requests |-> IF req[r] = "queued" THEN "over" ELSE req[r]]
    /\ UNCHANGED <<stage, reaped, armed, booted, work, chan, clientVars, call>>

\* The controller quits, or nobody can send to it any more, or the Pool is
\* gone: what is still queued is dropped without an answer.
adm_run ==
    /\ Up("adm")
    /\ QuitRecv("adm") \/ SourceSendersGone \/ st["pool"] = "gone"
    /\ Goes("adm", "gone") /\ Deaf("adm")
    /\ req' = [r \in Requests |-> IF req[r] = "queued" THEN "over" ELSE req[r]]
    /\ UNCHANGED <<stage, reaped, armed, booted, work, chan, clientVars, call>>

\* The Pool leaves its loop: told to quit, left by the admission controller,
\* or after an error it takes to be fatal.
pool_run(fatal) ==
    /\ Up("pool")
    /\ fatal \/ QuitRecv("pool") \/ st["adm"] = "gone"
    /\ Goes("pool", "stop") /\ Deaf("pool")
    /\ UNCHANGED <<stage, reaped, armed, booted, req, work, chan, clientVars, call>>

Waits(c) == call[c] \in {"queued", "served", "settled"}

\* Every Worker has been reaped. The control channel goes with the Pool, and
\* with it the messages nobody read and the callers nobody answered.
pool_shutdown ==
    /\ Alive /\ st["pool"] = "stop" /\ NoWorker
    /\ Goes("pool", "gone")
    /\ call' = [c \in Calls |-> IF Waits(c) THEN "settled" ELSE call[c]]
    /\ UNCHANGED <<bootVars, req, work, chan, clientVars>>

-----------------------------------------------------------------------------
(* A Worker: the response, then the timings, then work or the end. *)

PoolServes == Alive /\ st["pool"] \in {"up", "stop"}

\* The response goes to the sink's channel; after ten attempts on a full one,
\* or if the sandbox could not be prepared, there is none and the Worker fails.
forward_response(r, ok) ==
    /\ PoolServes /\ work[r] = "run"
    /\ ok => st["sink"] # "gone"
    /\ work' = [work EXCEPT ![r] = IF ok THEN "store" ELSE "fail"]
    /\ req' = [req EXCEPT ![r] = IF ok THEN "answered" ELSE "over"]
    /\ chan' = IF ok THEN chan \cup {r} ELSE chan
    /\ UNCHANGED <<bootVars, st, clientVars, call>>

\* retry_send retries for ever: a collector that is gone is never given up.
store_all(r) ==
    /\ PoolServes /\ work[r] \in {"store", "fail"} /\ st["timings"] = "up"
    /\ work' = [work EXCEPT ![r] = IF @ = "store" THEN "idle" ELSE "gone"]
    /\ UNCHANGED <<bootVars, st, req, chan, clientVars, call>>

\* The keep-alive window ends, or the Pool shuts the Worker down.
worker_ends(r) ==
    /\ PoolServes /\ work[r] = "idle"
    /\ work' = [work EXCEPT ![r] = "gone"]
    /\ UNCHANGED <<bootVars, st, req, chan, clientVars, call>>

-----------------------------------------------------------------------------
(* The network manager and the snapshot manager. *)

\* Nobody can send to it any more: its shutdown is over or, if it was not
\* told to quit, it is an UnexpectedShutDown.
netman_run ==
    /\ Up("netman")
    /\ st["pool"] = "gone" /\ NoWorker
    /\ Goes("netman", "gone") /\ Deaf("netman")
    /\ UNCHANGED <<stage, reaped, armed, booted, req, work, chan, clientVars, call>>

\* Mutant: the timings are reaped before the Pool.
ReapOrderTimingsFirst ==
    <<"ctl", "timings", "adm", "src", "pool", "netman", "snapman", "sink">>

ReapOrder == <<"ctl", "adm", "src", "pool", "netman", "snapman", "sink", "timings">>
Awaits(a) == stage = "reap" /\ reaped < Len(ReapOrder) /\ ReapOrder[reaped + 1] = a

\* It runs until the references of the Pool and its Workers are dropped and
\* the Orchestrator, which waits for it, has dropped its own.
snapman_run ==
    /\ Up("snapman") /\ Awaits("snapman")
    /\ st["pool"] = "gone" /\ NoWorker
    /\ Goes("snapman", "gone")
    /\ UNCHANGED <<bootVars, req, work, chan, clientVars, call>>

-----------------------------------------------------------------------------
(* The response sink and the clients it serves. *)

HasSinkWorker(c) == sub[c] \in {"on", "left"}

\* A response is broadcast to the sink-workers, one per client, of which some
\* may lag behind and lose it. With no sink-worker at all it is dropped.
sink_broadcast(r, lagging) ==
    /\ Up("sink") /\ r \in chan
    /\ lagging \subseteq {c \in Clients : HasSinkWorker(c)}
    /\ chan' = chan \ {r}
    /\ req' = [req EXCEPT ![r] = "over"]
    /\ backlog' = [c \in Clients |->
                       IF HasSinkWorker(c) /\ c \notin lagging THEN backlog[c] \cup {r} ELSE backlog[c]]
    /\ UNCHANGED <<bootVars, st, work, feeds, sub, hand, to_client, call>>

SinkSendersGone == st["adm"] = "gone" /\ st["pool"] = "gone" /\ NoWorker

\* Mutant: the server is aborted under the sink-workers.
SinkShutdownAborts ==
    /\ Up("sink") /\ QuitRecv("sink")
    /\ SinkSendersGone /\ chan = {}
    /\ Goes("sink", "gone") /\ Deaf("sink")
    /\ UNCHANGED <<stage, reaped, armed, booted, req, work, chan, clientVars, call>>

\* Told to quit the sink drops its own sending half, drains the channel until
\* no sender is left, waits until the sink-workers have taken every response
\* (not until they have passed it on), and aborts its server. Connections and
\* sink-workers are tasks of their own and go on. Without a quit notification
\* the sink never ends.
sink_shutdown ==
    /\ Up("sink") /\ QuitRecv("sink")
    /\ SinkSendersGone /\ chan = {}
    /\ \A c \in Clients : backlog[c] = {}
    /\ Goes("sink", "gone") /\ Deaf("sink")
    /\ UNCHANGED <<stage, reaped, armed, booted, req, work, chan, clientVars, call>>

snaplace_responses(c) ==
    /\ Up("sink") /\ sub[c] = "off"
    /\ sub' = [sub EXCEPT ![c] = "on"]
    /\ UNCHANGED <<bootVars, st, req, work, chan, feeds, backlog, hand, to_client, call>>

\* A sink-worker with empty hands takes a response that was broadcast.
sink_worker_recv(c, r) ==
    /\ Alive /\ r \in backlog[c] /\ hand[c] = {}
    /\ backlog' = [backlog EXCEPT ![c] = @ \ {r}]
    /\ hand' = [hand EXCEPT ![c] = {r}]
    /\ UNCHANGED <<bootVars, st, req, work, chan, feeds, sub, to_client, call>>

\* It queues the response for its client's connection, drops it if the queue
\* stays full for 200 ms, and ends if the client has left.
sink_worker_send(c, full) ==
    /\ Alive /\ hand[c] # {}
    /\ hand' = [hand EXCEPT ![c] = {}]
    /\ \/ /\ sub[c] = "on"
          /\ to_client' = IF full THEN to_client ELSE [to_client EXCEPT ![c] = @ \cup hand[c]]
          /\ UNCHANGED <<sub, backlog>>
       \/ /\ sub[c] = "left"
          /\ sub' = [sub EXCEPT ![c] = "gone"]
          /\ backlog' = [backlog EXCEPT ![c] = {}]
          /\ UNCHANGED to_client
    /\ UNCHANGED <<bootVars, st, req, work, chan, feeds, call>>

\* The connection writes a response to its client.
client_receives(c, r) ==
    /\ Alive /\ r \in to_client[c]
    /\ to_client' = [to_client EXCEPT ![c] = @ \ {r}]
    /\ UNCHANGED <<bootVars, st, req, work, chan, feeds, sub, backlog, hand, call>>

\* A client leaves when it has quit and its stream has been idle for a while,
\* or when the stream breaks. It takes the queue of its connection with it;
\* its sink-worker learns of it at its next response.
client_leaves(c) ==
    /\ Alive /\ sub[c] = "on"
    /\ sub' = [sub EXCEPT ![c] = "left"]
    /\ to_client' = [to_client EXCEPT ![c] = {}]
    /\ UNCHANGED <<bootVars, st, req, work, chan, feeds, backlog, hand, call>>

-----------------------------------------------------------------------------
(* The collector of timings. *)

\* It takes the timings from its channel to the writer thread and to the
\* rolling statistics until the Orchestrator tells it to end, and ends with
\* whatever it has not read yet.
timings_run ==
    /\ Up("timings") /\ Awaits("timings")
    /\ Goes("timings", "stop")
    /\ UNCHANGED <<bootVars, req, work, chan, clientVars, call>>

\* The writer thread writes what it was given, flushes, syncs the file, and is
\* joined; one that could not open the file has ended long before.
metrics_writer ==
    /\ Alive /\ st["timings"] = "stop"
    /\ Goes("timings", "gone")
    /\ UNCHANGED <<bootVars, req, work, chan, clientVars, call>>

-----------------------------------------------------------------------------
(* The control plane: prepare_sandbox, destroy_sandbox and create_snapshot   *)
(* treat the Pool's channel and its answer in the same way.                  *)

\* SandboxLifecycleService refuses an unknown provisioning mode, or a hint that
\* is no duration.
refuse_call(c) ==
    /\ Up("ctl") /\ call[c] = "none"
    /\ call' = [call EXCEPT ![c] = "over"]
    /\ UNCHANGED <<bootVars, st, req, work, chan, clientVars>>

\* The message is in the Pool's channel; or that stayed full for five seconds,
\* or is closed: the call ends as unavailable, and nothing was sent.
call_sends(c, sent) ==
    /\ Up("ctl") /\ call[c] = "none"
    /\ sent => st["pool"] # "gone"
    /\ call' = [call EXCEPT ![c] = IF sent THEN "queued" ELSE "over"]
    /\ UNCHANGED <<bootVars, st, req, work, chan, clientVars>>

\* The Pool starts the operation, and answers now or once a Worker is done.
handle_control(c) ==
    /\ Up("pool") /\ call[c] = "queued"
    /\ call' = [call EXCEPT ![c] = "served"]
    /\ UNCHANGED <<bootVars, st, req, work, chan, clientVars>>

respond(c) ==
    /\ PoolServes /\ call[c] = "served"
    /\ call' = [call EXCEPT ![c] = "settled"]
    /\ UNCHANGED <<bootVars, st, req, work, chan, clientVars>>

\* The answer arrives, or the Pool's half of the channel is dropped.
call_returns(c) ==
    /\ Alive /\ call[c] = "settled"
    /\ call' = [call EXCEPT ![c] = "over"]
    /\ UNCHANGED <<bootVars, st, req, work, chan, clientVars>>

\* Sixty seconds without an answer: the caller gives up, the operation goes on.
call_times_out(c) ==
    /\ Alive /\ call[c] \in {"queued", "served"}
    /\ call' = [call EXCEPT ![c] = "over"]
    /\ UNCHANGED <<bootVars, st, req, work, chan, clientVars>>

ctl_run ==
    /\ Up("ctl") /\ QuitRecv("ctl")
    /\ Goes("ctl", "stop") /\ Deaf("ctl")
    /\ UNCHANGED <<stage, reaped, armed, booted, req, work, chan, clientVars, call>>

\* No new call is taken; the server is done when the calls under way are.
ctl_shutdown ==
    /\ Alive /\ st["ctl"] = "stop"
    /\ \A c \in Calls : ~Waits(c)
    /\ Goes("ctl", "gone")
    /\ UNCHANGED <<bootVars, req, work, chan, clientVars, call>>

-----------------------------------------------------------------------------
(* Orchestrator::run and shutdown. *)

orch_run ==
    /\ stage = "run" /\ QuitRecv("orch")
    /\ stage' = "reap" /\ Deaf("orch")
    /\ UNCHANGED <<reaped, armed, booted, st, req, work, chan, clientVars, call>>

reap(a) ==
    /\ Awaits(a) /\ st[a] = "gone"
    /\ reaped' = reaped + 1
    /\ UNCHANGED <<stage, armed, booted, heard, st, req, work, chan, clientVars, call>>

\* The database is compacted, the handlers are aborted, main returns.
orch_ends ==
    /\ stage = "reap" /\ reaped = Len(ReapOrder)
    /\ stage' = "done"
    /\ UNCHANGED <<reaped, armed, booted, heard, st, req, work, chan, clientVars, call>>

Ended == ~Alive /\ UNCHANGED vars

-----------------------------------------------------------------------------

SpawnStep ==
    \/ setup_signal_handlers
    \/ \E a \in Actors : construct_begin(a)
    \/ \E a \in Actors, binds \in BOOLEAN : spawn_actor(a, binds) \/ construct_end(a, binds)

\* What somebody outside does, or what fails.
Environment ==
    \/ spawn_fails \/ signal_handler \/ pool_run(TRUE)
    \/ \E r \in Requests : issue(r) \/ \E received \in BOOLEAN : snaplace_requests(r, received)
    \/ \E c \in Clients :
          \/ connect(c) \/ disconnect(c)
          \/ snaplace_responses(c) \/ client_leaves(c)
          \/ \E r \in Requests : client_receives(c, r)
    \/ \E c \in Calls : refuse_call(c) \/ respond(c) \/ \E sent \in BOOLEAN : call_sends(c, sent)

RequestStep(r) ==
    \/ dispatch(r)
    \/ store_all(r) \/ worker_ends(r)
    \/ \E full \in BOOLEAN : fail_admission(r, full)
    \/ \E ok \in BOOLEAN : forward_response(r, ok)

CallStep(c) == handle_control(c) \/ call_returns(c) \/ call_times_out(c)

ActorStep ==
    \/ src_run \/ adm_run \/ pool_run(FALSE) \/ pool_shutdown
    \/ netman_run \/ snapman_run
    \/ sink_shutdown \/ timings_run \/ metrics_writer \/ ctl_run \/ ctl_shutdown

SinkStep ==
    \/ \E r \in Requests, lagging \in SUBSET Clients : sink_broadcast(r, lagging)
    \/ \E c \in Clients, r \in Requests : sink_worker_recv(c, r)
    \/ \E c \in Clients, full \in BOOLEAN : sink_worker_send(c, full)
OrchStep == orch_run \/ orch_ends \/ \E a \in Actors : reap(a)

System ==
    \/ SpawnStep \/ ActorStep \/ SinkStep \/ OrchStep
    \/ \E r \in Requests : RequestStep(r)
    \/ \E c \in Calls : CallStep(c)

Next == System \/ Environment \/ Ended

Spec == Init /\ [][Next]_vars

\* The runtime polls its tasks as long as one of them can make progress, and
\* every wait in these steps is bounded by a timer or by another task's step.
\* No step undoes another, so this is all the fairness that is needed; nothing
\* is assumed of the clients, of signals, or of the Pool's answers to calls.
Fairness == WF_vars(System)

FairSpec == Spec /\ Fairness

-----------------------------------------------------------------------------

\* As long as the Pool or a Worker lives, those it sends to are there: a
\* Worker would retry for ever to store its timings, and could neither give
\* its TAP back nor answer. The order in which Orchestrator::shutdown awaits
\* the actors, and what each of them waits for, must ensure it.
ServicesOutlive ==
    Alive /\ (st["pool"] \in {"init", "up", "stop"} \/ ~NoWorker) =>
        \A a \in {"netman", "snapman", "sink", "timings"} : st[a] = "up"

\* When the sink ends (Sink::shutdown) nobody can send a response any more,
\* every response that was sent has been broadcast, and every sink-worker has
\* taken what was broadcast to it. What a sink-worker still has in hand, or in
\* the queue of its connection, is not waited for.
AnswersForwarded ==
    st["sink"] = "gone" =>
        /\ \A r \in Requests : req[r] \notin {"queued", "run", "answered"}
        /\ \A c \in Clients : backlog[c] = {}

\* Orchestrator::run: a signal caught once the control plane has subscribed
\* brings the whole server to its end, whatever is under way.
QuitEndsServer ==
    (heard["orch"] /\ heard["ctl"]) ~> ~Alive

\* spawn_request_source: when the request source has returned and the last of
\* its connections and streams has ended, so that nobody can send a request any
\* more, the admission controller ends, and with it the Pool.
SourceLossStopsPool ==
    SourceSendersGone ~> (st["pool"] = "gone" \/ ~Alive)

\* What the code's own words promise beyond that, and TLC refutes. The server
\* ends after any signal it has caught (Orchestrator::run).
EveryQuitEndsServer ==
    heard["orch"] ~> ~Alive

\* The source holds the only sending half, so that its return alone brings the
\* Pool down (spawn_request_source).
SourceReturnStopsPool ==
    (st["src"] = "gone") ~> (st["pool"] = "gone" \/ ~Alive)

\* The sink ends when its sink-workers are done forwarding (Sink::shutdown).
AnswersPassedOn ==
    st["sink"] = "gone" => \A c \in Clients : hand[c] = {} /\ to_client[c] = {}
=============================================================================
