----------------------------- MODULE Registrar -----------------------------
(***************************************************************************)
(* Function registration (crates/snaplace/src/metadata/registration/       *)
(* registrar.rs): the in-memory FunctionMetadataStore, which every actor   *)
(* reads, and the redb database, which survives a restart.  Each RPC is a  *)
(* task; registration writes the database first and the store second,      *)
(* deregistration the other way round, and no lock spans the two.  Tasks   *)
(* interleave at every step, and the process may crash at any of them.     *)
(***************************************************************************)
EXTENDS Naturals

CONSTANTS
    Ids,         \* the FunctionIds
    Infos,       \* what a RegisterFunctionRequest may ask for
    ValidInfos,  \* the ones that parse and respect MAX_ALLOWED_FUNCTION_MEM
    Calls,       \* the RPCs that clients may issue, each at most once
    None,        \* no entry
    Unsettled    \* no promise: see `promise'

ASSUME RegistrarAssumption ==
    /\ ValidInfos \subseteq Infos
    /\ None \notin Ids \cup Infos /\ Unsettled \notin Infos \cup {None}

VARIABLES
    up,       \* the process runs
    store,    \* FunctionMetadataStore: the registered function of each id
    db,       \* table FUNCTIONS of the database
    workers,  \* the ids that have Active, Idle or Dying Workers
    task,     \* each call: where it is, and its arguments
    promise,  \* history: what the clients were last told of each id, or
              \* Unsettled if a call changed something and did not succeed
              \* alone
    raced,    \* history: the ids whose latest calls past their check overlapped
    crossed   \* history: those where one of these calls was a deregistration

hist == <<raced, crossed>>
vars == <<up, store, db, workers, task, promise, hist>>

\* A call is "new", then (register) "submitted", "checked", "prepared" and
\* "in_db", or (deregister) "asked" and "unstored"; it ends "ok" or "failed".
InFlight == {"submitted", "checked", "prepared", "in_db", "asked", "unstored"}

TaskType ==
    [pc : InFlight \cup {"new", "ok", "failed"}, id : Ids \cup {None}, info : Infos \cup {None}]

Goto(c, label) == task' = [task EXCEPT ![c].pc = label]

At(c, label) == up /\ task[c].pc = label

\* The calls on an id that have looked at the store and will act on what they saw.
PastCheck(id) ==
    {c \in Calls : task[c].pc \in {"checked", "prepared", "in_db", "unstored"} /\ task[c].id = id}

\* History: a call passes its check, alone or beside others on the same id.
Enter(c, crossing) ==
    LET id == task[c].id
        others == PastCheck(id) \ {c}
    IN  /\ raced' = IF others = {} THEN raced \ {id} ELSE raced \cup {id}
        /\ crossed' = IF others = {} THEN crossed \ {id}
                      ELSE IF crossing \/ \E d \in others : task[d].pc = "unstored"
                      THEN crossed \cup {id} ELSE crossed

\* What the end of a call promises.
Settle(id, told) ==
    promise' = [promise EXCEPT ![id] = IF id \in raced THEN Unsettled ELSE told]

-----------------------------------------------------------------------------
\* A client issues a call; nothing keeps it from one that is in flight.
Issue(c, id, info, label) ==
    /\ At(c, "new")
    /\ task' = [task EXCEPT ![c] = [pc |-> label, id |-> id, info |-> info]]
    /\ UNCHANGED <<up, store, db, workers, promise, hist>>

(***************************************************************************)
(* register_function                                                       *)
(***************************************************************************)
IssueRegister(c, id, info) == Issue(c, id, info, "submitted")

\* Parsing, function_exists and the memory limit.
CheckRequest(c) ==
    /\ At(c, "submitted")
    /\ \/ /\ store[task[c].id] = None /\ task[c].info \in ValidInfos
          /\ Goto(c, "checked")
          /\ Enter(c, FALSE)
       \/ /\ store[task[c].id] # None \/ task[c].info \notin ValidInfos
          /\ Goto(c, "failed")
          /\ UNCHANGED hist
    /\ UNCHANGED <<up, store, db, workers, promise>>

\* Runtime::register_function, an await that may fail.
RegisterWithRuntime(c) ==
    /\ At(c, "checked")
    /\ \E label \in {"prepared", "failed"} : Goto(c, label)
    /\ UNCHANGED <<up, store, db, workers, promise, hist>>

\* Mutant: the store is written before the database.
StoreThenDb(c) ==
    LET id == task[c].id IN
    /\ At(c, "prepared")
    /\ store' = [store EXCEPT ![id] = task[c].info]
    /\ promise' = [promise EXCEPT ![id] = Unsettled]
    /\ Goto(c, "in_db")
    /\ UNCHANGED <<up, db, workers, hist>>

\* One write transaction, or an error that leaves the table as it was.
store_to_db(c) ==
    LET id == task[c].id IN
    /\ At(c, "prepared")
    /\ \/ /\ db' = [db EXCEPT ![id] = task[c].info]
          /\ promise' = [promise EXCEPT ![id] = Unsettled]
          /\ Goto(c, "in_db")
       \/ /\ Goto(c, "failed")
          /\ UNCHANGED <<db, promise>>
    /\ UNCHANGED <<up, store, workers, hist>>

\* Mutant: a registration that comes second undoes its write.
StoreOrUndo(c) ==
    LET id == task[c].id IN
    /\ At(c, "in_db")
    /\ IF store[id] = None
       THEN /\ store' = [store EXCEPT ![id] = task[c].info]
            /\ Settle(id, task[c].info)
            /\ Goto(c, "ok")
            /\ UNCHANGED db
       ELSE /\ db' = [db EXCEPT ![id] = None]
            /\ Goto(c, "failed")
            /\ UNCHANGED <<store, promise>>
    /\ UNCHANGED <<up, workers, hist>>

\* The store keeps an existing entry: AlreadyExists.  The row stays as written.
StoreRegister(c) ==
    LET id == task[c].id IN
    /\ At(c, "in_db")
    /\ IF store[id] = None
       THEN /\ store' = [store EXCEPT ![id] = task[c].info]
            /\ Settle(id, task[c].info)
            /\ Goto(c, "ok")
       ELSE /\ Goto(c, "failed")
            /\ UNCHANGED <<store, promise>>
    /\ UNCHANGED <<up, db, workers, hist>>

(***************************************************************************)
(* deregister_function.  The Runtime is told last, and its errors are only *)
(* logged.                                                                 *)
(***************************************************************************)
IssueDeregister(c, id) == Issue(c, id, None, "asked")

\* NotFound, or InUse while the Function has Workers.
StoreDeregister(c) ==
    LET id == task[c].id IN
    /\ At(c, "asked")
    /\ IF store[id] # None /\ id \notin workers
       THEN /\ store' = [store EXCEPT ![id] = None]
            /\ promise' = [promise EXCEPT ![id] = Unsettled]
            /\ Goto(c, "unstored")
            /\ Enter(c, TRUE)
       ELSE /\ Goto(c, "failed")
            /\ UNCHANGED <<store, promise, hist>>
    /\ UNCHANGED <<up, db, workers>>

\* Mutant: a failed deletion is reported as success.
DeleteIgnoringErrors(c) ==
    LET id == task[c].id IN
    /\ At(c, "unstored")
    /\ db' \in {db, [db EXCEPT ![id] = None]}
    /\ Settle(id, None)
    /\ Goto(c, "ok")
    /\ UNCHANGED <<up, store, workers, hist>>

delete_from_db(c) ==
    LET id == task[c].id IN
    /\ At(c, "unstored")
    /\ \/ /\ db' = [db EXCEPT ![id] = None]
          /\ Settle(id, None)
          /\ Goto(c, "ok")
       \/ /\ Goto(c, "failed")
          /\ UNCHANGED <<db, promise>>
    /\ UNCHANGED <<up, store, workers, hist>>

-----------------------------------------------------------------------------
(***************************************************************************)
(* The Pool's Workers, crashes and restarts                                *)
(***************************************************************************)

\* The Pool creates the first Worker of a registered Function, or reaps the last.
ChangeWorkers(id) ==
    /\ up
    /\ \/ /\ store[id] # None /\ id \notin workers
          /\ workers' = workers \cup {id}
       \/ workers' = workers \ {id}
    /\ UNCHANGED <<up, store, db, task, promise, hist>>

\* Memory and tasks are gone; the calls in flight get no answer.
Crash ==
    /\ up
    /\ up' = FALSE
    /\ store' = [id \in Ids |-> None]
    /\ workers' = {}
    /\ task' = [c \in Calls |-> IF task[c].pc \in InFlight
                                THEN [task[c] EXCEPT !.pc = "failed"] ELSE task[c]]
    /\ raced' = {} /\ crossed' = {}
    /\ UNCHANGED <<db, promise>>

\* Registrar::new: every stored Function goes into the store before the first
\* RPC; a Function that the Runtime refuses aborts the start (still not up).
load_from_db ==
    /\ ~up
    /\ up' = TRUE
    /\ store' = db
    /\ UNCHANGED <<db, workers, task, promise, hist>>

-----------------------------------------------------------------------------
Init ==
    /\ up = TRUE
    /\ store = [id \in Ids |-> None]
    /\ db = [id \in Ids |-> None]
    /\ workers = {}
    /\ task = [c \in Calls |-> [pc |-> "new", id |-> None, info |-> None]]
    /\ promise = [id \in Ids |-> None]
    /\ raced = {} /\ crossed = {}

Step(c) ==
    \/ \E id \in Ids : \E info \in Infos : IssueRegister(c, id, info)
    \/ \E id \in Ids : IssueDeregister(c, id)
    \/ CheckRequest(c)
    \/ RegisterWithRuntime(c)
    \/ store_to_db(c)
    \/ StoreRegister(c)
    \/ StoreDeregister(c)
    \/ delete_from_db(c)

Next ==
    \/ \E c \in Calls : Step(c)
    \/ \E id \in Ids : ChangeWorkers(id)
    \/ Crash
    \/ load_from_db

Spec == Init /\ [][Next]_vars

-----------------------------------------------------------------------------
TypeOK ==
    /\ up \in BOOLEAN
    /\ store \in [Ids -> Infos \cup {None}]
    /\ db \in [Ids -> Infos \cup {None}]
    /\ workers \subseteq Ids
    /\ task \in [Calls -> TaskType]
    /\ promise \in [Ids -> Infos \cup {None, Unsettled}]
    /\ raced \subseteq Ids /\ crossed \subseteq Ids

\* A Function that can be invoked survives a restart, with the same settings:
\* what the store holds is what the database holds, also in the middle of calls
\* and after failed ones (the orders of the two writes), unless the calls that
\* last passed their check on this id overlapped.
StoreBackedByDb == \A id \in Ids \ raced : store[id] # None => db[id] = store[id]

\* What a client was told lasts: after a successful registration (deregistration)
\* that no other call overlapped and no later call has touched, the Function is
\* (is not) in the database and in the store, across failed calls, crashes and
\* restarts.
AckedIsDurable ==
    \A id \in Ids : promise[id] # Unsettled =>
        /\ db[id] = promise[id]
        /\ up => store[id] = promise[id]

\* Registrations of one id that overlap, which the check of function_exists does
\* not prevent, can leave the settings of the later one in the database, but
\* never lose the Function: a restart still finds a row for it.  (Only one that
\* overlaps a deregistration can be lost.)
RacedIsNotLost == \A id \in Ids \ crossed : store[id] # None => db[id] # None
=============================================================================
