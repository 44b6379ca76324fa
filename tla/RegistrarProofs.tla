-------------------------- MODULE RegistrarProofs --------------------------
(***************************************************************************)
(* Proofs about the registrar, for every number of Functions and calls,    *)
(* overlapping in any way.                                                 *)
(***************************************************************************)
EXTENDS Registrar, TLAPS

Registering == {"submitted", "checked", "prepared", "in_db"}
Past == {"checked", "prepared", "in_db", "unstored"}

\* Calls in flight have their arguments.
HaveArguments ==
    /\ \A c \in Calls : task[c].pc \in InFlight => task[c].id \in Ids
    /\ \A c \in Calls : task[c].pc \in Registering => task[c].info \in Infos

\* A process that is down holds nothing in memory.
DownIsEmpty ==
    ~up => /\ \A id \in Ids : store[id] = None
           /\ \A c \in Calls : task[c].pc \notin InFlight

\* The history knows of two calls on one id that are past their check.
OverlapsKnown ==
    \A c, d \in Calls :
        c # d /\ task[c].pc \in Past /\ task[d].pc \in Past /\ task[c].id = task[d].id =>
            /\ task[c].id \in raced
            /\ task[c].pc = "unstored" => task[c].id \in crossed

\* A call that is past its check alone finds its id absent, and what it wrote.
AloneFindsOwn ==
    \A c \in Calls : task[c].pc \in Past /\ task[c].id \notin raced =>
        /\ store[task[c].id] = None
        /\ task[c].pc = "in_db" => db[task[c].id] = task[c].info

\* Registrations among themselves never remove a row, nor a deregistration
\* alone the row of an entry.
RegisteringKeepsRow ==
    \A c \in Calls : task[c].id \notin crossed =>
        /\ task[c].pc = "in_db" => db[task[c].id] # None
        /\ task[c].pc = "unstored" => store[task[c].id] = None

\* A call between its two writes has broken the promise and not made one yet.
BetweenWrites ==
    \A c \in Calls : task[c].pc \in {"in_db", "unstored"} => promise[task[c].id] = Unsettled

RInv ==
    /\ TypeOK
    /\ HaveArguments
    /\ DownIsEmpty
    /\ OverlapsKnown
    /\ AloneFindsOwn
    /\ RegisteringKeepsRow
    /\ BetweenWrites
    /\ StoreBackedByDb
    /\ AckedIsDurable
    /\ RacedIsNotLost

USE DEF InFlight, Registering, Past

LEMMA InitRInv == Init => RInv
  BY DEF Init, RInv, TypeOK, TaskType, HaveArguments, DownIsEmpty, OverlapsKnown, AloneFindsOwn,
     RegisteringKeepsRow, BetweenWrites, StoreBackedByDb, AckedIsDurable, RacedIsNotLost

\* Advancing a call changes its label and nothing else of any call.
LEMMA GotoFacts ==
    ASSUME TypeOK, NEW c \in Calls, NEW l \in InFlight \cup {"ok", "failed"}, Goto(c, l)
    PROVE  /\ task' \in [Calls -> TaskType]
           /\ task'[c].pc = l
           /\ \A d \in Calls : task'[d].id = task[d].id /\ task'[d].info = task[d].info
           /\ \A d \in Calls \ {c} : task'[d].pc = task[d].pc
<1>1. task \in [Calls -> TaskType] /\ task' = [task EXCEPT ![c] = [task[c] EXCEPT !.pc = l]]
  BY DEF Goto, TypeOK
<1>2. task[c] = [pc |-> task[c].pc, id |-> task[c].id, info |-> task[c].info]
  BY <1>1 DEF TaskType
<1>3. [task[c] EXCEPT !.pc = l] = [pc |-> l, id |-> task[c].id, info |-> task[c].info]
  BY <1>1 DEF TaskType
<1> QED
  BY <1>1, <1>3 DEF TaskType

\* What a step that advances the call c on id has to establish: the new row,
\* entry and promise of id agree with the other calls, and the history is right.
LEMMA AdvanceKeeps ==
    ASSUME RInv, up, NEW c \in Calls, NEW id \in Ids, id = task[c].id, task[c].pc \in InFlight,
           NEW l \in InFlight \cup {"ok", "failed"}, Goto(c, l), UNCHANGED <<up, workers>>,
           l \in Registering => task[c].info \in Infos,
           store' \in [Ids -> Infos \cup {None}], db' \in [Ids -> Infos \cup {None}],
           promise' \in [Ids -> Infos \cup {None, Unsettled}],
           raced' \subseteq Ids, crossed' \subseteq Ids,
           \A i \in Ids \ {id} : /\ store'[i] = store[i] /\ db'[i] = db[i] /\ promise'[i] = promise[i]
                                 /\ i \in raced' <=> i \in raced
                                 /\ i \in crossed' <=> i \in crossed,
           \* the history
           \A d \in Calls \ {c} : task[d].pc \in Past /\ task[d].id = id =>
               /\ id \in raced \/ l \in Past => id \in raced'
               /\ id \in crossed => id \in crossed'
               /\ l \in Past /\ (l = "unstored" \/ task[d].pc = "unstored") => id \in crossed',
           \* the call itself
           l \in Past /\ id \notin raced' => /\ store'[id] = None
                                             /\ l = "in_db" => db'[id] = task[c].info,
           id \notin crossed' => /\ l = "in_db" => db'[id] # None
                                 /\ l = "unstored" => store'[id] = None,
           l \in {"in_db", "unstored"} => promise'[id] = Unsettled,
           \* the others on this id
           \A d \in Calls \ {c} : task[d].id = id =>
               /\ task[d].pc \in Past /\ id \notin raced' =>
                    /\ store'[id] = None
                    /\ task[d].pc = "in_db" => db'[id] = task[d].info
               /\ id \notin crossed' => /\ task[d].pc = "in_db" => db'[id] # None
                                        /\ task[d].pc = "unstored" => store'[id] = None
               /\ task[d].pc \in {"in_db", "unstored"} => promise'[id] = Unsettled,
           \* the id
           id \notin raced' /\ store'[id] # None => db'[id] = store'[id],
           promise'[id] # Unsettled => db'[id] = promise'[id] /\ store'[id] = promise'[id],
           id \notin crossed' /\ store'[id] # None => db'[id] # None
    PROVE  RInv'
<1>1. /\ task' \in [Calls -> TaskType] /\ task'[c].pc = l
      /\ \A d \in Calls : task'[d].id = task[d].id /\ task'[d].info = task[d].info
      /\ \A d \in Calls \ {c} : task'[d].pc = task[d].pc
  BY GotoFacts DEF RInv
<1>2. TypeOK'
  BY <1>1 DEF RInv, TypeOK
<1>3. HaveArguments'
  BY <1>1 DEF RInv, HaveArguments
<1>4. DownIsEmpty'
  BY DEF DownIsEmpty
<1>a. \A d \in Calls : task[d].pc \in Past => task[d].id \in Ids
  BY DEF RInv, HaveArguments
<1>5. OverlapsKnown'
  <2> SUFFICES ASSUME NEW d \in Calls, NEW e \in Calls, d # e, task'[d].pc \in Past,
                      task'[e].pc \in Past, task'[d].id = task'[e].id
               PROVE  task'[d].id \in raced' /\ (task'[d].pc = "unstored" => task'[d].id \in crossed')
    BY DEF OverlapsKnown
  <2>1. CASE d = c
    BY <1>1, <2>1
  <2>2. CASE e = c
    BY <1>1, <2>2
  <2>3. CASE d # c /\ e # c
    <3>1. /\ task[d].id \in raced /\ (task[d].pc = "unstored" => task[d].id \in crossed)
          /\ task[d].id \in Ids /\ task[d].pc \in Past /\ task'[d].id = task[d].id
          /\ task'[d].pc = task[d].pc
      BY <1>a, <1>1, <2>3 DEF RInv, OverlapsKnown
    <3>2. CASE task[d].id = id
      BY <2>3, <3>1, <3>2
    <3>3. CASE task[d].id # id
      BY <2>3, <3>1, <3>3
    <3> QED
      BY <3>2, <3>3
  <2> QED
    BY <2>1, <2>2, <2>3
<1>6. AloneFindsOwn'
  BY <1>a, <1>1 DEF RInv, AloneFindsOwn
<1>7. RegisteringKeepsRow'
  BY <1>a, <1>1 DEF RInv, RegisteringKeepsRow
<1>8. BetweenWrites'
  BY <1>a, <1>1 DEF RInv, BetweenWrites
<1>9. StoreBackedByDb' /\ AckedIsDurable' /\ RacedIsNotLost'
  BY DEF RInv, StoreBackedByDb, AckedIsDurable, RacedIsNotLost
<1> QED
  BY <1>2, <1>3, <1>4, <1>5, <1>6, <1>7, <1>8, <1>9 DEF RInv

\* A step that only moves one call, without putting it past a check or a write.
LEMMA MoveKeeps ==
    ASSUME RInv, NEW c \in Calls, task[c].pc \in InFlight, NEW l \in {"prepared", "failed"},
           l = "prepared" => task[c].pc = "checked",
           Goto(c, l), UNCHANGED <<up, store, db, workers, promise, hist>>
    PROVE  RInv'
<1>1. /\ task' \in [Calls -> TaskType] /\ task'[c].pc = l
      /\ \A d \in Calls : task'[d].id = task[d].id /\ task'[d].info = task[d].info
      /\ \A d \in Calls \ {c} : task'[d].pc = task[d].pc
  BY GotoFacts DEF RInv
<1>2. UNCHANGED <<raced, crossed>>
  BY DEF hist
<1>3. TypeOK' /\ StoreBackedByDb' /\ AckedIsDurable' /\ RacedIsNotLost'
  BY <1>1, <1>2 DEF RInv, TypeOK, StoreBackedByDb, AckedIsDurable, RacedIsNotLost
<1>4. HaveArguments' /\ DownIsEmpty' /\ BetweenWrites'
  BY <1>1 DEF RInv, HaveArguments, DownIsEmpty, BetweenWrites
<1>5. OverlapsKnown'
  BY <1>1, <1>2 DEF RInv, OverlapsKnown
<1>6. AloneFindsOwn' /\ RegisteringKeepsRow'
  BY <1>1, <1>2 DEF RInv, AloneFindsOwn, RegisteringKeepsRow
<1> QED
  BY <1>3, <1>4, <1>5, <1>6 DEF RInv

LEMMA IssueKeeps ==
    ASSUME RInv, NEW c \in Calls, NEW id \in Ids, NEW info \in Infos \cup {None},
           NEW l \in {"submitted", "asked"}, l = "submitted" => info \in Infos,
           Issue(c, id, info, l)
    PROVE  RInv'
<1> DEFINE t == [pc |-> l, id |-> id, info |-> info]
<1>1. /\ up /\ task' = [task EXCEPT ![c] = t]
      /\ UNCHANGED <<up, store, db, workers, promise, raced, crossed>>
  BY DEF Issue, At, hist
<1>2. t \in TaskType
  BY DEF TaskType
<1>3. /\ task' \in [Calls -> TaskType] /\ task'[c] = t
      /\ \A d \in Calls \ {c} : task'[d] = task[d]
  BY <1>1, <1>2 DEF RInv, TypeOK
<1>4. TypeOK' /\ StoreBackedByDb' /\ AckedIsDurable' /\ RacedIsNotLost'
  BY <1>1, <1>3 DEF RInv, TypeOK, StoreBackedByDb, AckedIsDurable, RacedIsNotLost
<1>5. HaveArguments' /\ DownIsEmpty' /\ BetweenWrites'
  BY <1>1, <1>3 DEF RInv, HaveArguments, DownIsEmpty, BetweenWrites
<1>6. OverlapsKnown'
  BY <1>1, <1>3 DEF RInv, OverlapsKnown
<1>7. AloneFindsOwn' /\ RegisteringKeepsRow'
  BY <1>1, <1>3 DEF RInv, AloneFindsOwn, RegisteringKeepsRow
<1> QED
  BY <1>4, <1>5, <1>6, <1>7 DEF RInv

\* What the history records when a call passes its check.
LEMMA EnterFacts ==
    ASSUME RInv, NEW c \in Calls, NEW id \in Ids, id = task[c].id, NEW b \in BOOLEAN, Enter(c, b)
    PROVE  /\ raced' \subseteq Ids /\ crossed' \subseteq Ids
           /\ \A i \in Ids \ {id} : /\ i \in raced' <=> i \in raced
                                    /\ i \in crossed' <=> i \in crossed
           /\ \A d \in Calls \ {c} : task[d].pc \in Past /\ task[d].id = id =>
                 /\ id \in raced'
                 /\ id \in crossed => id \in crossed'
                 /\ b \/ task[d].pc = "unstored" => id \in crossed'
<1> DEFINE others == PastCheck(id) \ {c}
<1>1. /\ raced' = IF others = {} THEN raced \ {id} ELSE raced \cup {id}
      /\ crossed' = IF others = {} THEN crossed \ {id}
                    ELSE IF b \/ \E d \in others : task[d].pc = "unstored"
                    THEN crossed \cup {id} ELSE crossed
  BY DEF Enter
<1>2. \A d \in Calls \ {c} : task[d].pc \in Past /\ task[d].id = id => d \in others
  BY DEF PastCheck
<1>3. raced \subseteq Ids /\ crossed \subseteq Ids
  BY DEF RInv, TypeOK
<1> HIDE DEF others
<1> QED
  BY <1>1, <1>2, <1>3

LEMMA CheckRequestKeeps ==
    ASSUME RInv, NEW c \in Calls, CheckRequest(c)
    PROVE  RInv'
<1> DEFINE id == task[c].id
<1>1. /\ task[c].pc = "submitted" /\ up
      /\ UNCHANGED <<up, store, db, workers, promise>>
      /\ id \in Ids /\ task[c].info \in Infos
  BY DEF CheckRequest, At, RInv, HaveArguments
<1>2. CASE Goto(c, "failed") /\ UNCHANGED hist
  BY <1>1, <1>2, MoveKeeps
<1>3. CASE Goto(c, "checked") /\ store[id] = None /\ Enter(c, FALSE)
  <2>1. /\ raced' \subseteq Ids /\ crossed' \subseteq Ids
        /\ \A i \in Ids \ {id} : (i \in raced' <=> i \in raced) /\ (i \in crossed' <=> i \in crossed)
        /\ \A d \in Calls \ {c} : task[d].pc \in Past /\ task[d].id = id =>
              /\ id \in raced' /\ (id \in crossed => id \in crossed')
              /\ task[d].pc = "unstored" => id \in crossed'
    BY <1>1, <1>3, EnterFacts
  <2>2. /\ store' = store /\ db' = db /\ promise' = promise
        /\ store \in [Ids -> Infos \cup {None}] /\ db \in [Ids -> Infos \cup {None}]
        /\ promise \in [Ids -> Infos \cup {None, Unsettled}]
    BY <1>1 DEF RInv, TypeOK
  <2>3. promise[id] # Unsettled => db[id] = promise[id] /\ store[id] = promise[id]
    BY <1>1 DEF RInv, AckedIsDurable
  <2>4. \A d \in Calls : task[d].pc \in {"in_db", "unstored"} /\ task[d].id = id =>
             promise[id] = Unsettled
    BY DEF RInv, BetweenWrites
  <2>5. \A d \in Calls \ {c} : task[d].pc = "in_db" /\ task[d].id = id /\ id \notin crossed' =>
             db[id] # None
    BY <2>1 DEF RInv, RegisteringKeepsRow
  <2> QED
    BY <1>1, <1>3, <2>1, <2>2, <2>3, <2>4, <2>5, AdvanceKeeps
<1> QED
  BY <1>2, <1>3 DEF CheckRequest

LEMMA StoreDeregisterKeeps ==
    ASSUME RInv, NEW c \in Calls, StoreDeregister(c)
    PROVE  RInv'
<1> DEFINE id == task[c].id
<1>1. /\ task[c].pc = "asked" /\ up /\ UNCHANGED <<up, db, workers>> /\ id \in Ids
  BY DEF StoreDeregister, At, RInv, HaveArguments
<1>2. CASE Goto(c, "failed") /\ UNCHANGED <<store, promise, hist>>
  BY <1>1, <1>2, MoveKeeps
<1>3. CASE /\ Goto(c, "unstored") /\ Enter(c, TRUE)
           /\ store' = [store EXCEPT ![id] = None] /\ promise' = [promise EXCEPT ![id] = Unsettled]
  <2>1. /\ raced' \subseteq Ids /\ crossed' \subseteq Ids
        /\ \A i \in Ids \ {id} : (i \in raced' <=> i \in raced) /\ (i \in crossed' <=> i \in crossed)
        /\ \A d \in Calls \ {c} : task[d].pc \in Past /\ task[d].id = id =>
              id \in raced' /\ id \in crossed'
    BY <1>1, <1>3, EnterFacts
  <2>2. /\ store'[id] = None /\ promise'[id] = Unsettled /\ db' = db
        /\ \A i \in Ids \ {id} : store'[i] = store[i] /\ promise'[i] = promise[i]
        /\ store' \in [Ids -> Infos \cup {None}] /\ db \in [Ids -> Infos \cup {None}]
        /\ promise' \in [Ids -> Infos \cup {None, Unsettled}]
    BY <1>1, <1>3 DEF RInv, TypeOK
  <2> QED
    BY <1>1, <1>3, <2>1, <2>2, AdvanceKeeps
<1> QED
  BY <1>2, <1>3 DEF StoreDeregister

\* The three writes that leave the history alone, and their failures.
LEMMA WritesKeep ==
    ASSUME RInv, NEW c \in Calls, store_to_db(c) \/ StoreRegister(c) \/ delete_from_db(c)
    PROVE  RInv'
<1> DEFINE id == task[c].id
           info == task[c].info
<1>1. /\ up /\ UNCHANGED <<up, workers>> /\ task[c].pc \in {"prepared", "in_db", "unstored"}
      /\ raced' = raced /\ crossed' = crossed
  BY DEF store_to_db, StoreRegister, delete_from_db, At, hist
<1>2. id \in Ids /\ (task[c].pc # "unstored" => info \in Infos)
  BY <1>1 DEF RInv, HaveArguments
<1>3. /\ store \in [Ids -> Infos \cup {None}] /\ db \in [Ids -> Infos \cup {None}]
      /\ promise \in [Ids -> Infos \cup {None, Unsettled}]
      /\ raced \subseteq Ids /\ crossed \subseteq Ids
      /\ None \notin Infos /\ Unsettled \notin Infos \cup {None}
  BY RegistrarAssumption DEF RInv, TypeOK
<1>4. CASE Goto(c, "failed") /\ UNCHANGED <<store, db, promise>>
  BY <1>1, <1>4, MoveKeeps DEF hist
\* What the other calls on the id know: they are all past their check beside c.
<1>5. /\ \A d \in Calls \ {c} : task[d].pc \in Past /\ task[d].id = id =>
            /\ id \in raced
            /\ task[d].pc = "unstored" \/ task[c].pc = "unstored" => id \in crossed
      /\ id \notin raced => store[id] = None /\ (task[c].pc = "in_db" => db[id] = info)
      /\ id \notin crossed => /\ task[c].pc = "in_db" => db[id] # None
                              /\ task[c].pc = "unstored" => store[id] = None
      /\ \A d \in Calls : task[d].pc \in {"in_db", "unstored"} /\ task[d].id = id =>
            promise[id] = Unsettled
      /\ \A d \in Calls : task[d].pc = "in_db" /\ task[d].id = id /\ id \notin crossed =>
            db[id] # None
  BY <1>1 DEF RInv, OverlapsKnown, AloneFindsOwn, RegisteringKeepsRow, BetweenWrites
<1>6. CASE /\ task[c].pc = "prepared" /\ Goto(c, "in_db") /\ UNCHANGED store
           /\ db' = [db EXCEPT ![id] = info] /\ promise' = [promise EXCEPT ![id] = Unsettled]
  <2>1. /\ store' = store /\ db'[id] = info /\ promise'[id] = Unsettled
        /\ \A i \in Ids \ {id} : db'[i] = db[i] /\ promise'[i] = promise[i]
        /\ db' \in [Ids -> Infos \cup {None}] /\ promise' \in [Ids -> Infos \cup {None, Unsettled}]
    BY <1>2, <1>3, <1>6
  <2> QED
    BY <1>1, <1>2, <1>3, <1>5, <1>6, <2>1, AdvanceKeeps
<1>7. CASE /\ task[c].pc = "in_db" /\ Goto(c, "ok") /\ UNCHANGED db
           /\ store' = [store EXCEPT ![id] = info] /\ Settle(id, info)
  <2>1. /\ db' = db /\ store'[id] = info
        /\ promise'[id] = (IF id \in raced THEN Unsettled ELSE info)
        /\ \A i \in Ids \ {id} : store'[i] = store[i] /\ promise'[i] = promise[i]
        /\ store' \in [Ids -> Infos \cup {None}] /\ promise' \in [Ids -> Infos \cup {None, Unsettled}]
    BY <1>2, <1>3, <1>7 DEF Settle
  <2> QED
    BY <1>1, <1>2, <1>3, <1>5, <1>7, <2>1, AdvanceKeeps
<1>8. CASE /\ task[c].pc = "unstored" /\ Goto(c, "ok") /\ UNCHANGED store
           /\ db' = [db EXCEPT ![id] = None] /\ Settle(id, None)
  <2>1. /\ store' = store /\ db'[id] = None
        /\ promise'[id] = (IF id \in raced THEN Unsettled ELSE None)
        /\ \A i \in Ids \ {id} : db'[i] = db[i] /\ promise'[i] = promise[i]
        /\ db' \in [Ids -> Infos \cup {None}] /\ promise' \in [Ids -> Infos \cup {None, Unsettled}]
    BY <1>2, <1>3, <1>8 DEF Settle
  <2> QED
    BY <1>1, <1>2, <1>3, <1>5, <1>8, <2>1, AdvanceKeeps
<1> QED
  BY <1>4, <1>6, <1>7, <1>8 DEF store_to_db, StoreRegister, delete_from_db, At

LEMMA CrashKeeps == RInv /\ Crash => RInv'
<1> SUFFICES ASSUME RInv, Crash PROVE RInv'
  OBVIOUS
<1>1. /\ up' = FALSE /\ store' = [id \in Ids |-> None] /\ workers' = {}
      /\ raced' = {} /\ crossed' = {}
      /\ UNCHANGED <<db, promise>>
  BY DEF Crash
<1>2. ASSUME NEW c \in Calls
      PROVE  task'[c] \in TaskType /\ task'[c].pc \notin InFlight
  <2>1. task[c] \in TaskType
    BY DEF RInv, TypeOK
  <2>2. [task[c] EXCEPT !.pc = "failed"] = [pc |-> "failed", id |-> task[c].id, info |-> task[c].info]
    BY <2>1 DEF TaskType
  <2>3. task'[c] = IF task[c].pc \in InFlight THEN [task[c] EXCEPT !.pc = "failed"] ELSE task[c]
    BY DEF Crash
  <2> QED
    BY <2>1, <2>2, <2>3 DEF TaskType
<1>3. task' \in [Calls -> TaskType]
  BY <1>2 DEF Crash
<1>4. TypeOK' /\ StoreBackedByDb' /\ AckedIsDurable' /\ RacedIsNotLost'
  BY <1>1, <1>3 DEF RInv, TypeOK, StoreBackedByDb, AckedIsDurable, RacedIsNotLost
<1>5. HaveArguments' /\ DownIsEmpty' /\ OverlapsKnown' /\ AloneFindsOwn'
      /\ RegisteringKeepsRow' /\ BetweenWrites'
  BY <1>1, <1>2 DEF HaveArguments, DownIsEmpty, OverlapsKnown, AloneFindsOwn, RegisteringKeepsRow,
     BetweenWrites
<1> QED
  BY <1>4, <1>5 DEF RInv

LEMMA BootKeeps == RInv /\ load_from_db => RInv'
<1> SUFFICES ASSUME RInv, load_from_db PROVE RInv'
  OBVIOUS
<1>1. ~up /\ up' = TRUE /\ store' = db /\ UNCHANGED <<db, workers, task, promise, raced, crossed>>
  BY DEF load_from_db, hist
<1>2. \A c \in Calls : task'[c].pc \notin InFlight
  BY <1>1 DEF RInv, DownIsEmpty
<1>3. TypeOK' /\ StoreBackedByDb' /\ AckedIsDurable' /\ RacedIsNotLost'
  BY <1>1 DEF RInv, TypeOK, StoreBackedByDb, AckedIsDurable, RacedIsNotLost
<1>4. HaveArguments' /\ DownIsEmpty' /\ OverlapsKnown' /\ AloneFindsOwn'
      /\ RegisteringKeepsRow' /\ BetweenWrites'
  <2>1. \A c \in Calls : task'[c].pc \notin Past
    BY <1>2
  <2> QED
    BY <1>1, <1>2, <2>1 DEF HaveArguments, DownIsEmpty, OverlapsKnown, AloneFindsOwn,
       RegisteringKeepsRow, BetweenWrites
<1> QED
  BY <1>3, <1>4 DEF RInv

\* A step that leaves everything but the Workers alone.
LEMMA WorkersKeep ==
    ASSUME RInv, UNCHANGED <<up, store, db, task, promise, raced, crossed>>, workers' \subseteq Ids
    PROVE  RInv'
  BY DEF RInv, TypeOK, HaveArguments, DownIsEmpty, OverlapsKnown, AloneFindsOwn,
     RegisteringKeepsRow, BetweenWrites, StoreBackedByDb, AckedIsDurable, RacedIsNotLost

LEMMA NextKeepsRInv == ASSUME RInv, [Next]_vars PROVE RInv'
<1>1. ASSUME NEW c \in Calls, NEW id \in Ids, NEW info \in Infos, IssueRegister(c, id, info)
      PROVE  RInv'
  BY <1>1, IssueKeeps DEF IssueRegister
<1>2. ASSUME NEW c \in Calls, NEW id \in Ids, IssueDeregister(c, id)
      PROVE  RInv'
  BY <1>2, IssueKeeps DEF IssueDeregister
<1>3. ASSUME NEW c \in Calls, RegisterWithRuntime(c) PROVE RInv'
  <2>1. PICK l \in {"prepared", "failed"} : Goto(c, l)
    BY <1>3 DEF RegisterWithRuntime
  <2> QED
    BY <1>3, <2>1, MoveKeeps DEF RegisterWithRuntime, At
<1>4. ASSUME NEW c \in Calls, Step(c) PROVE RInv'
  BY <1>1, <1>2, <1>3, <1>4, CheckRequestKeeps, StoreDeregisterKeeps, WritesKeep DEF Step
<1>5. ASSUME NEW id \in Ids, ChangeWorkers(id) PROVE RInv'
  <2>1. workers' \subseteq Ids
    BY <1>5 DEF ChangeWorkers, RInv, TypeOK
  <2> QED
    BY <1>5, <2>1, WorkersKeep DEF ChangeWorkers, hist
<1>6. CASE UNCHANGED vars
  <2>1. workers' \subseteq Ids
    BY <1>6 DEF vars, RInv, TypeOK
  <2> QED
    BY <1>6, <2>1, WorkersKeep DEF vars, hist
<1> QED
  BY <1>4, <1>5, <1>6, CrashKeeps, BootKeeps DEF Next

-----------------------------------------------------------------------------
\* Every variable keeps its type.
THEOREM RegistrarTyped == Spec => []TypeOK
<1>1. RInv => TypeOK
  BY DEF RInv
<1> QED
  BY <1>1, InitRInv, NextKeepsRInv, PTL DEF Spec

\* Whatever can be invoked survives a restart, as it is: for every id whose latest calls past
\* their check did not overlap, the store holds nothing that load_from_db would not bring
\* back, across failed calls, crashes and restarts, and whatever calls run on other ids.
THEOREM StoreSurvivesRestart == Spec => []StoreBackedByDb
<1>1. RInv => StoreBackedByDb
  BY DEF RInv
<1> QED
  BY <1>1, InitRInv, NextKeepsRInv, PTL DEF Spec

\* What register_function and deregister_function told the client of a call that no other
\* overlapped lasts, across failed calls, crashes and restarts, until a later call touches it.
THEOREM RegistrationsDurable == Spec => []AckedIsDurable
<1>1. RInv => AckedIsDurable
  BY DEF RInv
<1> QED
  BY <1>1, InitRInv, NextKeepsRInv, PTL DEF Spec

\* Registrations of one id that overlap lose no Function: unless a deregistration was among
\* the calls that overlapped, each entry of the store has a row that a restart brings back.
THEOREM RacesLoseNothing == Spec => []RacedIsNotLost
<1>1. RInv => RacedIsNotLost
  BY DEF RInv
<1> QED
  BY <1>1, InitRInv, NextKeepsRInv, PTL DEF Spec
=============================================================================
