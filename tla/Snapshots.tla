------------------------------ MODULE Snapshots ------------------------------
(***************************************************************************)
(* The life of a snapshot outside its Worker: the files on the devices,    *)
(* the two redb tables that describe them (SNAPS_PER_FUNC, SNAPSHOTS), the *)
(* SnapshotManager whose writing thread updates the tables, the            *)
(* SandboxPool that reinstates snapshots at start-up and reconciles the    *)
(* tables at shutdown, and the faasctl tools that edit files and tables    *)
(* while the server is down.                                               *)
(*                                                                         *)
(* A sandbox's ID is the name of its TAP device, so an ID is used again    *)
(* by another sandbox, perhaps of another Function, as soon as the TAP is  *)
(* free; the serialized SnapshotState does not say which Function it is    *)
(* of. What a Worker does with its sandbox is module Worker, what the      *)
(* network manager does with the TAP is module Network; here a Worker's    *)
(* sandbox is just busy, and an ID is free or it is not.                   *)
(***************************************************************************)
EXTENDS Naturals, Sequences, FiniteSets

CONSTANTS
    Functions,      \* the Functions that may be registered
    Sids,           \* sandbox IDs: the TAP names the network manager hands out
    Devices,        \* mountpoints that hold snapshot files
    Dest,           \* Function -> a device, "None", "KeepAlive" or "Unknown"
    WarmDevice,     \* where KeepAlive Functions go: a device or "None"
    Fallback,       \* the device of Functions the CSV file does not know
    QueueCap,       \* capacity of the channels to the writing thread
    MaxFailed,      \* bound: IDs operations may fail on
    MaxLives,       \* bound: starts of the server
    MaxMade,        \* bound: sandboxes created, over all lives
    MaxMoves,       \* bound: files moved
    None

Rows == [state : Devices, memory : Devices]
Destinations == {"None", "KeepAlive", "Unknown"}

ASSUME SnapshotsAssumption ==
    /\ None \notin Devices \cup Functions \cup Rows
    /\ Devices \cap Destinations = {}
    /\ Dest \in [Functions -> Devices \cup Destinations]
    /\ Fallback \in Devices
    /\ QueueCap \in Nat \ {0}
    /\ {MaxFailed, MaxLives, MaxMade, MaxMoves} \subseteq Nat

Kinds == {"state", "memory"}

VARIABLES
    phase,      \* down, boot, run, sync, wipe or drain
    retain,     \* SandboxPoolConfig.retain_snapshots
    reg,        \* table FUNCTIONS, and the metadata store it backs
    spf,        \* table SNAPS_PER_FUNC: pairs of a Function and an ID
    snap,       \* table SNAPSHOTS: ID -> where the two files are, or None
    files,      \* (ID, kind, device) -> the Function whose VM it holds, or None
    box,        \* ID -> the sandbox that has that TAP in this life
    keys,       \* Functions with an entry (maybe empty) in SandboxPool.snapshots
    todo,       \* rows of SNAPS_PER_FUNC the Pool read and has still to treat
    q,          \* messages under way to the writing thread
    mv,         \* (ID, kind) -> progress of `faasctl snapshots mv`
    failed,     \* history: IDs on which some operation failed
    stale,      \* history: IDs whose rows are not, or may come not to be, those
                \* of their sandbox, in one of the ways the code does not prevent
    used        \* how much of the bounds is used up

tables == <<spf, snap>>
vars == <<phase, retain, reg, spf, snap, files, box, keys, todo, q, mv, failed, stale, used>>

Free == [at |-> "free", f |-> None, row |-> None]
Idle == [at |-> "idle", src |-> None, dst |-> None]
Slots == Sids \X Kinds \X Devices

\* What the writing thread is sent: NewSnapshot with the state, SnapshotRemoved without.
SnapshotManagerMessage ==
    [op : {"new"}, f : Functions, s : Sids, row : Rows]
    \cup [op : {"removed"}, f : Functions, s : Sids, row : {None}]

TypeOK ==
    /\ phase \in {"down", "boot", "run", "sync", "wipe", "drain"}
    /\ retain \in BOOLEAN
    /\ reg \subseteq Functions
    /\ spf \subseteq Functions \X Sids
    /\ snap \in [Sids -> Rows \cup {None}]
    /\ files \in [Slots -> Functions \cup {None}]
    /\ box \in [Sids -> [at : {"free", "busy", "parked", "kept", "trashed"},
                         f : Functions \cup {None}, row : Rows \cup {None}]]
    /\ keys \subseteq Functions
    /\ todo \subseteq Functions \X Sids
    /\ q \in Seq(SnapshotManagerMessage)
    /\ Len(q) <= QueueCap
    /\ mv \in [Sids \X Kinds -> [at : {"idle", "copied", "updated"},
                                 src : Devices \cup {None},
                                 dst : Devices \cup {None}]]
    /\ failed \subseteq Sids
    /\ stale \subseteq Sids
    /\ used \in [lives : 0..MaxLives, made : 0..MaxMade, moves : 0..MaxMoves]

(***************************************************************************)
(* Helpers.                                                                *)
(***************************************************************************)

\* The two files of a row, as slots of the devices.
FilesOf(s, row) == {<<s, k, row[k]>> : k \in Kinds}

\* Best-effort unlink of the files of a row.
Unlinked(s, row) == [x \in Slots |-> IF x \in FilesOf(s, row) THEN None ELSE files[x]]

\* IDs of a Function, in the rows given.
SidsOf(f, rows) == {s \in Sids : <<f, s>> \in rows}

\* What the Pool tracks of a Function: SandboxPool.snapshots[f].
Tracked(f) == {s \in Sids : box[s].at = "parked" /\ box[s].f = f}

\* An operation fails on ID s; a named bound keeps the faults few.
Fails(s) ==
    /\ s \in failed \/ Cardinality(failed) < MaxFailed
    /\ failed' = failed \cup {s}

\* SlowdownsStatic::query_path: the device for a Function's snapshot, or
\* None when it must not be snapshotted.
query_path(f) ==
    CASE Dest[f] = "None"     -> None
      [] Dest[f] = "KeepAlive" -> IF WarmDevice \in Devices THEN WarmDevice ELSE None
      [] Dest[f] = "Unknown"  -> Fallback
      [] Dest[f] \in Devices  -> Dest[f]

\* The paths for both files, when there is a device for them.
query_paths(f) == {[state |-> d, memory |-> d] : d \in {query_path(f)} \ {None}}

\* The IDs whose rows stay those of their sandbox.
Sound == Sids \ (failed \cup stale)

\* A removal of the ID is on its way to the writing thread.
GoneSoon(s) == \E i \in 1..Len(q) : q[i].op = "removed" /\ q[i].s = s

\* A send to the SnapshotManager waits while the channel is full.
Send(op, f, s, row) ==
    /\ Len(q) < QueueCap
    /\ q' = Append(q, [op |-> op, f |-> f, s |-> s, row |-> row])

(***************************************************************************)
(* Start-up.                                                               *)
(***************************************************************************)

Init ==
    /\ phase = "down"
    /\ retain \in BOOLEAN
    /\ reg = {}
    /\ spf = {}
    /\ snap = [s \in Sids |-> None]
    /\ files = [x \in Slots |-> None]
    /\ box = [s \in Sids |-> Free]
    /\ keys = {}
    /\ todo = {}
    /\ q = <<>>
    /\ mv = [x \in Sids \X Kinds |-> Idle]
    /\ failed = {}
    /\ stale = {}
    /\ used = [lives |-> 0, made |-> 0, moves |-> 0]

\* The server starts when no tool has the database open, configured to retain
\* snapshots or not, whatever it was before. It reads the snapshot tables only
\* when it retains, and of the rows only those of registered Functions.
Start ==
    /\ phase = "down"
    /\ \A x \in Sids \X Kinds : mv[x] = Idle
    /\ used.lives < MaxLives
    /\ used' = [used EXCEPT !.lives = @ + 1]
    /\ retain' \in BOOLEAN
    /\ phase' = "boot"
    /\ todo' = IF retain' THEN {r \in spf : r[1] \in reg} ELSE {}
    /\ UNCHANGED <<reg, tables, files, box, keys, q, mv, failed, stale>>

\* reinstate_sandbox granted: SNAPSHOTS has the state and the network
\* manager grants the TAP. The sandbox is tracked under the Function the
\* row of SNAPS_PER_FUNC names; the files are not looked at.
Reinstate(f, s) ==
    /\ phase = "boot"
    /\ <<f, s>> \in todo
    /\ snap[s] # None
    /\ box[s] = Free
    /\ box' = [box EXCEPT ![s] = [at |-> "parked", f |-> f, row |-> snap[s]]]
    /\ keys' = keys \cup {f}
    /\ todo' = todo \ {<<f, s>>}
    /\ UNCHANGED <<phase, retain, reg, tables, files, q, mv, failed, stale, used>>

\* reinstate_sandbox refused: logged and passed over. A missing state and a
\* TAP in use are refused always, a free one when the request fails.
NotReinstated(f, s) ==
    /\ phase = "boot"
    /\ <<f, s>> \in todo
    /\ \/ (snap[s] = None \/ box[s] # Free) /\ UNCHANGED failed
       \/ snap[s] # None /\ box[s] = Free /\ Fails(s)
    /\ todo' = todo \ {<<f, s>>}
    /\ UNCHANGED <<phase, retain, reg, tables, files, box, keys, q, mv, stale, used>>

\* A Runtime that does not initialize makes the whole start fail.
StartFails ==
    /\ phase = "boot"
    /\ todo # {}
    /\ phase' = "down"
    /\ box' = [s \in Sids |-> Free]
    /\ keys' = {}
    /\ todo' = {}
    /\ UNCHANGED <<retain, reg, tables, files, q, mv, failed, stale, used>>

Started ==
    /\ phase = "boot"
    /\ todo = {}
    /\ phase' = "run"
    /\ UNCHANGED <<retain, reg, tables, files, box, keys, todo, q, mv, failed, stale, used>>

(***************************************************************************)
(* Serving: Workers and the registrar.                                     *)
(***************************************************************************)

\* The Registrar commits FUNCTIONS and then updates the store.
Register(f) ==
    /\ phase = "run"
    /\ f \notin reg
    /\ reg' = reg \cup {f}
    /\ UNCHANGED <<phase, retain, tables, files, box, keys, todo, q, mv, failed, stale, used>>

\* Deregistration is refused while the Function has Workers, not while it
\* has snapshots: their rows stay, and no start reinstates them.
Deregister(f) ==
    /\ phase = "run"
    /\ f \in reg
    /\ \A s \in Sids : ~(box[s].at = "busy" /\ box[s].f = f)
    /\ reg' = reg \ {f}
    /\ UNCHANGED <<phase, retain, tables, files, box, keys, todo, q, mv, failed, stale, used>>

\* A Worker creates a sandbox on a TAP that is free. The TAP of a row that was
\* passed over at start-up is: the ID then has an older row beside its sandbox.
Create(f, s) ==
    /\ phase = "run"
    /\ f \in reg
    /\ box[s] = Free
    /\ used.made < MaxMade
    /\ used' = [used EXCEPT !.made = @ + 1]
    /\ box' = [box EXCEPT ![s] = [at |-> "busy", f |-> f, row |-> None]]
    /\ stale' = stale \cup {t \in {s} : ~GoneSoon(s) /\ \E g \in Functions : <<g, s>> \in spf}
    /\ UNCHANGED <<phase, retain, reg, tables, files, keys, todo, q, mv, failed>>

\* create_snapshot: ask for the paths, write the two files, name them in
\* the sandbox and tell the SnapshotManager.
Snapshot(s) ==
    LET f == box[s].f IN
    /\ phase = "run"
    /\ box[s].at = "busy"
    /\ box[s].row = None
    /\ \E row \in query_paths(f) :
        /\ files' = [x \in Slots |-> IF x \in FilesOf(s, row) THEN f ELSE files[x]]
        /\ box' = [box EXCEPT ![s].row = row]
        /\ Send("new", f, s, row)
    /\ UNCHANGED <<phase, retain, reg, tables, keys, todo, mv, failed, stale, used>>

\* A Worker ends with a reusable sandbox: the Pool keeps the snapshot.
Park(s) ==
    /\ phase = "run"
    /\ box[s].at = "busy"
    /\ box[s].row # None
    /\ box' = [box EXCEPT ![s].at = "parked"]
    /\ keys' = keys \cup {box[s].f}
    /\ UNCHANGED <<phase, retain, reg, tables, files, todo, q, mv, failed, stale, used>>

\* pick_orphan_snapshot: a new Worker of the Function takes the snapshot.
\* The entry of SandboxPool.snapshots stays, maybe empty.
Take(s) ==
    /\ phase = "run"
    /\ box[s].at = "parked"
    /\ box[s].f \in reg
    /\ box' = [box EXCEPT ![s].at = "busy"]
    /\ UNCHANGED <<phase, retain, reg, tables, files, keys, todo, q, mv, failed, stale, used>>

\* A Worker destroys its sandbox: its files are unlinked as far as that
\* works, then the SnapshotManager is told, and only then is the TAP, and
\* with it the ID, given back.
Destroy(s) ==
    /\ phase = "run"
    /\ box[s].at = "busy"
    /\ \/ /\ box[s].row = None
          /\ UNCHANGED <<files, q, failed, stale>>
       \/ /\ box[s].row # None
          /\ Send("removed", box[s].f, s, None)
          /\ \/ files' = Unlinked(s, box[s].row) /\ UNCHANGED failed
             \/ Fails(s) /\ UNCHANGED files
    /\ box' = [box EXCEPT ![s] = Free]
    /\ UNCHANGED <<phase, retain, reg, tables, keys, todo, mv, stale, used>>

\* The Runtime fails to destroy it: the sandbox is trashed, nobody is told
\* and its TAP does not come back in this life.
Trash(s) ==
    /\ phase = "run"
    /\ box[s].at = "busy"
    /\ Fails(s)
    /\ box' = [box EXCEPT ![s].at = "trashed"]
    /\ UNCHANGED <<phase, retain, reg, tables, files, keys, todo, q, mv, stale, used>>

(***************************************************************************)
(* The SnapshotManager's writing thread. Each message is one write         *)
(* transaction; a failure is logged and the message forgotten.             *)
(***************************************************************************)

Up == phase \in {"run", "sync", "wipe", "drain"}

\* An ID already listed under the Function leaves both tables as they are.
db_new_snapshot(m) ==
    IF <<m.f, m.s>> \in spf
    THEN UNCHANGED tables
    ELSE /\ spf' = spf \cup {<<m.f, m.s>>}
         /\ snap' = [snap EXCEPT ![m.s] = m.row]

\* The removal whose first half fails, or is forgotten (mutant).
RemovedStateOnly(m) ==
    /\ spf' = spf
    /\ snap' = [snap EXCEPT ![m.s] = None]

db_rm_snapshot(m) ==
    /\ spf' = spf \ {<<m.f, m.s>>}
    /\ snap' = [snap EXCEPT ![m.s] = None]

\* One message is written. Where that fails both tables stay as they are; but a removal
\* goes on to SNAPSHOTS, and commits it, when SNAPS_PER_FUNC is what failed.
Write ==
    /\ Up
    /\ q # <<>>
    /\ q' = Tail(q)
    /\ LET m == Head(q)
       IN  \/ m.op = "new" /\ db_new_snapshot(m) /\ UNCHANGED failed
           \/ m.op = "removed" /\ db_rm_snapshot(m) /\ UNCHANGED failed
           \/ Fails(m.s) /\ UNCHANGED tables
           \/ m.op = "removed" /\ Fails(m.s) /\ RemovedStateOnly(m)
    /\ UNCHANGED <<phase, retain, reg, files, box, keys, todo, mv, stale, used>>

(***************************************************************************)
(* Shutdown: every Worker has ended, the SnapshotManager still runs.       *)
(***************************************************************************)

\* The snapshots that the reconciliation will write while the removal that an earlier
\* Function's sandbox of that ID was announced with is still queued: what that removal
\* then takes from SNAPSHOTS is the row just written. (Of the same Function, the announcement
\* of the snapshot is queued behind the removal, and writes both rows anew.)
Crossed ==
    {s \in Sids : box[s] # Free
        /\ \E i \in 1..Len(q) : q[i].op = "removed" /\ q[i].s = s /\ q[i].f # box[s].f}

\* The writing thread may be behind by any number of messages.
Stop ==
    /\ phase = "run"
    /\ \A s \in Sids : box[s].at # "busy"
    /\ \/ retain /\ phase' = "sync" /\ todo' = spf /\ stale' = stale \cup Crossed
       \/ ~retain /\ phase' = "wipe" /\ UNCHANGED <<todo, stale>>
    /\ UNCHANGED <<retain, reg, tables, files, box, keys, q, mv, failed, used>>

\* destroy_orphan_sandbox, on a snapshot the Pool tracks. Nobody tells the
\* SnapshotManager: the tables are wiped afterwards, if the server gets there.
DestroyOrphan(s) ==
    /\ phase = "wipe"
    /\ box[s].at = "parked"
    /\ box[s].f \in reg
    /\ \/ files' = Unlinked(s, box[s].row) /\ UNCHANGED failed
       \/ Fails(s) /\ UNCHANGED files
    /\ box' = [box EXCEPT ![s] = Free]
    /\ stale' = stale \cup {s}
    /\ UNCHANGED <<phase, retain, reg, tables, keys, todo, q, mv, used>>

\* The process is gone, and with it what was in memory and the messages not written yet;
\* an ID whose removal is lost counts as failed on.
Dies ==
    /\ phase' = "down"
    /\ box' = [s \in Sids |-> Free]
    /\ keys' = {}
    /\ todo' = {}
    /\ q' = <<>>
    /\ failed' = failed
                 \cup {q[i].s : i \in {j \in 1..Len(q) : q[j].op = "removed"}}
    /\ UNCHANGED <<retain, reg, tables, files, mv, stale, used>>

\* registered_function expects the Function in the store: the Pool's task
\* panics when it has been deregistered, and a panic aborts the process.
PoolPanics ==
    /\ phase = "wipe"
    /\ \E s \in Sids : box[s].at = "parked" /\ box[s].f \notin reg
    /\ Dies

\* wipe_db_snapshots. A snapshot whose row is still on its way to the
\* writing thread is written after the tables were emptied.
wipe_db_snapshots ==
    /\ phase = "wipe"
    /\ \A s \in Sids : box[s].at # "parked"
    /\ spf' = {}
    /\ snap' = [s \in Sids |-> None]
    /\ stale' = {s \in Sids : \E i \in 1..Len(q) : q[i].op = "new" /\ q[i].s = s}
    /\ phase' = "drain"
    /\ UNCHANGED <<retain, reg, files, box, keys, todo, q, mv, failed, used>>

\* update_and_forget_tracked_snapshots: SNAPSHOTS with the states of what
\* the Pool tracks of f, and without those of the IDs in gone.
Updated(f, gone) ==
    [s \in Sids |-> IF s \in Tracked(f) THEN box[s].row
                    ELSE IF s \in gone THEN None
                    ELSE snap[s]]

\* ... which the Pool then tracks no longer.
Forgotten(f) ==
    [s \in Sids |-> IF s \in Tracked(f) THEN [box[s] EXCEPT !.at = "kept"] ELSE box[s]]

\* The IDs in gone that SNAPS_PER_FUNC goes on listing, without a state and with no removal
\* on the way: rows passed over at start-up of a Function registered again since.
OnlyListed(f, gone) == {s \in gone : f \in keys /\ ~GoneSoon(s)}

\* The reconciliation that takes every other row for stale (mutant).
SyncAllGone(f) ==
    LET gone == Sids \ Tracked(f)
    IN  /\ phase = "sync"
        /\ SidsOf(f, todo) # {}
        /\ snap' = Updated(f, gone)
        /\ spf' = spf
        /\ files' = files
        /\ box' = Forgotten(f)
        /\ keys' = keys \ {f}
        /\ stale' = stale \cup OnlyListed(f, gone)
        /\ todo' = {r \in todo : r[1] # f}
        /\ UNCHANGED <<phase, retain, reg, q, mv, failed, used>>

\* The IDs that can be reinstated are, and their sandboxes destroyed with their files, as
\* far as that works.
reinstate_and_destroy_db_snapshots(f, gone) ==
    \E ok \in SUBSET {s \in gone : f \in reg /\ box[s] = Free /\ snap[s] # None} :
        files' = [x \in Slots |->
            IF \E s \in ok : x \in FilesOf(s, snap[s]) THEN None ELSE files[x]]

remove_db_sids(f, sids) == spf \ {<<f, s>> : s \in sids}
update_db_sids(f, sids) == spf \cup {<<f, s>> : s \in sids}

\* sync_db_snapshots, one write transaction per Function the table listed:
\* SNAPSHOTS gets the states of what the Pool tracks; the other IDs listed
\* are reinstated and destroyed where that works, and leave SNAPSHOTS. They
\* leave SNAPS_PER_FUNC only if the Pool has no entry for the Function.
SyncListed(f) ==
    LET gone == SidsOf(f, todo) \ Tracked(f)
    IN  /\ phase = "sync"
        /\ SidsOf(f, todo) # {}
        /\ snap' = Updated(f, gone)
        /\ spf' = IF f \in keys THEN spf ELSE remove_db_sids(f, gone)
        /\ reinstate_and_destroy_db_snapshots(f, gone)
        /\ box' = Forgotten(f)
        /\ keys' = keys \ {f}
        /\ stale' = stale \cup OnlyListed(f, gone)
        /\ todo' = {r \in todo : r[1] # f}
        /\ UNCHANGED <<phase, retain, reg, q, mv, failed, used>>

\* ... then one per Function that is only tracked: both tables get its rows.
SyncUnlisted(f) ==
    /\ phase = "sync"
    /\ todo = {}
    /\ Tracked(f) # {}
    /\ spf' = update_db_sids(f, Tracked(f))
    /\ snap' = Updated(f, {})
    /\ box' = Forgotten(f)
    /\ UNCHANGED <<phase, retain, reg, files, keys, todo, q, mv, failed, stale, used>>

Synced ==
    /\ phase = "sync"
    /\ todo = {}
    /\ \A s \in Sids : box[s].at # "parked"
    /\ phase' = "drain"
    /\ UNCHANGED <<retain, reg, tables, files, box, keys, todo, q, mv, failed, stale, used>>

\* An error in a transaction ends the reconciliation where it is.
SyncFails ==
    /\ phase = "sync"
    /\ todo' = {}
    /\ phase' = "drain"
    /\ UNCHANGED <<retain, reg, tables, files, box, keys, q, mv, failed, stale, used>>

\* The Pool has ended: the SnapshotManager drains its channel, the writing
\* thread its own, and the process ends.
Ended ==
    /\ phase = "drain"
    /\ q = <<>>
    /\ phase' = "down"
    /\ box' = [s \in Sids |-> Free]
    /\ keys' = {}
    /\ todo' = {}
    /\ UNCHANGED <<retain, reg, tables, files, q, mv, failed, stale, used>>

\* The server is killed.
Crash ==
    /\ Up
    /\ Dies

(***************************************************************************)
(* faasctl snapshots: the tools open the database, so the server is down.  *)
(***************************************************************************)

Listed(s) == \E f \in Functions : <<f, s>> \in spf /\ snap[s] # None

\* copy_for_huge_dax_atomic: written aside, synced and renamed, so the target
\* appears complete or not at all.
copy_for_huge_dax_atomic(src, dst) == [files EXCEPT ![dst] = files[src]]

\* mv, for one file: the source is the file the table names, the target
\* does not exist.
MvCopy(s, k, d) ==
    /\ phase = "down"
    /\ mv[<<s, k>>] = Idle
    /\ Listed(s)
    /\ files[<<s, k, snap[s][k]>>] # None
    /\ files[<<s, k, d>>] = None
    /\ used.moves < MaxMoves
    /\ used' = [used EXCEPT !.moves = @ + 1]
    /\ files' = copy_for_huge_dax_atomic(<<s, k, snap[s][k]>>, <<s, k, d>>)
    /\ mv' = [mv EXCEPT ![<<s, k>>] = [at |-> "copied", src |-> snap[s][k], dst |-> d]]
    /\ UNCHANGED <<phase, retain, reg, tables, box, keys, todo, q, failed, stale>>

\* The move that removes its source before the table names the copy (mutant).
MvRemoveFirst(s, k) ==
    /\ mv[<<s, k>>].at = "copied"
    /\ files' = [files EXCEPT ![<<s, k, mv[<<s, k>>].src>>] = None]
    /\ snap' = snap
    /\ mv' = [mv EXCEPT ![<<s, k>>].at = "updated"]
    /\ UNCHANGED <<phase, retain, reg, spf, box, keys, todo, q, failed, stale, used>>

\* update_db: the row names the copy, in one transaction.
MvUpdate(s, k) ==
    /\ mv[<<s, k>>].at = "copied"
    /\ snap' = [snap EXCEPT ![s][k] = mv[<<s, k>>].dst]
    /\ mv' = [mv EXCEPT ![<<s, k>>].at = "updated"]
    /\ UNCHANGED <<phase, retain, reg, spf, files, box, keys, todo, q, failed, stale, used>>

\* The source goes, unless --no-rm was given or its removal fails.
MvRemove(s, k) ==
    /\ mv[<<s, k>>].at = "updated"
    /\ \/ files' = [files EXCEPT ![<<s, k, mv[<<s, k>>].src>>] = None]
       \/ UNCHANGED files
    /\ mv' = [mv EXCEPT ![<<s, k>>] = Idle]
    /\ UNCHANGED <<phase, retain, reg, tables, box, keys, todo, q, failed, stale, used>>

Moving == {x \in Sids \X Kinds : mv[x] # Idle}

\* A step fails: the move of that file ends, the others go on.  Or the tool is
\* interrupted, and all of them end.
MvDies ==
    /\ \E S \in {{x} : x \in Moving} \cup {Moving} :
          S # {} /\ mv' = [x \in Sids \X Kinds |-> IF x \in S THEN Idle ELSE mv[x]]
    /\ UNCHANGED <<phase, retain, reg, tables, files, box, keys, todo, q, failed, stale, used>>

\* forget: the Function's rows go, the files stay.
forget(f) ==
    /\ phase = "down"
    /\ \A x \in Sids \X Kinds : mv[x] = Idle
    /\ SidsOf(f, spf) # {}
    /\ snap' = [s \in Sids |-> IF <<f, s>> \in spf THEN None ELSE snap[s]]
    /\ spf' = {r \in spf : r[1] # f}
    /\ UNCHANGED <<phase, retain, reg, files, box, keys, todo, q, mv, failed, stale, used>>

\* sync --fix: the rows whose files are not all there go, in one transaction.
incomplete_snapshots ==
    {s \in Sids : Listed(s) /\ \E x \in FilesOf(s, snap[s]) : files[x] = None}

sync_fix ==
    /\ phase = "down"
    /\ \A x \in Sids \X Kinds : mv[x] = Idle
    /\ incomplete_snapshots # {}
    /\ spf' = {r \in spf : r[2] \notin incomplete_snapshots}
    /\ snap' = [s \in Sids |-> IF s \in incomplete_snapshots THEN None ELSE snap[s]]
    /\ UNCHANGED <<phase, retain, reg, files, box, keys, todo, q, mv, failed, stale, used>>

Next ==
    \/ Start \/ StartFails \/ Started
    \/ \E f \in Functions, s \in Sids : Reinstate(f, s) \/ NotReinstated(f, s) \/ Create(f, s)
    \/ \E f \in Functions : Register(f) \/ Deregister(f)
    \/ \E s \in Sids : Snapshot(s) \/ Park(s) \/ Take(s) \/ Destroy(s) \/ Trash(s)
    \/ Write
    \/ Stop \/ PoolPanics \/ wipe_db_snapshots \/ Synced \/ SyncFails \/ Ended
    \/ \E s \in Sids : DestroyOrphan(s)
    \/ \E f \in Functions : SyncListed(f) \/ SyncUnlisted(f) \/ forget(f)
    \/ Crash
    \/ \E s \in Sids, k \in Kinds : MvUpdate(s, k) \/ MvRemove(s, k)
    \/ \E s \in Sids, k \in Kinds, d \in Devices : MvCopy(s, k, d)
    \/ MvDies \/ sync_fix

Spec == Init /\ [][Next]_vars

(***************************************************************************)
(* Properties. All are about Sound IDs: no operation failed on them, and   *)
(* none of these made their rows another sandbox's: the ID reused while a  *)
(* row passed over at start-up lists it (Create), the removal of another   *)
(* Function's snapshot behind the reconciliation (Crossed), a row without  *)
(* its state (OnlyListed), a wipe cut short or overtaken by a late message *)
(* (DestroyOrphan, wipe_db_snapshots).                                     *)
(***************************************************************************)

\* What SNAPS_PER_FUNC lists can be loaded: SNAPSHOTS has its state and both
\* files are where the state says, through reuse of IDs, a writing thread that
\* lags, deregistrations, reconciliation or wipe at shutdown, crashes, and
\* interruption of `snapshots mv` between any two of its steps.
RowsHaveFiles ==
    \A r \in spf :
        r[2] \in Sound /\ ~GoneSoon(r[2]) =>
            /\ snap[r[2]] # None
            /\ \A x \in FilesOf(r[2], snap[r[2]]) : files[x] # None

\* A sandbox restored from a snapshot holds the VM of its own Function: no
\* interleaving of the writing thread, ID reuse, restarts and tools makes
\* the Pool reinstate one Function's snapshot as another's.
SnapshotForItsFunction ==
    \A s \in Sound :
        box[s].row # None =>
            \A x \in FilesOf(s, box[s].row) : files[x] \in {box[s].f, None}

\* What the Pool kept when it shut down will be reinstated: once the writing
\* thread has drained, however far it was behind, both tables list it where it
\* is, even if the reconciliation was cut short by an error.
KeptAcrossRestart ==
    retain /\ phase = "drain" /\ q = <<>> =>
        \A s \in Sound :
            box[s].at \in {"parked", "kept"} =>
                <<box[s].f, s>> \in spf /\ snap[s] = box[s].row
=============================================================================
