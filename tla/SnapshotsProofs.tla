--------------------------- MODULE SnapshotsProofs ---------------------------
(***************************************************************************)
(* Proofs about the life of a snapshot outside its Worker, for any number  *)
(* of Functions, IDs, devices, restarts, moves and failed operations,      *)
(* however far the writing thread is behind.                               *)
(***************************************************************************)
EXTENDS Snapshots, TLAPS, WellFoundedInduction

(***************************************************************************)
(* The inductive invariant.                                                *)
(***************************************************************************)

Option(S) == S \cup {None}

Typed ==
    /\ phase \in {"down", "boot", "run", "sync", "wipe", "drain"}
    /\ retain \in BOOLEAN
    /\ reg \subseteq Functions /\ keys \subseteq Functions
    /\ spf \subseteq Functions \X Sids /\ todo \subseteq Functions \X Sids
    /\ snap \in [Sids -> Option(Rows)]
    /\ files \in [Slots -> Option(Functions)]
    /\ box \in [Sids -> [at : {"free", "busy", "parked", "kept", "trashed"},
                         f : Option(Functions), row : Option(Rows)]]
    /\ q \in Seq(SnapshotManagerMessage)
    /\ mv \in [Sids \X Kinds -> [at : {"idle", "copied", "updated"},
                                 src : Option(Devices), dst : Option(Devices)]]
    /\ failed \subseteq Sids /\ stale \subseteq Sids

\* What a phase says of the rest: only a running server has sandboxes and messages, only one
\* that retains snapshots reconciles them, and only a tool moves files.
PhaseAt ==
    /\ phase = "down" => todo = {} /\ \A s \in Sids : box[s] = Free
    /\ phase \in {"down", "boot"} => q = <<>>
    /\ phase = "boot" /\ ~retain => todo = {}
    /\ phase = "sync" => retain
    /\ phase = "wipe" => ~retain
    /\ phase # "down" => \A x \in Sids \X Kinds : mv[x] = Idle

\* The sandbox of an ID.
BoxAt ==
    \A s \in Sids :
        /\ box[s].at = "free" => box[s] = Free
        /\ box[s].at # "free" => box[s].f \in Functions
        /\ box[s].at \in {"parked", "kept"} => box[s].row # None
        /\ box[s].at = "busy" => phase = "run" /\ box[s].f \in reg
        /\ box[s].at = "kept" => phase \in {"sync", "drain"}
        /\ box[s].at = "trashed" => s \in failed

\* The files that a sandbox names hold its own VM.
FilesAt ==
    \A s \in Sound :
        box[s].row # None => \A x \in FilesOf(s, box[s].row) : files[x] = box[s].f

\* The messages about one ID: the first, the last, and two with none between.
Of(i, s) == i \in 1..Len(q) /\ q[i].s = s
FirstOf(i, s) == Of(i, s) /\ \A j \in 1..Len(q) : j < i => q[j].s # s
LastOf(i, s) == Of(i, s) /\ \A j \in 1..Len(q) : i < j => q[j].s # s
NextOf(i, j, s) ==
    Of(i, s) /\ Of(j, s) /\ i < j /\ \A k \in 1..Len(q) : i < k /\ k < j => q[k].s # s

\* A snapshot that is announced is the sandbox's, or its removal comes next; what is announced
\* as removed is the sandbox's no more.
QueueAt ==
    \A s \in Sound, i \in 1..Len(q) :
        /\ LastOf(i, s) =>
             IF q[i].op = "new" THEN box[s].f = q[i].f /\ box[s].row = q[i].row ELSE box[s].row = None
        /\ Of(i, s) /\ q[i].op = "new" /\ ~LastOf(i, s) =>
             \E j \in 1..Len(q) : NextOf(i, j, s) /\ q[j].op = "removed" /\ q[j].f = q[i].f

\* The snapshot that SNAPSHOTS has for s is complete and of Function f.
Loads(f, s) == snap[s] # None /\ \A x \in FilesOf(s, snap[s]) : files[x] = f

\* What SNAPS_PER_FUNC lists: on disk a snapshot of that very Function; in a server that runs
\* the sandbox that the Pool has under that ID, or the snapshot still where the ID is free,
\* unless its removal is on the way.
Shown(f, s) ==
    \/ box[s].f = f /\ box[s].row = snap[s] /\ snap[s] # None
    \/ box[s] = Free /\ Loads(f, s)

RowsAt ==
    \A f \in Functions, s \in Sound : <<f, s>> \in spf =>
        /\ phase \in {"down", "boot"} => Loads(f, s)
        /\ phase = "boot" \/ (Up /\ ~GoneSoon(s)) => Shown(f, s)
        /\ \A i \in 1..Len(q) : FirstOf(i, s) => q[i].f = f

\* A sandbox with a snapshot is listed, or will be.
KeptAt ==
    \A s \in Sound : box[s].row # None /\ ~GoneSoon(s) =>
        \/ <<box[s].f, s>> \in spf
        \/ \E i \in 1..Len(q) : Of(i, s) /\ q[i].op = "new" /\ q[i].f = box[s].f

\* The rows that the Pool read: at start-up they are there still; at shutdown, what it tracks
\* under such an ID is of that Function, and so is what is still listed under it. A removal
\* that is on the way while it writes what it tracks is of the same Function.
TodoAt ==
    /\ phase = "boot" => todo \subseteq spf
    /\ phase \in {"sync", "drain"} /\ retain => \A s \in Sound, i \in 1..Len(q) :
         Of(i, s) /\ q[i].op = "removed" /\ box[s] # Free => q[i].f = box[s].f
    /\ phase = "sync" => \A f \in Functions, s \in Sound : <<f, s>> \in todo =>
         /\ box[s].row # None => box[s].at = "parked" /\ box[s].f = f
         /\ ~GoneSoon(s) => \A g \in Functions : <<g, s>> \in spf => g = f

\* A move that is under way: the row names the source until the copy is complete, and then
\* the copy.
Move(s, k, m) ==
    /\ m.at # "idle" => snap[s] # None /\ m.src \in Devices /\ m.dst \in Devices /\ m.src # m.dst
    /\ m.at = "copied" => snap[s][k] = m.src /\ files[<<s, k, m.dst>>] = files[<<s, k, m.src>>]
    /\ m.at = "updated" => snap[s][k] = m.dst

MoveAt == \A s \in Sids, k \in Kinds : Move(s, k, mv[<<s, k>>])

SInv ==
    /\ Typed /\ PhaseAt /\ BoxAt /\ FilesAt
    /\ QueueAt /\ RowsAt /\ KeptAt /\ TodoAt /\ MoveAt

-----------------------------------------------------------------------------
USE DEF Option, Free, Idle, Kinds, Up, tables, Sound

LEMMA FilesOfFacts ==
    ASSUME NEW s \in Sids, NEW row \in Rows
    PROVE  /\ FilesOf(s, row) = {<<s, "state", row.state>>, <<s, "memory", row.memory>>}
           /\ FilesOf(s, row) \subseteq Slots
           /\ \A x \in FilesOf(s, row) : x[1] = s
  BY DEF FilesOf, Rows, Slots

LEMMA QueryFacts ==
    ASSUME NEW f \in Functions, NEW row \in query_paths(f) PROVE row \in Rows
<1>1. Dest[f] \in Devices \cup Destinations
  BY SnapshotsAssumption
<1>2. query_path(f) \in Devices \cup {None}
  BY <1>1, SnapshotsAssumption DEF query_path, Destinations
<1>3. PICK d \in {query_path(f)} \ {None} : row = [state |-> d, memory |-> d]
  BY DEF query_paths
<1>. QED BY <1>2, <1>3 DEF Rows

(***************************************************************************)
(* The messages under way.                                                 *)
(***************************************************************************)

\* What is said of the messages stays true while there is no new one and none is read.
LEMMA QueueFrame ==
    ASSUME UNCHANGED q
    PROVE  /\ \A s : GoneSoon(s)' <=> GoneSoon(s)
           /\ \A i, s : Of(i, s)' <=> Of(i, s)
           /\ \A i, s : FirstOf(i, s)' <=> FirstOf(i, s)
           /\ \A i, s : LastOf(i, s)' <=> LastOf(i, s)
           /\ \A i, j, s : NextOf(i, j, s)' <=> NextOf(i, j, s)
  BY DEF GoneSoon, Of, FirstOf, LastOf, NextOf

LEMMA LoadsFrame ==
    ASSUME UNCHANGED <<snap, files>> PROVE \A f, s : Loads(f, s)' <=> Loads(f, s)
  BY DEF Loads, FilesOf

LEMMA MoveFrame ==
    ASSUME MoveAt, UNCHANGED <<snap, files, mv>> PROVE MoveAt'
<1>. SUFFICES ASSUME NEW s \in Sids, NEW k \in Kinds PROVE Move(s, k, mv[<<s, k>>])'
  BY DEF MoveAt
<1>1. Move(s, k, mv[<<s, k>>])
  BY DEF MoveAt
<1>. QED BY <1>1 DEF Move

LEMMA NoMessage ==
    ASSUME q = <<>>
    PROVE  /\ Len(q) = 0 /\ 1..Len(q) = {}
           /\ \A s : ~GoneSoon(s)
           /\ \A i, s : ~Of(i, s) /\ ~FirstOf(i, s) /\ ~LastOf(i, s)
  BY DEF GoneSoon, Of, FirstOf, LastOf

\* A message is queued behind the others.
LEMMA AppendFacts ==
    ASSUME q \in Seq(SnapshotManagerMessage), NEW m \in SnapshotManagerMessage, q' = Append(q, m)
    PROVE  /\ q' \in Seq(SnapshotManagerMessage)
           /\ Len(q) \in Nat /\ Len(q') = Len(q) + 1 /\ q'[Len(q)+1] = m
           /\ \A i \in 1..Len(q) : q'[i] = q[i]
           /\ \A s : GoneSoon(s)' <=> GoneSoon(s) \/ (m.op = "removed" /\ m.s = s)
           /\ \A i, s : FirstOf(i, s)' => (FirstOf(i, s) /\ q'[i] = q[i])
                           \/ (i = Len(q) + 1 /\ m.s = s /\ \A j \in 1..Len(q) : q[j].s # s)
           /\ \A i, s : LastOf(i, s)' => (s # m.s /\ LastOf(i, s) /\ q'[i] = q[i])
                           \/ (s = m.s /\ i = Len(q) + 1)
           /\ \A i, s : LastOf(i, s) /\ s # m.s => LastOf(i, s)'
           /\ \A i, j, s : LastOf(i, s) /\ s = m.s /\ j = Len(q) + 1 => NextOf(i, j, s)'
           /\ \A i, j, s : NextOf(i, j, s) => NextOf(i, j, s)'
<1>1. Len(q) \in Nat /\ Len(q') = Len(q) + 1 /\ q'[Len(q)+1] = m /\ \A i \in 1..Len(q) : q'[i] = q[i]
  OBVIOUS
<1>2. q' \in Seq(SnapshotManagerMessage)
  OBVIOUS
<1>3. \A s : GoneSoon(s)' <=> GoneSoon(s) \/ (m.op = "removed" /\ m.s = s)
  BY <1>1 DEF GoneSoon
<1>4. \A i, s : Of(i, s)' <=> (Of(i, s) /\ q'[i] = q[i] /\ i # Len(q) + 1) \/ (i = Len(q) + 1 /\ m.s = s)
  BY <1>1 DEF Of
<1>5. \A i, s : FirstOf(i, s)' => (FirstOf(i, s) /\ q'[i] = q[i])
                   \/ (i = Len(q) + 1 /\ m.s = s /\ \A j \in 1..Len(q) : q[j].s # s)
  <2>. SUFFICES ASSUME NEW i, NEW s, FirstOf(i, s)'
                PROVE  \/ FirstOf(i, s) /\ q'[i] = q[i]
                       \/ i = Len(q) + 1 /\ m.s = s /\ \A j \in 1..Len(q) : q[j].s # s
    OBVIOUS
  <2>1. Of(i, s)' /\ \A j \in 1..(Len(q) + 1) : j < i => q'[j].s # s
    BY <1>1 DEF FirstOf
  <2>2. CASE i = Len(q) + 1
    BY <1>1, <1>4, <2>1, <2>2
  <2>3. CASE i # Len(q) + 1
    <3>1. Of(i, s) /\ q'[i] = q[i] /\ i \in 1..Len(q)
      BY <1>4, <2>1, <2>3 DEF Of
    <3>2. ASSUME NEW j \in 1..Len(q), j < i PROVE q[j].s # s
      <4>1. q'[j] = q[j] /\ j \in 1..(Len(q) + 1)
        BY <1>1
      <4>. QED BY <2>1, <3>2, <4>1
    <3>. QED BY <3>1, <3>2 DEF FirstOf
  <2>. QED BY <2>2, <2>3
<1>6. \A i, s : LastOf(i, s)' => (s # m.s /\ LastOf(i, s) /\ q'[i] = q[i]) \/ (s = m.s /\ i = Len(q) + 1)
  BY <1>1, <1>4 DEF LastOf, Of
<1>7. \A i, s : LastOf(i, s) /\ s # m.s => LastOf(i, s)'
  <2>. SUFFICES ASSUME NEW i, NEW s, LastOf(i, s), s # m.s PROVE LastOf(i, s)'
    OBVIOUS
  <2>1. i \in 1..Len(q) /\ q[i].s = s /\ \A j \in 1..Len(q) : i < j => q[j].s # s
    BY DEF LastOf, Of
  <2>2. i \in 1..Len(q') /\ q'[i].s = s
    BY <1>1, <2>1
  <2>3. ASSUME NEW j \in 1..Len(q'), i < j PROVE q'[j].s # s
    <3>1. CASE j = Len(q) + 1
      BY <1>1, <3>1
    <3>2. CASE j \in 1..Len(q)
      BY <1>1, <2>1, <2>3, <3>2
    <3>. QED BY <1>1, <3>1, <3>2
  <2>. QED BY <2>2, <2>3 DEF LastOf, Of
<1>8. \A i, j, s : LastOf(i, s) /\ s = m.s /\ j = Len(q) + 1 => NextOf(i, j, s)'
  <2>. SUFFICES ASSUME NEW i, NEW j, NEW s, LastOf(i, s), s = m.s, j = Len(q) + 1 PROVE NextOf(i, j, s)'
    OBVIOUS
  <2>1. i \in 1..Len(q) /\ q[i].s = s /\ \A k \in 1..Len(q) : i < k => q[k].s # s
    BY DEF LastOf, Of
  <2>2. i \in 1..Len(q') /\ q'[i].s = s /\ j \in 1..Len(q') /\ q'[j].s = s /\ i < j
    BY <1>1, <2>1
  <2>3. ASSUME NEW k \in 1..Len(q'), i < k, k < j PROVE q'[k].s # s
    <3>1. k \in 1..Len(q)
      BY <1>1, <2>3
    <3>. QED BY <1>1, <2>1, <2>3, <3>1
  <2>. QED BY <2>2, <2>3 DEF NextOf, Of
<1>9. \A i, j, s : NextOf(i, j, s) => NextOf(i, j, s)'
  BY <1>1 DEF NextOf, Of
<1>. QED BY <1>1, <1>2, <1>3, <1>5, <1>6, <1>7, <1>8, <1>9

\* The writing thread takes the first message.
LEMMA TailFacts ==
    ASSUME q \in Seq(SnapshotManagerMessage), q # <<>>, q' = Tail(q)
    PROVE  /\ q' \in Seq(SnapshotManagerMessage)
           /\ Head(q) = q[1] /\ 1 \in 1..Len(q) /\ q[1] \in SnapshotManagerMessage
           /\ \A i \in 1..Len(q') : q'[i] = q[i+1] /\ i+1 \in 1..Len(q)
           /\ \A s : GoneSoon(s) <=> GoneSoon(s)' \/ (q[1].op = "removed" /\ q[1].s = s)
           /\ \A s : q[1].s = s => FirstOf(1, s)
           /\ \A i, s : FirstOf(i, s)' => IF q[1].s = s THEN NextOf(1, i+1, s) ELSE FirstOf(i+1, s)
           /\ \A i, s : LastOf(i, s)' => LastOf(i+1, s)
           /\ \A i \in 1..Len(q') : \A s : LastOf(i+1, s) => LastOf(i, s)'
           /\ \A i \in 1..Len(q') : \A j, s : NextOf(i+1, j, s) => j-1 \in 1..Len(q') /\ NextOf(i, j-1, s)'
           /\ \A s : (\A i \in 1..Len(q') : ~Of(i, s)') /\ q[1].s = s => LastOf(1, s)
<1>1. /\ q' \in Seq(SnapshotManagerMessage) /\ Len(q) \in Nat /\ Len(q) > 0 /\ Len(q') = Len(q) - 1
      /\ Head(q) = q[1] /\ 1 \in 1..Len(q) /\ q[1] \in SnapshotManagerMessage
      /\ \A i \in 1..Len(q') : q'[i] = q[i+1] /\ i+1 \in 1..Len(q)
  OBVIOUS
<1>2. \A i \in 1..Len(q) : i = 1 \/ (i-1 \in 1..Len(q') /\ q[i] = q'[i-1] /\ i = (i-1)+1)
  BY <1>1
<1>3. \A s : GoneSoon(s) <=> GoneSoon(s)' \/ (q[1].op = "removed" /\ q[1].s = s)
  <2>1. ASSUME NEW s, GoneSoon(s)' PROVE GoneSoon(s)
    <3>1. PICK i \in 1..Len(q') : q'[i].op = "removed" /\ q'[i].s = s
      BY <2>1 DEF GoneSoon
    <3>. QED BY <1>1, <3>1 DEF GoneSoon
  <2>2. ASSUME NEW s, GoneSoon(s) PROVE GoneSoon(s)' \/ (q[1].op = "removed" /\ q[1].s = s)
    <3>1. PICK i \in 1..Len(q) : q[i].op = "removed" /\ q[i].s = s
      BY <2>2 DEF GoneSoon
    <3>2. CASE i = 1
      BY <3>1, <3>2
    <3>3. CASE i # 1
      BY <1>2, <3>1, <3>3 DEF GoneSoon
    <3>. QED BY <3>2, <3>3
  <2>. QED BY <1>1, <2>1, <2>2 DEF GoneSoon
<1>4. \A s : q[1].s = s => FirstOf(1, s)
  BY <1>1 DEF FirstOf, Of
<1>5. \A i, s : FirstOf(i, s)' => IF q[1].s = s THEN NextOf(1, i+1, s) ELSE FirstOf(i+1, s)
  <2>. SUFFICES ASSUME NEW i, NEW s, FirstOf(i, s)'
                PROVE  IF q[1].s = s THEN NextOf(1, i+1, s) ELSE FirstOf(i+1, s)
    OBVIOUS
  <2>1. i \in 1..Len(q') /\ q'[i].s = s /\ \A j \in 1..Len(q') : j < i => q'[j].s # s
    BY DEF FirstOf, Of
  <2>2. i+1 \in 1..Len(q) /\ q[i+1].s = s /\ 1 < i+1
    BY <1>1, <2>1
  <2>3. ASSUME NEW k \in 1..Len(q), 1 < k, k < i+1 PROVE q[k].s # s
    <3>1. k-1 \in 1..Len(q') /\ q[k] = q'[k-1] /\ k-1 < i
      BY <1>1, <1>2, <2>1, <2>3
    <3>. QED BY <2>1, <3>1
  <2>4. CASE q[1].s = s
    BY <1>1, <2>2, <2>3, <2>4 DEF NextOf, Of
  <2>5. CASE q[1].s # s
    <3>1. \A k \in 1..Len(q) : k < i+1 => q[k].s # s
      BY <1>1, <2>3, <2>5
    <3>. QED BY <2>2, <2>5, <3>1 DEF FirstOf, Of
  <2>. QED BY <2>4, <2>5
<1>6. \A i, s : LastOf(i, s)' => LastOf(i+1, s)
  <2>. SUFFICES ASSUME NEW i, NEW s, LastOf(i, s)' PROVE LastOf(i+1, s)
    OBVIOUS
  <2>1. i \in 1..Len(q') /\ q'[i].s = s /\ \A j \in 1..Len(q') : i < j => q'[j].s # s
    BY DEF LastOf, Of
  <2>2. i+1 \in 1..Len(q) /\ q[i+1].s = s
    BY <1>1, <2>1
  <2>3. ASSUME NEW k \in 1..Len(q), i+1 < k PROVE q[k].s # s
    <3>1. k-1 \in 1..Len(q') /\ q[k] = q'[k-1] /\ i < k-1
      BY <1>1, <1>2, <2>1, <2>3
    <3>. QED BY <2>1, <3>1
  <2>. QED BY <2>2, <2>3 DEF LastOf, Of
<1>7. \A i \in 1..Len(q') : \A s : LastOf(i+1, s) => LastOf(i, s)'
  BY <1>1, <1>2 DEF LastOf, Of
<1>8. \A i \in 1..Len(q') : \A j, s : NextOf(i+1, j, s) => j-1 \in 1..Len(q') /\ NextOf(i, j-1, s)'
  <2>. SUFFICES ASSUME NEW i \in 1..Len(q'), NEW j, NEW s, NextOf(i+1, j, s)
                PROVE  j-1 \in 1..Len(q') /\ NextOf(i, j-1, s)'
    OBVIOUS
  <2>1. /\ q[i+1].s = s /\ j \in 1..Len(q) /\ q[j].s = s /\ i+1 < j
        /\ \A k \in 1..Len(q) : i+1 < k /\ k < j => q[k].s # s
    BY DEF NextOf, Of
  <2>2. j-1 \in 1..Len(q') /\ q[j] = q'[j-1] /\ i < j-1 /\ q'[i] = q[i+1]
    BY <1>1, <1>2, <2>1
  <2>3. ASSUME NEW k \in 1..Len(q'), i < k, k < j-1 PROVE q'[k].s # s
    <3>1. q'[k] = q[k+1] /\ k+1 \in 1..Len(q) /\ i+1 < k+1 /\ k+1 < j
      BY <1>1, <2>1, <2>3
    <3>. QED BY <2>1, <3>1
  <2>. QED BY <2>1, <2>2, <2>3 DEF NextOf, Of
<1>9. \A s : (\A i \in 1..Len(q') : ~Of(i, s)') /\ q[1].s = s => LastOf(1, s)
  <2>. SUFFICES ASSUME NEW s, \A i \in 1..Len(q') : ~Of(i, s)', q[1].s = s PROVE LastOf(1, s)
    OBVIOUS
  <2>1. \A i \in 1..Len(q') : q'[i].s # s
    BY DEF Of
  <2>2. ASSUME NEW k \in 1..Len(q), 1 < k PROVE q[k].s # s
    <3>1. k-1 \in 1..Len(q') /\ q[k] = q'[k-1]
      BY <1>2, <2>2
    <3>. QED BY <2>1, <3>1
  <2>. QED BY <1>1, <2>2 DEF LastOf, Of
<1>. QED BY <1>1, <1>3, <1>4, <1>5, <1>6, <1>7, <1>8, <1>9

\* Where no removal is on the way, at most one message is: the sandbox's snapshot is announced.
LEMMA SoleMessage ==
    ASSUME Typed, QueueAt, NEW s \in Sound, ~GoneSoon(s), NEW i \in 1..Len(q), Of(i, s)
    PROVE  q[i].op = "new" /\ LastOf(i, s) /\ box[s].f = q[i].f /\ box[s].row = q[i].row
<1>1. q[i].op \in {"new", "removed"}
  BY DEF Typed, SnapshotManagerMessage
<1>2. q[i].op = "new"
  BY <1>1 DEF GoneSoon, Of
<1>3. LastOf(i, s)
  BY <1>2 DEF QueueAt, GoneSoon, NextOf, Of
<1>. QED BY <1>2, <1>3 DEF QueueAt

\* Of the messages about an ID one is the first.
LEMMA FirstExists ==
    ASSUME q \in Seq(SnapshotManagerMessage), NEW s, GoneSoon(s) PROVE \E i \in 1..Len(q) : FirstOf(i, s)
<1>. DEFINE I == {i \in 1..Len(q) : q[i].s = s}
<1>1. I \subseteq Nat /\ I # {}
  BY DEF GoneSoon
<1>. DEFINE R == OpToRel(<, Nat)
<1>2. IsWellFoundedOn(R, Nat)
  BY NatLessThanWellFounded
<1>3. \A x, y \in Nat : y < x => <<y, x>> \in R
  BY DEF OpToRel
<1>. HIDE DEF R, I
<1>4. PICK i \in I : \A j \in I : ~ (<<j, i>> \in R)
  BY <1>1, <1>2, WFMin, Zenon
<1>5. i \in 1..Len(q) /\ q[i].s = s
  BY DEF I
<1>6. ASSUME NEW j \in 1..Len(q), j < i PROVE q[j].s # s
  <2>1. <<j, i>> \in R
    BY <1>3, <1>5, <1>6
  <2>. QED BY <1>4, <2>1 DEF I
<1>. QED BY <1>5, <1>6 DEF FirstOf, Of

\* Where the removals on the way are of the sandbox's own Function, so is the first message.
LEMMA OwnMessages ==
    ASSUME Typed, QueueAt, NEW s \in Sound, box[s].row # None,
           \A i \in 1..Len(q) : Of(i, s) /\ q[i].op = "removed" => q[i].f = box[s].f
    PROVE  \A i \in 1..Len(q) : FirstOf(i, s) => q[i].f = box[s].f
<1>. SUFFICES ASSUME NEW i \in 1..Len(q), Of(i, s) PROVE q[i].f = box[s].f
  BY DEF FirstOf
<1>1. q[i].op \in {"new", "removed"}
  BY DEF Typed, SnapshotManagerMessage
<1>2. CASE q[i].op = "new" /\ LastOf(i, s)
  BY <1>2 DEF QueueAt
<1>3. CASE q[i].op = "new" /\ ~LastOf(i, s)
  <2>1. PICK j \in 1..Len(q) : NextOf(i, j, s) /\ q[j].op = "removed" /\ q[j].f = q[i].f
    BY <1>3 DEF QueueAt
  <2>. QED BY <2>1 DEF NextOf
<1>. QED BY <1>1, <1>2, <1>3

-----------------------------------------------------------------------------
\* Sandboxes that keep their Function and their row, in a server that serves.
LEMMA SameBoxes ==
    ASSUME SInv, phase = "run", UNCHANGED <<phase, retain, reg, tables, files, todo, q>>, failed \subseteq failed',
           UNCHANGED stale,
           \A s \in Sids : /\ box'[s].f = box[s].f /\ box'[s].row = box[s].row
                           /\ box[s] = Free => box'[s] = Free
    PROVE  FilesAt' /\ QueueAt' /\ RowsAt' /\ KeptAt'
<1>1. FilesAt'
  BY DEF SInv, FilesAt, FilesOf
<1>2. QueueAt'
  BY QueueFrame DEF SInv, QueueAt
<1>3. RowsAt'
  BY QueueFrame, LoadsFrame DEF SInv, RowsAt, Shown
<1>4. KeptAt'
  BY QueueFrame DEF SInv, KeptAt
<1>. QED BY <1>1, <1>2, <1>3, <1>4

\* Files of one ID change: those of another do not.
LEMMA Elsewhere ==
    ASSUME NEW s, \A x \in Slots : x[1] # s => files'[x] = files[x], NEW t \in Sids, t # s, NEW row \in Rows
    PROVE  \A x \in FilesOf(t, row) : files'[x] = files[x]
  BY FilesOfFacts

LEMMA ShownElsewhere ==
    ASSUME Typed, NEW f, NEW t \in Sids, box'[t] = box[t], snap'[t] = snap[t],
           \A x \in Slots : x[1] = t => files'[x] = files[x]
    PROVE  (Loads(f, t)' <=> Loads(f, t)) /\ (Shown(f, t)' <=> Shown(f, t))
<1>1. CASE snap[t] = None
  BY <1>1 DEF Loads, Shown
<1>2. CASE snap[t] \in Rows
  <2>1. \A x \in FilesOf(t, snap[t]) : files'[x] = files[x]
    BY <1>2, FilesOfFacts
  <2>2. Loads(f, t)' <=> Loads(f, t)
    BY <2>1 DEF Loads, FilesOf
  <2>. QED BY <2>2 DEF Shown
<1>. QED BY <1>1, <1>2 DEF Typed

\* What is listed, with no removal on the way, can be loaded.
LEMMA RowLoads ==
    ASSUME SInv, NEW f \in Functions, NEW s \in Sound, <<f, s>> \in spf, ~GoneSoon(s) PROVE Loads(f, s)
<1>1. CASE phase \in {"down", "boot"}
  BY <1>1 DEF SInv, RowsAt
<1>2. CASE phase \notin {"down", "boot"}
  <2>1. Shown(f, s)
    BY <1>2 DEF SInv, Typed, RowsAt
  <2>2. CASE box[s].f = f /\ box[s].row = snap[s] /\ snap[s] # None
    BY <2>2 DEF SInv, FilesAt, Loads
  <2>. QED BY <2>1, <2>2 DEF Shown
<1>. QED BY <1>1, <1>2

\* Then the ID is listed under one Function only.
LEMMA OneFunction ==
    ASSUME SInv, NEW f \in Functions, NEW g \in Functions, NEW s \in Sound, ~GoneSoon(s),
           <<f, s>> \in spf, <<g, s>> \in spf
    PROVE  f = g
<1>1. Loads(f, s) /\ Loads(g, s)
  BY RowLoads
<1>2. snap[s] \in Rows
  BY <1>1 DEF SInv, Typed, Loads
<1>3. <<s, "state", snap[s].state>> \in FilesOf(s, snap[s])
  BY <1>2, FilesOfFacts
<1>. QED BY <1>1, <1>3 DEF Loads

LEMMA RowUpdate ==
    ASSUME NEW row \in Rows, NEW k \in Kinds, NEW d \in Devices
    PROVE  /\ [row EXCEPT ![k] = d] \in Rows /\ [row EXCEPT ![k] = d][k] = d
           /\ \A j \in Kinds : j # k => [row EXCEPT ![k] = d][j] = row[j]
<1>1. CASE k = "state"
  BY <1>1 DEF Rows
<1>2. CASE k = "memory"
  BY <1>2 DEF Rows
<1>. QED BY <1>1, <1>2

LEMMA StartStep ==
    ASSUME SInv, Start PROVE SInv'
<1>1. Typed'
  BY DEF SInv, Typed, Start
<1>2. PhaseAt'
  BY DEF SInv, Typed, PhaseAt, Start
<1>3. BoxAt'
  BY DEF SInv, Typed, PhaseAt, BoxAt, Start
<1>4. FilesAt'
  BY DEF SInv, Typed, PhaseAt, FilesAt, Start
<1>5. QueueAt'
  BY QueueFrame DEF SInv, QueueAt, Start
<1>6. RowsAt'
  <2>. SUFFICES ASSUME NEW f \in Functions, NEW s \in Sound, <<f, s>> \in spf
                PROVE  Loads(f, s) /\ box[s] = Free /\ \A i \in 1..Len(q) : FirstOf(i, s) => q[i].f = f
    BY QueueFrame, LoadsFrame DEF RowsAt, Shown, Start
  <2>. QED BY DEF SInv, PhaseAt, RowsAt, Start
<1>7. KeptAt'
  BY QueueFrame DEF SInv, KeptAt, Start
<1>8. TodoAt'
  BY QueueFrame DEF SInv, TodoAt, Start
<1>9. MoveAt'
  BY DEF SInv, Typed, PhaseAt, MoveAt, Move, Start
<1>. QED BY <1>1, <1>2, <1>3, <1>4, <1>5, <1>6, <1>7, <1>8, <1>9 DEF SInv

LEMMA StartFailsStep ==
    ASSUME SInv, StartFails PROVE SInv'
<1>1. Typed'
  BY DEF SInv, Typed, StartFails
<1>2. PhaseAt'
  BY DEF SInv, Typed, PhaseAt, StartFails
<1>3. BoxAt'
  BY DEF SInv, Typed, PhaseAt, BoxAt, StartFails
<1>4. FilesAt'
  BY DEF SInv, Typed, PhaseAt, FilesAt, StartFails
<1>5. QueueAt'
  BY DEF SInv, Typed, PhaseAt, QueueAt, Of, LastOf, NextOf, StartFails
<1>6. RowsAt'
  BY QueueFrame, LoadsFrame DEF SInv, RowsAt, StartFails
<1>7. KeptAt'
  BY QueueFrame DEF SInv, KeptAt, StartFails
<1>8. TodoAt'
  BY QueueFrame DEF SInv, TodoAt, StartFails
<1>9. MoveAt'
  BY DEF SInv, Typed, PhaseAt, MoveAt, Move, StartFails
<1>. QED BY <1>1, <1>2, <1>3, <1>4, <1>5, <1>6, <1>7, <1>8, <1>9 DEF SInv

LEMMA StartedStep ==
    ASSUME SInv, Started PROVE SInv'
<1>1. Typed'
  BY DEF SInv, Typed, Started
<1>2. PhaseAt'
  BY DEF SInv, Typed, PhaseAt, Started
<1>3. BoxAt'
  BY DEF SInv, Typed, PhaseAt, BoxAt, Started
<1>4. FilesAt'
  BY DEF SInv, Typed, PhaseAt, FilesAt, Started
<1>5. QueueAt'
  BY QueueFrame DEF SInv, QueueAt, Started
<1>6. RowsAt'
  BY QueueFrame, LoadsFrame DEF SInv, Typed, RowsAt, Shown, Started
<1>7. KeptAt'
  BY QueueFrame DEF SInv, KeptAt, Started
<1>8. TodoAt'
  BY QueueFrame DEF SInv, TodoAt, Started
<1>9. MoveAt'
  BY DEF SInv, Typed, PhaseAt, MoveAt, Move, Started
<1>. QED BY <1>1, <1>2, <1>3, <1>4, <1>5, <1>6, <1>7, <1>8, <1>9 DEF SInv

LEMMA ReinstateStep ==
    ASSUME SInv, NEW f \in Functions, NEW s \in Sids, Reinstate(f, s) PROVE SInv'
<1>a. <<f, s>> \in spf /\ snap[s] \in Rows /\ ~GoneSoon(s)
  BY NoMessage DEF SInv, Typed, PhaseAt, TodoAt, Reinstate
<1>b. s \in Sound => Loads(f, s)
  BY <1>a DEF SInv, RowsAt, Reinstate
<1>c. \A t \in Sids : box'[t] = IF t = s THEN [at |-> "parked", f |-> f, row |-> snap[s]] ELSE box[t]
  BY DEF SInv, Typed, Reinstate
<1>d. \A g \in Functions : s \in Sound /\ <<g, s>> \in spf => g = f
  BY <1>a, OneFunction DEF Reinstate
<1>1. Typed'
  BY DEF SInv, Typed, Reinstate
<1>2. PhaseAt'
  BY DEF SInv, Typed, PhaseAt, Reinstate
<1>3. BoxAt'
  BY DEF SInv, Typed, PhaseAt, BoxAt, Reinstate
<1>4. FilesAt'
  BY <1>a, <1>b, <1>c DEF SInv, FilesAt, Loads, FilesOf, Reinstate
<1>5. QueueAt'
  BY DEF SInv, Typed, PhaseAt, QueueAt, Of, LastOf, NextOf, Reinstate
<1>6. RowsAt'
  BY <1>a, <1>c, <1>d, QueueFrame, LoadsFrame, SnapshotsAssumption DEF SInv, RowsAt, Shown, Reinstate
<1>7. KeptAt'
  BY <1>a, <1>c, QueueFrame DEF SInv, KeptAt, Reinstate
<1>8. TodoAt'
  BY QueueFrame DEF SInv, TodoAt, Reinstate
<1>9. MoveAt'
  BY MoveFrame DEF SInv, Reinstate
<1>. QED BY <1>1, <1>2, <1>3, <1>4, <1>5, <1>6, <1>7, <1>8, <1>9 DEF SInv

LEMMA NotReinstatedStep ==
    ASSUME SInv, NEW f \in Functions, NEW s \in Sids, NotReinstated(f, s) PROVE SInv'
<1>1. Typed'
  BY DEF SInv, Typed, NotReinstated, Fails
<1>2. PhaseAt'
  BY DEF SInv, Typed, PhaseAt, NotReinstated, Fails
<1>3. BoxAt'
  BY DEF SInv, Typed, PhaseAt, BoxAt, NotReinstated, Fails
<1>4. FilesAt'
  BY DEF SInv, Typed, PhaseAt, FilesAt, NotReinstated, Fails
<1>5. QueueAt'
  BY QueueFrame DEF SInv, QueueAt, NotReinstated, Fails
<1>6. RowsAt'
  BY QueueFrame, LoadsFrame DEF SInv, Typed, RowsAt, Shown, NotReinstated, Fails
<1>7. KeptAt'
  BY DEF SInv, Typed, PhaseAt, KeptAt, GoneSoon, Of, NotReinstated, Fails
<1>8. TodoAt'
  BY QueueFrame DEF SInv, TodoAt, NotReinstated
<1>9. MoveAt'
  BY DEF SInv, Typed, PhaseAt, MoveAt, Move, NotReinstated, Fails
<1>. QED BY <1>1, <1>2, <1>3, <1>4, <1>5, <1>6, <1>7, <1>8, <1>9 DEF SInv

LEMMA CreateStep ==
    ASSUME SInv, NEW f \in Functions, NEW s \in Sids, Create(f, s) PROVE SInv'
<1>a. \A t \in Sids : box'[t] = IF t = s THEN [at |-> "busy", f |-> f, row |-> None] ELSE box[t]
  BY DEF SInv, Typed, Create
<1>b. box[s].row = None
  BY DEF Create
<1>1. Typed'
  BY DEF SInv, Typed, Create
<1>2. PhaseAt'
  BY DEF SInv, Typed, PhaseAt, Create
<1>3. BoxAt'
  BY DEF SInv, Typed, PhaseAt, BoxAt, Create
<1>4. FilesAt'
  BY DEF SInv, Typed, PhaseAt, FilesAt, Create
<1>5. QueueAt'
  <2>1. \A i \in 1..Len(q) : q[i].op = "new" => q[i].row # None
    BY SnapshotsAssumption DEF SInv, Typed, SnapshotManagerMessage
  <2>. QED BY <1>a, <1>b, <2>1, QueueFrame DEF SInv, QueueAt, LastOf, Create
<1>6. RowsAt'
  BY <1>a, <1>b, QueueFrame, LoadsFrame DEF SInv, RowsAt, Shown, Create
<1>7. KeptAt'
  BY QueueFrame DEF SInv, KeptAt, Create
<1>8. TodoAt'
  BY QueueFrame DEF SInv, TodoAt, Create
<1>9. MoveAt'
  BY DEF SInv, Typed, PhaseAt, MoveAt, Move, Create
<1>. QED BY <1>1, <1>2, <1>3, <1>4, <1>5, <1>6, <1>7, <1>8, <1>9 DEF SInv

LEMMA RegisterStep ==
    ASSUME SInv, NEW f \in Functions, Register(f) PROVE SInv'
<1>1. Typed'
  BY DEF SInv, Typed, Register
<1>2. PhaseAt'
  BY DEF SInv, Typed, PhaseAt, Register
<1>3. BoxAt'
  BY DEF SInv, Typed, PhaseAt, BoxAt, Register
<1>4. FilesAt'
  BY DEF SInv, Typed, PhaseAt, FilesAt, Register
<1>5. QueueAt'
  BY QueueFrame DEF SInv, QueueAt, Register
<1>6. RowsAt'
  BY QueueFrame, LoadsFrame DEF SInv, RowsAt, Shown, Register
<1>7. KeptAt'
  BY QueueFrame DEF SInv, KeptAt, Register
<1>8. TodoAt'
  BY QueueFrame DEF SInv, TodoAt, Register
<1>9. MoveAt'
  BY DEF SInv, Typed, PhaseAt, MoveAt, Move, Register
<1>. QED BY <1>1, <1>2, <1>3, <1>4, <1>5, <1>6, <1>7, <1>8, <1>9 DEF SInv

LEMMA DeregisterStep ==
    ASSUME SInv, NEW f \in Functions, Deregister(f) PROVE SInv'
<1>1. Typed'
  BY DEF SInv, Typed, Deregister
<1>2. PhaseAt'
  BY DEF SInv, Typed, PhaseAt, Deregister
<1>3. BoxAt'
  BY DEF SInv, Typed, PhaseAt, BoxAt, Deregister
<1>4. FilesAt'
  BY DEF SInv, Typed, PhaseAt, FilesAt, Deregister
<1>5. QueueAt'
  BY QueueFrame DEF SInv, QueueAt, Deregister
<1>6. RowsAt'
  BY QueueFrame, LoadsFrame DEF SInv, RowsAt, Shown, Deregister
<1>7. KeptAt'
  BY QueueFrame DEF SInv, KeptAt, Deregister
<1>8. TodoAt'
  BY QueueFrame DEF SInv, TodoAt, Deregister
<1>9. MoveAt'
  BY DEF SInv, Typed, PhaseAt, MoveAt, Move, Deregister
<1>. QED BY <1>1, <1>2, <1>3, <1>4, <1>5, <1>6, <1>7, <1>8, <1>9 DEF SInv

LEMMA SnapshotStep ==
    ASSUME SInv, NEW s \in Sids, Snapshot(s) PROVE SInv'
<1>. DEFINE f == box[s].f
<1>a. PICK row \in query_paths(f) :
          /\ files' = [x \in Slots |-> IF x \in FilesOf(s, row) THEN f ELSE files[x]]
          /\ box' = [box EXCEPT ![s].row = row]
          /\ Send("new", f, s, row)
  BY DEF Snapshot
<1>b. f \in reg /\ f \in Functions
  BY DEF SInv, Typed, BoxAt, Snapshot
<1>c. row \in Rows
  BY <1>b, QueryFacts
<1>d. row # None /\ box[s].row = None
  BY <1>c, SnapshotsAssumption DEF Snapshot
<1>. DEFINE m == [op |-> "new", f |-> f, s |-> s, row |-> row]
<1>e. m \in SnapshotManagerMessage /\ m.op = "new" /\ m.s = s /\ m.f = f /\ m.row = row
  BY <1>b, <1>c DEF SnapshotManagerMessage
<1>f. q' = Append(q, m) /\ q \in Seq(SnapshotManagerMessage)
  BY <1>a DEF SInv, Typed, Send
<1>. HIDE DEF m
<1>g. /\ \A t \in Sids : t # s => box'[t] = box[t]
      /\ box'[s].at = "busy" /\ box'[s].f = f /\ box'[s].row = row
      /\ box' \in [Sids -> [at : {"free", "busy", "parked", "kept", "trashed"},
                            f : Option(Functions), row : Option(Rows)]]
  BY <1>a, <1>c DEF SInv, Typed, Snapshot
<1>. HIDE DEF f
<1>h. \A g \in Functions : s \in Sound /\ <<g, s>> \in spf => GoneSoon(s)
  BY <1>d DEF SInv, RowsAt, Shown, Snapshot
<1>1. Typed'
  BY <1>a, <1>b, <1>e, <1>f, <1>g, AppendFacts DEF SInv, Typed, Snapshot
<1>2. PhaseAt'
  BY <1>b, <1>g DEF SInv, Typed, PhaseAt, BoxAt, Snapshot
<1>3. BoxAt'
  BY <1>b, <1>g DEF SInv, Typed, PhaseAt, BoxAt, Snapshot
<1>4. FilesAt'
  <2>1. SUFFICES ASSUME NEW t \in Sound, box'[t].row # None, NEW x \in FilesOf(t, box'[t].row)
                 PROVE  files'[x] = box'[t].f
    BY DEF FilesAt, FilesOf, Snapshot
  <2>2. box'[t].row \in Rows
    BY <1>g, <2>1
  <2>3. x \in Slots /\ x[1] = t
    BY <2>2, FilesOfFacts
  <2>4. CASE t = s
    BY <1>a, <1>g, <2>3, <2>4
  <2>5. CASE t # s
    <3>1. x \notin FilesOf(s, row)
      BY <1>c, <2>3, <2>5, FilesOfFacts
    <3>2. files[x] = box[t].f
      BY <1>g, <2>1, <2>5 DEF SInv, FilesAt
    <3>. QED BY <1>a, <1>g, <2>3, <2>5, <3>1, <3>2
  <2>. QED BY <2>4, <2>5
<1>5. QueueAt'
  <2>2. ASSUME NEW t \in Sound, NEW i \in 1..Len(q'), LastOf(i, t)'
        PROVE  IF q'[i].op = "new" THEN box'[t].f = q'[i].f /\ box'[t].row = q'[i].row ELSE box'[t].row = None
    <3>1. (t # s /\ LastOf(i, t) /\ q'[i] = q[i]) \/ (t = s /\ q'[i] = m)
      BY <1>e, <1>f, <2>2, AppendFacts
    <3>. QED BY <1>e, <1>g, <2>2, <3>1 DEF SInv, QueueAt, LastOf, Of
  <2>3. ASSUME NEW t \in Sound, NEW i \in 1..Len(q'), Of(i, t)', q'[i].op = "new", ~LastOf(i, t)'
        PROVE  \E j \in 1..Len(q') : NextOf(i, j, t)' /\ q'[j].op = "removed" /\ q'[j].f = q'[i].f
    <3>1. i \in 1..Len(q) /\ q'[i] = q[i] /\ Of(i, t)
      BY <1>e, <1>f, <2>3, AppendFacts DEF Of, LastOf
    <3>2. ~LastOf(i, t)
      BY <1>d, <1>e, <1>f, <2>3, <3>1, AppendFacts, SnapshotsAssumption DEF SInv, Typed, QueueAt, SnapshotManagerMessage
    <3>3. PICK j \in 1..Len(q) : NextOf(i, j, t) /\ q[j].op = "removed" /\ q[j].f = q[i].f
      BY <2>3, <3>1, <3>2 DEF SInv, QueueAt
    <3>. QED BY <1>e, <1>f, <3>1, <3>3, AppendFacts
  <2>. QED BY <2>2, <2>3 DEF QueueAt, Snapshot
<1>6. RowsAt'
  <2>. SUFFICES ASSUME NEW g \in Functions, NEW t \in Sound, <<g, t>> \in spf
                PROVE  /\ ~GoneSoon(t)' => Shown(g, t)'
                       /\ \A i \in 1..Len(q') : FirstOf(i, t)' => q'[i].f = g
    BY DEF RowsAt, Snapshot
  <2>2. ASSUME ~GoneSoon(t)' PROVE Shown(g, t)'
    <3>1. ~GoneSoon(t)
      BY <1>e, <1>f, <2>2, AppendFacts
    <3>2. t # s /\ Shown(g, t)
      BY <1>h, <3>1 DEF SInv, RowsAt, Snapshot
    <3>3. snap'[t] = snap[t] /\ box'[t] = box[t] /\ \A x \in Slots : x[1] = t => files'[x] = files[x]
      BY <1>a, <1>c, <1>g, <3>2, FilesOfFacts DEF Snapshot
    <3>. QED BY <3>2, <3>3, ShownElsewhere DEF SInv
  <2>3. ASSUME NEW i \in 1..Len(q'), FirstOf(i, t)' PROVE q'[i].f = g
    <3>1. CASE FirstOf(i, t) /\ q'[i] = q[i]
      BY <3>1 DEF SInv, RowsAt, FirstOf, Of
    <3>2. CASE t = s /\ \A j \in 1..Len(q) : q[j].s # s
      BY <1>h, <3>2 DEF GoneSoon
    <3>. QED BY <1>e, <1>f, <2>3, <3>1, <3>2, AppendFacts
  <2>. QED BY <2>2, <2>3
<1>7. KeptAt'
  <2>. SUFFICES ASSUME NEW t \in Sound, box'[t].row # None, ~GoneSoon(t)'
                PROVE  \/ <<box'[t].f, t>> \in spf
                       \/ \E i \in 1..Len(q') : Of(i, t)' /\ q'[i].op = "new" /\ q'[i].f = box'[t].f
    BY DEF KeptAt, Snapshot
  <2>1. CASE t = s
    BY <1>e, <1>f, <1>g, <2>1, AppendFacts DEF Of
  <2>2. CASE t # s
    BY <1>e, <1>f, <1>g, <2>2, AppendFacts DEF SInv, KeptAt, Of
  <2>. QED BY <2>1, <2>2
<1>8. TodoAt'
  BY DEF TodoAt, Snapshot
<1>9. MoveAt'
  BY DEF SInv, Typed, PhaseAt, MoveAt, Move, Snapshot, Send
<1>. QED BY <1>1, <1>2, <1>3, <1>4, <1>5, <1>6, <1>7, <1>8, <1>9 DEF SInv

LEMMA ParkStep ==
    ASSUME SInv, NEW s \in Sids, Park(s) PROVE SInv'
<1>a. /\ phase = "run" /\ failed \subseteq failed'
      /\ \A t \in Sids : /\ box'[t].f = box[t].f /\ box'[t].row = box[t].row
                         /\ box[t] = Free => box'[t] = Free
  BY DEF SInv, Typed, Park, Fails
<1>b. FilesAt' /\ QueueAt' /\ RowsAt' /\ KeptAt'
  BY <1>a, SameBoxes DEF Park
<1>1. Typed'
  <2>1. box[s].f \in Functions
    BY DEF SInv, BoxAt, Park
  <2>. QED BY <2>1 DEF SInv, Typed, Park
<1>2. PhaseAt'
  BY DEF SInv, Typed, PhaseAt, Park
<1>3. BoxAt'
  BY DEF SInv, Typed, PhaseAt, BoxAt, Park
<1>4. FilesAt'
  BY <1>b
<1>5. QueueAt'
  BY <1>b
<1>6. RowsAt'
  BY <1>b
<1>7. KeptAt'
  BY <1>b
<1>8. TodoAt'
  BY QueueFrame DEF SInv, TodoAt, Park
<1>9. MoveAt'
  BY DEF SInv, Typed, PhaseAt, MoveAt, Move, Park
<1>. QED BY <1>1, <1>2, <1>3, <1>4, <1>5, <1>6, <1>7, <1>8, <1>9 DEF SInv

LEMMA TakeStep ==
    ASSUME SInv, NEW s \in Sids, Take(s) PROVE SInv'
<1>a. /\ phase = "run" /\ failed \subseteq failed'
      /\ \A t \in Sids : /\ box'[t].f = box[t].f /\ box'[t].row = box[t].row
                         /\ box[t] = Free => box'[t] = Free
  BY DEF SInv, Typed, Take, Fails
<1>b. FilesAt' /\ QueueAt' /\ RowsAt' /\ KeptAt'
  BY <1>a, SameBoxes DEF Take
<1>1. Typed'
  <2>1. box[s] \in [at : {"free", "busy", "parked", "kept", "trashed"}, f : Option(Functions), row : Option(Rows)]
    BY DEF SInv, Typed
  <2>2. [box[s] EXCEPT !.at = "busy"]
            \in [at : {"free", "busy", "parked", "kept", "trashed"}, f : Option(Functions), row : Option(Rows)]
    BY <2>1
  <2>3. box' = [box EXCEPT ![s] = [box[s] EXCEPT !.at = "busy"]]
    BY DEF Take
  <2>. QED BY <2>2, <2>3 DEF SInv, Typed, Take
<1>2. PhaseAt'
  BY DEF SInv, Typed, PhaseAt, Take
<1>3. BoxAt'
  BY DEF SInv, Typed, PhaseAt, BoxAt, Take
<1>4. FilesAt'
  BY <1>b
<1>5. QueueAt'
  BY <1>b
<1>6. RowsAt'
  BY <1>b
<1>7. KeptAt'
  BY <1>b
<1>8. TodoAt'
  BY QueueFrame DEF SInv, TodoAt, Take
<1>9. MoveAt'
  BY DEF SInv, Typed, PhaseAt, MoveAt, Move, Take
<1>. QED BY <1>1, <1>2, <1>3, <1>4, <1>5, <1>6, <1>7, <1>8, <1>9 DEF SInv

LEMMA DestroyStep ==
    ASSUME SInv, NEW s \in Sids, Destroy(s) PROVE SInv'
<1>a. /\ \A t \in Sids : t # s => box'[t] = box[t]
      /\ box'[s] = Free
  BY DEF SInv, Typed, Destroy
<1>b. phase = "run" /\ box[s].f \in reg /\ box[s].f \in Functions
  BY DEF SInv, Typed, BoxAt, Destroy
<1>. DEFINE f == box[s].f
            m == [op |-> "removed", f |-> f, s |-> s, row |-> None]
<1>c. m \in SnapshotManagerMessage /\ m.op = "removed" /\ m.s = s /\ m.f = f
  BY <1>b DEF SnapshotManagerMessage
<1>d. \/ box[s].row = None /\ UNCHANGED <<files, q, failed>>
      \/ /\ box[s].row # None /\ q' = Append(q, m)
         /\ \/ files' = Unlinked(s, box[s].row) /\ UNCHANGED failed
            \/ failed' = failed \cup {s} /\ UNCHANGED files
  BY DEF Destroy, Send, Fails
<1>. HIDE DEF m
<1>e. \A x \in Slots : x[1] # s => files'[x] = files[x]
  <2>1. CASE UNCHANGED files
    BY <2>1
  <2>2. CASE box[s].row # None /\ files' = Unlinked(s, box[s].row)
    BY <2>2, FilesOfFacts DEF SInv, Typed, Unlinked
  <2>. QED BY <1>d, <2>1, <2>2
<1>f. failed \subseteq failed' /\ q \in Seq(SnapshotManagerMessage)
  BY <1>d DEF SInv, Typed
<1>s. \A t \in Sound' : t \in Sound
  BY <1>f DEF Destroy
<1>1. Typed'
  <2>1. files' \in [Slots -> Option(Functions)]
    BY <1>d DEF SInv, Typed, Unlinked
  <2>2. q' \in Seq(SnapshotManagerMessage)
    BY <1>c, <1>d, <1>f, AppendFacts
  <2>3. failed' \subseteq Sids /\ UNCHANGED stale
    BY <1>d DEF SInv, Typed, Destroy
  <2>4. box' \in [Sids -> [at : {"free", "busy", "parked", "kept", "trashed"}, f : Option(Functions), row : Option(Rows)]]
    BY DEF SInv, Typed, Destroy
  <2>5. UNCHANGED <<phase, retain, reg, keys, tables, todo, mv>>
    BY DEF Destroy
  <2>. QED BY <2>1, <2>2, <2>3, <2>4, <2>5 DEF SInv, Typed
<1>2. PhaseAt'
  BY DEF SInv, Typed, PhaseAt, Destroy, Send, Fails, Unlinked
<1>3. BoxAt'
  BY DEF SInv, Typed, PhaseAt, BoxAt, Destroy, Send, Fails, Unlinked
<1>4. FilesAt'
  <2>. SUFFICES ASSUME NEW t \in Sound', box'[t].row # None, NEW x \in FilesOf(t, box'[t].row)
                PROVE  files'[x] = box'[t].f
    BY DEF FilesAt, FilesOf
  <2>1. t # s /\ t \in Sound /\ box'[t] = box[t] /\ box[t].row \in Rows
    BY <1>a, <1>f DEF SInv, Typed, Destroy
  <2>. QED BY <1>e, <2>1, Elsewhere DEF SInv, FilesAt
<1>5. QueueAt'
  <2>0. \A i \in 1..Len(q) : q[i].op = "new" => q[i].row # None
    BY SnapshotsAssumption DEF SInv, Typed, SnapshotManagerMessage
  <2>1. CASE box[s].row = None
    BY <1>a, <1>d, <1>s, <2>0, <2>1, QueueFrame DEF SInv, QueueAt, LastOf, Destroy
  <2>2. CASE q' = Append(q, m)
    <3>2. ASSUME NEW t \in Sound', NEW i \in 1..Len(q'), LastOf(i, t)'
          PROVE  IF q'[i].op = "new" THEN box'[t].f = q'[i].f /\ box'[t].row = q'[i].row ELSE box'[t].row = None
      <4>1. (t # s /\ LastOf(i, t) /\ q'[i] = q[i]) \/ (t = s /\ q'[i] = m)
        BY <1>c, <1>f, <2>2, <3>2, AppendFacts
      <4>. QED BY <1>a, <1>c, <1>s, <3>2, <4>1 DEF SInv, QueueAt, LastOf, Of
    <3>3. ASSUME NEW t \in Sound', NEW i \in 1..Len(q'), Of(i, t)', q'[i].op = "new", ~LastOf(i, t)'
          PROVE  \E j \in 1..Len(q') : NextOf(i, j, t)' /\ q'[j].op = "removed" /\ q'[j].f = q'[i].f
      <4>1. i \in 1..Len(q) /\ q'[i] = q[i] /\ Of(i, t)
        BY <1>c, <1>f, <2>2, <3>3, AppendFacts DEF Of
      <4>2. CASE LastOf(i, t)
        <5>1. t = s /\ q[i].f = f
          BY <1>c, <1>f, <1>s, <2>2, <3>3, <4>1, <4>2, AppendFacts DEF SInv, QueueAt
        <5>2. PICK k : k = Len(q) + 1
          OBVIOUS
        <5>3. NextOf(i, k, t)' /\ k \in 1..Len(q') /\ q'[k] = m
          BY <1>c, <1>f, <2>2, <4>2, <5>1, <5>2, AppendFacts
        <5>. QED BY <1>c, <4>1, <5>1, <5>3
      <4>3. CASE ~LastOf(i, t)
        <5>1. PICK j \in 1..Len(q) : NextOf(i, j, t) /\ q[j].op = "removed" /\ q[j].f = q[i].f
          BY <1>s, <3>3, <4>1, <4>3 DEF SInv, QueueAt
        <5>. QED BY <1>c, <1>f, <2>2, <4>1, <5>1, AppendFacts
      <4>. QED BY <4>2, <4>3
    <3>. QED BY <3>2, <3>3 DEF QueueAt, Destroy
  <2>. QED BY <1>d, <2>1, <2>2
<1>6. RowsAt'
  <2>. SUFFICES ASSUME NEW g \in Functions, NEW t \in Sound', <<g, t>> \in spf
                PROVE  /\ ~GoneSoon(t)' => Shown(g, t)'
                       /\ \A i \in 1..Len(q') : FirstOf(i, t)' => q'[i].f = g
    BY <1>b DEF RowsAt, Destroy
  <2>1. t \in Sound
    BY <1>s
  <2>2. /\ ~GoneSoon(t) => Shown(g, t)
        /\ \A i \in 1..Len(q) : FirstOf(i, t) => q[i].f = g
    BY <1>b, <2>1 DEF SInv, RowsAt
  <2>a. t # s => (Shown(g, t)' <=> Shown(g, t))
    BY <1>a, <1>e, ShownElsewhere DEF SInv, Destroy
  <2>b. t = s /\ box[s].row # None /\ Shown(g, t) => box[s].f = g
    BY <1>b DEF Shown
  <2>3. CASE box[s].row = None
    <3>1. UNCHANGED q
      BY <1>d, <2>3
    <3>2. t = s => ~Shown(g, t)
      BY <2>3 DEF Shown, Destroy
    <3>. QED BY <2>2, <2>a, <3>1, <3>2, QueueFrame
  <2>4. CASE box[s].row # None /\ q' = Append(q, m)
    <3>1. ~GoneSoon(t)' => t # s /\ ~GoneSoon(t)
      BY <1>c, <1>f, <2>4, AppendFacts
    <3>2. ASSUME NEW i \in 1..Len(q'), FirstOf(i, t)' PROVE q'[i].f = g
      <4>1. CASE FirstOf(i, t) /\ q'[i] = q[i]
        BY <2>2, <4>1 DEF FirstOf, Of
      <4>2. CASE t = s /\ i = Len(q) + 1 /\ \A j \in 1..Len(q) : q[j].s # s
        <5>1. ~GoneSoon(s)
          BY <4>2 DEF GoneSoon
        <5>2. box[s].f = g
          BY <2>2, <2>4, <2>b, <4>2, <5>1
        <5>. QED BY <1>c, <1>f, <2>4, <4>2, <5>2, AppendFacts
      <4>. QED BY <1>c, <1>f, <2>4, <3>2, <4>1, <4>2, AppendFacts
    <3>. QED BY <2>2, <2>a, <3>1, <3>2
  <2>. QED BY <1>d, <2>3, <2>4
<1>7. KeptAt'
  <2>. SUFFICES ASSUME NEW t \in Sound', box'[t].row # None, ~GoneSoon(t)'
                PROVE  \/ <<box'[t].f, t>> \in spf
                       \/ \E i \in 1..Len(q') : Of(i, t)' /\ q'[i].op = "new" /\ q'[i].f = box'[t].f
    BY DEF KeptAt, Destroy
  <2>1. t # s /\ t \in Sound /\ box'[t] = box[t]
    BY <1>a, <1>s
  <2>2. CASE UNCHANGED q
    BY <2>1, <2>2, QueueFrame DEF SInv, KeptAt
  <2>3. CASE q' = Append(q, m)
    <3>1. ~GoneSoon(t)
      BY <1>c, <1>f, <2>3, AppendFacts
    <3>2. \A i \in 1..Len(q) : Of(i, t) => Of(i, t)' /\ q'[i] = q[i] /\ i \in 1..Len(q')
      BY <1>c, <1>f, <2>3, AppendFacts DEF Of
    <3>. QED BY <2>1, <3>1, <3>2 DEF SInv, KeptAt
  <2>. QED BY <1>d, <2>2, <2>3
<1>8. TodoAt'
  BY QueueFrame DEF SInv, TodoAt, Destroy, Send
<1>9. MoveAt'
  BY DEF SInv, Typed, PhaseAt, MoveAt, Move, Destroy, Send, Fails, Unlinked
<1>. QED BY <1>1, <1>2, <1>3, <1>4, <1>5, <1>6, <1>7, <1>8, <1>9 DEF SInv

LEMMA TrashStep ==
    ASSUME SInv, NEW s \in Sids, Trash(s) PROVE SInv'
<1>a. /\ phase = "run" /\ failed \subseteq failed'
      /\ \A t \in Sids : /\ box'[t].f = box[t].f /\ box'[t].row = box[t].row
                         /\ box[t] = Free => box'[t] = Free
  BY DEF SInv, Typed, Trash, Fails
<1>b. FilesAt' /\ QueueAt' /\ RowsAt' /\ KeptAt'
  BY <1>a, SameBoxes DEF Trash
<1>1. Typed'
  <2>1. box[s] \in [at : {"free", "busy", "parked", "kept", "trashed"}, f : Option(Functions), row : Option(Rows)]
    BY DEF SInv, Typed
  <2>2. [box[s] EXCEPT !.at = "trashed"]
            \in [at : {"free", "busy", "parked", "kept", "trashed"}, f : Option(Functions), row : Option(Rows)]
    BY <2>1
  <2>3. box' = [box EXCEPT ![s] = [box[s] EXCEPT !.at = "trashed"]]
    BY DEF Trash
  <2>4. failed' \subseteq Sids
    BY DEF SInv, Typed, Trash, Fails
  <2>. QED BY <2>2, <2>3, <2>4 DEF SInv, Typed, Trash
<1>2. PhaseAt'
  BY DEF SInv, Typed, PhaseAt, Trash, Fails
<1>3. BoxAt'
  BY DEF SInv, Typed, PhaseAt, BoxAt, Trash, Fails
<1>4. FilesAt'
  BY <1>b
<1>5. QueueAt'
  BY <1>b
<1>6. RowsAt'
  BY <1>b
<1>7. KeptAt'
  BY <1>b
<1>8. TodoAt'
  BY QueueFrame DEF SInv, TodoAt, Trash
<1>9. MoveAt'
  BY DEF SInv, Typed, PhaseAt, MoveAt, Move, Trash, Fails
<1>. QED BY <1>1, <1>2, <1>3, <1>4, <1>5, <1>6, <1>7, <1>8, <1>9 DEF SInv

LEMMA WriteStep ==
    ASSUME SInv, Write PROVE SInv'
<1>. DEFINE m == q[1]
<1>a. /\ q \in Seq(SnapshotManagerMessage) /\ q # <<>> /\ q' = Tail(q) /\ phase \in {"run", "sync", "wipe", "drain"}
      /\ Head(q) = m /\ m \in SnapshotManagerMessage /\ FirstOf(1, m.s) /\ 1 \in 1..Len(q)
  BY TailFacts DEF SInv, Typed, Write
<1>b. /\ m.s \in Sids /\ m.f \in Functions /\ m.op \in {"new", "removed"}
      /\ m.op = "new" => m.row \in Rows /\ m.row # None
  BY <1>a, SnapshotsAssumption DEF SnapshotManagerMessage
<1>c. \/ m.s \in failed' /\ failed \subseteq failed' /\ UNCHANGED tables
      \/ m.s \in failed' /\ failed \subseteq failed' /\ RemovedStateOnly(m)
      \/ m.op = "new" /\ UNCHANGED failed /\ db_new_snapshot(m)
      \/ m.op = "removed" /\ UNCHANGED failed /\ db_rm_snapshot(m)
  BY <1>a, <1>b DEF Write, Fails
<1>. HIDE DEF m
<1>d. /\ failed \subseteq failed' /\ UNCHANGED stale
      /\ \A g \in Functions, t \in Sids : t # m.s => (<<g, t>> \in spf' <=> <<g, t>> \in spf) /\ snap'[t] = snap[t]
  BY <1>b, <1>c DEF SInv, Typed, db_new_snapshot, db_rm_snapshot, RemovedStateOnly, Write
<1>s. \A t \in Sound' : t \in Sound /\ t \notin failed'
  BY <1>d
<1>e. m.s \in Sound' /\ m.op = "removed" => \A g \in Functions : <<g, m.s>> \notin spf'
  <2>. SUFFICES ASSUME m.s \in Sound', m.op = "removed", NEW g \in Functions, <<g, m.s>> \in spf'
                PROVE  FALSE
    OBVIOUS
  <2>1. <<g, m.s>> \in spf /\ <<g, m.s>> # <<m.f, m.s>>
    BY <1>c, <1>s DEF db_rm_snapshot
  <2>. QED BY <1>a, <1>b, <1>s, <2>1 DEF SInv, RowsAt, m
<1>f. m.s \in Sound' /\ m.op = "new" =>
        /\ <<m.f, m.s>> \in spf'
        /\ snap'[m.s] = m.row \/ (<<m.f, m.s>> \in spf /\ snap'[m.s] = snap[m.s])
        /\ \A g \in Functions : <<g, m.s>> \in spf' => g = m.f \/ <<g, m.s>> \in spf
  BY <1>b, <1>c, <1>s DEF SInv, Typed, db_new_snapshot
<1>g. m.s \in Sound' /\ m.op = "new" => \A g \in Functions : <<g, m.s>> \in spf' => g = m.f
  BY <1>a, <1>b, <1>s, <1>f DEF SInv, RowsAt, m
<1>1. Typed'
  <2>1. spf' \subseteq Functions \X Sids /\ snap' \in [Sids -> Option(Rows)]
    BY <1>b, <1>c DEF SInv, Typed, db_new_snapshot, db_rm_snapshot, RemovedStateOnly
  <2>2. q' \in Seq(SnapshotManagerMessage)
    BY <1>a, TailFacts
  <2>3. failed' \subseteq Sids
    BY <1>a, <1>b DEF SInv, Typed, Write, Fails
  <2>4. UNCHANGED <<phase, retain, reg, files, box, keys, todo, mv, stale>>
    BY DEF Write
  <2>. QED BY <2>1, <2>2, <2>3, <2>4 DEF SInv, Typed
<1>2. PhaseAt'
  BY DEF SInv, Typed, PhaseAt, Write, Fails, db_new_snapshot, db_rm_snapshot, RemovedStateOnly
<1>3. BoxAt'
  BY DEF SInv, Typed, PhaseAt, BoxAt, Write, Fails, db_new_snapshot, db_rm_snapshot, RemovedStateOnly
<1>4. FilesAt'
  BY DEF SInv, Typed, PhaseAt, FilesAt, Write, Fails, db_new_snapshot, db_rm_snapshot, RemovedStateOnly
<1>5. QueueAt'
  <2>2. ASSUME NEW t \in Sound', NEW i \in 1..Len(q'), LastOf(i, t)'
        PROVE  IF q'[i].op = "new" THEN box[t].f = q'[i].f /\ box[t].row = q'[i].row ELSE box[t].row = None
    <3>1. LastOf(i+1, t) /\ q'[i] = q[i+1] /\ i+1 \in 1..Len(q)
      BY <1>a, <2>2, TailFacts
    <3>. QED BY <1>s, <2>2, <3>1 DEF SInv, QueueAt
  <2>3. ASSUME NEW t \in Sound', NEW i \in 1..Len(q'), Of(i, t)', q'[i].op = "new", ~LastOf(i, t)'
        PROVE  \E j \in 1..Len(q') : NextOf(i, j, t)' /\ q'[j].op = "removed" /\ q'[j].f = q'[i].f
    <3>1. q'[i] = q[i+1] /\ i+1 \in 1..Len(q) /\ ~LastOf(i+1, t)
      BY <1>a, <2>3, TailFacts
    <3>2. Of(i+1, t)
      BY <2>3, <3>1 DEF Of
    <3>3. PICK j \in 1..Len(q) : NextOf(i+1, j, t) /\ q[j].op = "removed" /\ q[j].f = q[i+1].f
      BY <1>s, <2>3, <3>1, <3>2 DEF SInv, QueueAt
    <3>4. j-1 \in 1..Len(q') /\ NextOf(i, j-1, t)'
      BY <1>a, <3>3, TailFacts
    <3>5. q'[j-1] = q[(j-1)+1] /\ (j-1)+1 = j
      BY <1>a, <3>4, TailFacts
    <3>. QED BY <3>1, <3>3, <3>4, <3>5
  <2>4. UNCHANGED box
    BY DEF Write
  <2>. QED BY <2>2, <2>3, <2>4 DEF QueueAt
<1>6. RowsAt'
  <2>. SUFFICES ASSUME NEW g \in Functions, NEW t \in Sound', <<g, t>> \in spf'
                PROVE  /\ ~GoneSoon(t)' => Shown(g, t)'
                       /\ \A i \in 1..Len(q') : FirstOf(i, t)' => q'[i].f = g
    BY <1>a DEF RowsAt, Write
  <2>1. CASE t # m.s
    <3>1. <<g, t>> \in spf /\ snap'[t] = snap[t] /\ t \in Sound
      BY <1>d, <1>s, <2>1
    <3>2. /\ ~GoneSoon(t) => Shown(g, t)
          /\ \A i \in 1..Len(q) : FirstOf(i, t) => q[i].f = g
      BY <1>a, <3>1 DEF SInv, RowsAt
    <3>3. ~GoneSoon(t)' => ~GoneSoon(t)
      BY <1>a, <2>1, TailFacts DEF m
    <3>4. \A i \in 1..Len(q') : FirstOf(i, t)' => FirstOf(i+1, t) /\ q'[i] = q[i+1] /\ i+1 \in 1..Len(q)
      BY <1>a, <2>1, TailFacts DEF m
    <3>5. Shown(g, t)' <=> Shown(g, t)
      BY <3>1, ShownElsewhere DEF SInv, Write
    <3>. QED BY <3>2, <3>3, <3>4, <3>5
  <2>2. CASE t = m.s
    <3>1. m.op = "new" /\ g = m.f /\ Of(1, t)
      BY <1>a, <1>b, <1>e, <1>g, <2>2 DEF FirstOf
    <3>3. ASSUME ~GoneSoon(t)' PROVE Shown(g, t)'
      <4>1. ~GoneSoon(t)
        BY <1>a, <3>1, <3>3, TailFacts DEF m
      <4>2. box[t].f = m.f /\ box[t].row = m.row
        BY <1>a, <1>s, <3>1, <4>1, SoleMessage DEF SInv, m
      <4>3. <<m.f, m.s>> \in spf => box[t].row = snap[t]
        <5>. SUFFICES ASSUME <<m.f, m.s>> \in spf PROVE box[t].row = snap[t]
          OBVIOUS
        <5>1. Shown(m.f, t)
          BY <1>a, <1>b, <1>s, <2>2, <4>1 DEF SInv, RowsAt
        <5>2. box[t] # Free
          BY <1>b, <3>1, <4>2
        <5>. QED BY <5>1, <5>2 DEF Shown
      <4>4. box[t].f = g /\ box[t].row = snap'[t] /\ snap'[t] # None
        BY <1>b, <1>f, <2>2, <3>1, <4>2, <4>3
      <4>. QED BY <4>4 DEF Shown, Write
    <3>4. ASSUME NEW i \in 1..Len(q'), FirstOf(i, t)' PROVE q'[i].f = g
      <4>1. NextOf(1, i+1, t) /\ q'[i] = q[i+1] /\ i+1 \in 1..Len(q)
        BY <1>a, <2>2, <3>4, TailFacts DEF m
      <4>2. ~LastOf(1, t)
        BY <4>1 DEF NextOf, LastOf, Of
      <4>3. PICK j \in 1..Len(q) : NextOf(1, j, t) /\ q[j].f = m.f
        BY <1>a, <1>s, <3>1, <4>2 DEF SInv, QueueAt, m
      <4>4. j = i+1
        BY <4>1, <4>3 DEF NextOf, Of
      <4>. QED BY <3>1, <4>1, <4>3, <4>4
    <3>. QED BY <3>3, <3>4
  <2>. QED BY <2>1, <2>2
<1>7. KeptAt'
  <2>. SUFFICES ASSUME NEW t \in Sound', box[t].row # None, ~GoneSoon(t)'
                PROVE  \/ <<box[t].f, t>> \in spf'
                       \/ \E i \in 1..Len(q') : Of(i, t)' /\ q'[i].op = "new" /\ q'[i].f = box[t].f
    BY DEF KeptAt, Write
  <2>1. CASE t # m.s
    <3>1. ~GoneSoon(t) /\ t \in Sound
      BY <1>a, <1>s, <2>1, TailFacts DEF m
    <3>2. CASE <<box[t].f, t>> \in spf
      <4>1. box[t].f \in Functions
        BY <3>2 DEF SInv, Typed
      <4>. QED BY <1>d, <2>1, <3>2, <4>1
    <3>3. CASE \E i \in 1..Len(q) : Of(i, t) /\ q[i].op = "new" /\ q[i].f = box[t].f
      <4>1. PICK i \in 1..Len(q) : Of(i, t) /\ q[i].op = "new" /\ q[i].f = box[t].f
        BY <3>3
      <4>2. i # 1
        BY <2>1, <4>1 DEF Of, m
      <4>3. i-1 \in 1..Len(q') /\ q'[i-1] = q[i]
        BY <1>a, <4>2
      <4>. QED BY <4>1, <4>3 DEF Of
    <3>. QED BY <3>1, <3>2, <3>3 DEF SInv, KeptAt
  <2>2. CASE t = m.s /\ m.op = "new"
    <3>1. ~GoneSoon(t) /\ Of(1, t)
      BY <1>a, <2>2, TailFacts DEF m, FirstOf
    <3>2. box[t].f = m.f
      BY <1>a, <1>s, <3>1, SoleMessage DEF SInv, m
    <3>. QED BY <1>f, <2>2, <3>2
  <2>3. CASE t = m.s /\ m.op = "removed"
    <3>1. PICK i \in 1..Len(q') : Of(i, t)'
      <4>1. SUFFICES ASSUME \A i \in 1..Len(q') : ~Of(i, t)' PROVE FALSE
        OBVIOUS
      <4>2. LastOf(1, t)
        BY <1>a, <2>3, <4>1, TailFacts DEF m
      <4>. QED BY <1>a, <1>s, <2>3, <4>2 DEF SInv, QueueAt, m
    <3>2. q'[i].op = "new"
      BY <1>1, <3>1 DEF Typed, SnapshotManagerMessage, GoneSoon, Of
    <3>3. LastOf(i, t)'
      BY <1>5, <3>1, <3>2 DEF QueueAt, GoneSoon, NextOf, Of, Write
    <3>4. q'[i].f = box[t].f
      BY <1>5, <3>2, <3>3 DEF QueueAt, Write
    <3>. QED BY <3>1, <3>2, <3>4
  <2>. QED BY <1>b, <2>1, <2>2, <2>3
<1>8. TodoAt'
  <2>1. ASSUME NEW t \in Sound', NEW i \in 1..Len(q'), Of(i, t)', q'[i].op = "removed", box[t] # Free, retain,
               phase \in {"sync", "drain"}
        PROVE  q'[i].f = box[t].f
    <3>1. i+1 \in 1..Len(q) /\ q'[i] = q[i+1] /\ Of(i+1, t)
      BY <1>a, <2>1, TailFacts DEF Of
    <3>. QED BY <1>s, <2>1, <3>1 DEF SInv, TodoAt
  <2>2. ASSUME phase = "sync", NEW f \in Functions, NEW t \in Sound', <<f, t>> \in todo,
               ~GoneSoon(t)', NEW g \in Functions, <<g, t>> \in spf'
        PROVE  g = f
    <3>1. CASE t # m.s
      <4>1. ~GoneSoon(t) /\ <<g, t>> \in spf
        BY <1>a, <1>d, <2>2, <3>1, TailFacts DEF m
      <4>. QED BY <1>s, <2>2, <4>1 DEF SInv, TodoAt
    <3>2. CASE t = m.s
      <4>1. m.op = "new" /\ g = m.f /\ Of(1, t)
        BY <1>a, <1>b, <1>e, <1>g, <2>2, <3>2 DEF FirstOf
      <4>2. ~GoneSoon(t)
        BY <1>a, <2>2, <4>1, TailFacts DEF m
      <4>3. box[t].f = m.f /\ box[t].row = m.row
        BY <1>a, <1>s, <4>1, <4>2, SoleMessage DEF SInv, m
      <4>. QED BY <1>b, <1>s, <2>2, <4>1, <4>3 DEF SInv, TodoAt
    <3>. QED BY <3>1, <3>2
  <2>3. phase # "boot"
    BY <1>a
  <2>4. ASSUME phase = "sync", NEW f \in Functions, NEW t \in Sound', <<f, t>> \in todo, box[t].row # None
        PROVE  box[t].at = "parked" /\ box[t].f = f
    BY <1>s, <2>4 DEF SInv, TodoAt
  <2>5. phase' = phase /\ retain' = retain /\ todo' = todo /\ box' = box
    BY DEF Write
  <2>6. phase' \in {"sync", "drain"} /\ retain' => \A t \in Sound', i \in 1..Len(q') :
          Of(i, t)' /\ q'[i].op = "removed" /\ box'[t] # Free => q'[i].f = box'[t].f
    BY <2>1, <2>5
  <2>7. ASSUME phase' = "sync", NEW f \in Functions, NEW t \in Sound', <<f, t>> \in todo'
        PROVE  /\ box'[t].row # None => box'[t].at = "parked" /\ box'[t].f = f
               /\ ~GoneSoon(t)' => \A g \in Functions : <<g, t>> \in spf' => g = f
    BY <2>2, <2>4, <2>5, <2>7
  <2>. QED BY <2>3, <2>5, <2>6, <2>7 DEF TodoAt
<1>9. MoveAt'
  BY DEF SInv, Typed, PhaseAt, MoveAt, Move, Write, Fails, db_new_snapshot, db_rm_snapshot, RemovedStateOnly
<1>. QED BY <1>1, <1>2, <1>3, <1>4, <1>5, <1>6, <1>7, <1>8, <1>9 DEF SInv

LEMMA StopStep ==
    ASSUME SInv, Stop PROVE SInv'
<1>1. Typed'
  BY DEF SInv, Typed, Stop, Crossed
<1>2. PhaseAt'
  BY DEF SInv, Typed, PhaseAt, Stop
<1>3. BoxAt'
  BY DEF SInv, Typed, PhaseAt, BoxAt, Stop
<1>4. FilesAt'
  BY DEF SInv, Typed, PhaseAt, FilesAt, Stop
<1>5. QueueAt'
  BY QueueFrame DEF SInv, QueueAt, Stop
<1>6. RowsAt'
  BY QueueFrame, LoadsFrame DEF SInv, RowsAt, Shown, Stop
<1>7. KeptAt'
  BY QueueFrame DEF SInv, KeptAt, Stop
<1>8. TodoAt'
  <2>1. phase = "run" /\ phase' \in {"sync", "wipe"} /\ UNCHANGED <<box, spf, q, retain>> /\ \A s \in Sound' : s \in Sound
    BY DEF Stop
  <2>2. ASSUME retain, NEW s \in Sound', NEW i \in 1..Len(q), Of(i, s), q[i].op = "removed", box[s] # Free
        PROVE  q[i].f = box[s].f
    <3>1. s \in Sids /\ s \notin Crossed
      BY <2>2 DEF Stop
    <3>. QED BY <2>2, <3>1 DEF Crossed, Of
  <2>3. ASSUME retain, NEW f \in Functions, NEW s \in Sound', <<f, s>> \in spf, box[s].row # None
        PROVE  box[s].at = "parked" /\ box[s].f = f
    <3>1. box[s].at \notin {"free", "busy", "kept", "trashed"}
      BY <2>1, <2>3 DEF SInv, BoxAt, Stop
    <3>2. box[s].at = "parked"
      BY <3>1 DEF SInv, Typed
    <3>3. CASE ~GoneSoon(s)
      <4>1. Shown(f, s)
        BY <2>1, <2>3, <3>3 DEF SInv, RowsAt
      <4>2. box[s] # Free
        BY <3>2
      <4>. QED BY <3>2, <4>1, <4>2 DEF Shown
    <3>4. CASE GoneSoon(s)
      <4>1. \A i \in 1..Len(q) : FirstOf(i, s) => q[i].f = box[s].f
        BY <2>1, <2>2, <2>3, <3>2, OwnMessages DEF SInv
      <4>2. PICK i \in 1..Len(q) : FirstOf(i, s)
        BY <3>4, FirstExists DEF SInv, Typed
      <4>3. q[i].f = f
        BY <2>1, <2>3, <4>2 DEF SInv, RowsAt
      <4>. QED BY <3>2, <4>1, <4>2, <4>3
    <3>. QED BY <3>3, <3>4
  <2>4. ASSUME NEW f \in Functions, NEW g \in Functions, NEW s \in Sound', <<f, s>> \in spf, <<g, s>> \in spf,
               ~GoneSoon(s)
        PROVE  g = f
    BY <2>1, <2>4, OneFunction
  <2>5. phase' = "sync" => retain /\ todo' = spf
    BY DEF Stop
  <2>. QED BY <2>1, <2>2, <2>3, <2>4, <2>5, QueueFrame DEF TodoAt
<1>9. MoveAt'
  BY DEF SInv, Typed, PhaseAt, MoveAt, Move, Stop
<1>. QED BY <1>1, <1>2, <1>3, <1>4, <1>5, <1>6, <1>7, <1>8, <1>9 DEF SInv

\* Where the process dies, of what it was about to do nothing is left.
LEMMA DiesStep ==
    ASSUME SInv, Up, Dies PROVE SInv'
<1>1. Typed'
  <2>1. \A j \in 1..Len(q) : q[j].s \in Sids
    BY DEF SInv, Typed, SnapshotManagerMessage
  <2>2. failed' \subseteq Sids
    BY <2>1 DEF SInv, Typed, Dies
  <2>. QED BY <2>2 DEF SInv, Typed, Dies
<1>2. PhaseAt'
  BY DEF SInv, Typed, PhaseAt, Dies
<1>3. BoxAt'
  BY DEF SInv, Typed, PhaseAt, BoxAt, Dies
<1>4. FilesAt'
  BY DEF SInv, Typed, PhaseAt, FilesAt, Dies
<1>5. QueueAt'
  BY DEF QueueAt, Dies
<1>6. RowsAt'
  <2>. SUFFICES ASSUME NEW f \in Functions, NEW s \in Sound', <<f, s>> \in spf PROVE Loads(f, s)'
    BY NoMessage DEF RowsAt, Dies
  <2>1. s \in Sound /\ ~GoneSoon(s)
    BY DEF Dies, GoneSoon
  <2>. QED BY <2>1, RowLoads, LoadsFrame DEF Dies
<1>7. KeptAt'
  BY DEF KeptAt, Dies
<1>8. TodoAt'
  BY DEF TodoAt, Dies
<1>9. MoveAt'
  BY DEF SInv, Typed, PhaseAt, MoveAt, Move, Dies
<1>. QED BY <1>1, <1>2, <1>3, <1>4, <1>5, <1>6, <1>7, <1>8, <1>9 DEF SInv


LEMMA wipe_db_snapshotsStep ==
    ASSUME SInv, wipe_db_snapshots PROVE SInv'
<1>1. Typed'
  BY DEF SInv, Typed, wipe_db_snapshots
<1>2. PhaseAt'
  BY DEF SInv, Typed, PhaseAt, wipe_db_snapshots
<1>3. BoxAt'
  BY DEF SInv, Typed, PhaseAt, BoxAt, wipe_db_snapshots
<1>a. \A s \in Sound' : box[s].row = None
  <2>. SUFFICES ASSUME NEW s \in Sids, s \notin failed, box[s].at # "parked" PROVE box[s].row = None
    BY DEF wipe_db_snapshots
  <2>1. box[s].at \notin {"busy", "kept", "trashed"}
    BY DEF SInv, BoxAt, wipe_db_snapshots
  <2>. QED BY <2>1 DEF SInv, Typed, BoxAt
<1>b. \A s \in Sound', i \in 1..Len(q) : Of(i, s) => q[i].op # "new"
  BY DEF Of, wipe_db_snapshots
<1>4. FilesAt'
  BY <1>a DEF FilesAt, wipe_db_snapshots
<1>5. QueueAt'
  BY <1>a, <1>b, QueueFrame DEF QueueAt, LastOf, wipe_db_snapshots
<1>6. RowsAt'
  BY DEF RowsAt, wipe_db_snapshots
<1>7. KeptAt'
  BY <1>a DEF KeptAt, wipe_db_snapshots
<1>8. TodoAt'
  BY DEF SInv, Typed, PhaseAt, TodoAt, GoneSoon, wipe_db_snapshots
<1>9. MoveAt'
  BY DEF SInv, Typed, PhaseAt, MoveAt, Move, wipe_db_snapshots
<1>. QED BY <1>1, <1>2, <1>3, <1>4, <1>5, <1>6, <1>7, <1>8, <1>9 DEF SInv

LEMMA SyncedStep ==
    ASSUME SInv, Synced PROVE SInv'
<1>1. Typed'
  BY DEF SInv, Typed, Synced
<1>2. PhaseAt'
  BY DEF SInv, Typed, PhaseAt, Synced
<1>3. BoxAt'
  BY DEF SInv, Typed, PhaseAt, BoxAt, Synced
<1>4. FilesAt'
  BY DEF SInv, Typed, PhaseAt, FilesAt, Synced
<1>5. QueueAt'
  BY QueueFrame DEF SInv, QueueAt, Synced
<1>6. RowsAt'
  BY QueueFrame, LoadsFrame DEF SInv, RowsAt, Shown, Synced
<1>7. KeptAt'
  BY QueueFrame DEF SInv, KeptAt, Synced
<1>8. TodoAt'
  BY QueueFrame DEF SInv, TodoAt, Synced
<1>9. MoveAt'
  BY DEF SInv, Typed, PhaseAt, MoveAt, Move, Synced
<1>. QED BY <1>1, <1>2, <1>3, <1>4, <1>5, <1>6, <1>7, <1>8, <1>9 DEF SInv

LEMMA SyncFailsStep ==
    ASSUME SInv, SyncFails PROVE SInv'
<1>1. Typed'
  BY DEF SInv, Typed, SyncFails
<1>2. PhaseAt'
  BY DEF SInv, Typed, PhaseAt, SyncFails
<1>3. BoxAt'
  BY DEF SInv, Typed, PhaseAt, BoxAt, SyncFails
<1>4. FilesAt'
  BY DEF SInv, Typed, PhaseAt, FilesAt, SyncFails
<1>5. QueueAt'
  BY QueueFrame DEF SInv, QueueAt, SyncFails
<1>6. RowsAt'
  BY QueueFrame, LoadsFrame DEF SInv, RowsAt, Shown, SyncFails
<1>7. KeptAt'
  BY QueueFrame DEF SInv, KeptAt, SyncFails
<1>8. TodoAt'
  BY QueueFrame DEF SInv, TodoAt, SyncFails
<1>9. MoveAt'
  BY DEF SInv, Typed, PhaseAt, MoveAt, Move, SyncFails
<1>. QED BY <1>1, <1>2, <1>3, <1>4, <1>5, <1>6, <1>7, <1>8, <1>9 DEF SInv

LEMMA EndedStep ==
    ASSUME SInv, Ended PROVE SInv'
<1>1. Typed'
  BY DEF SInv, Typed, Ended
<1>2. PhaseAt'
  BY DEF SInv, Typed, PhaseAt, Ended
<1>3. BoxAt'
  BY DEF SInv, Typed, PhaseAt, BoxAt, Ended
<1>4. FilesAt'
  BY DEF SInv, Typed, PhaseAt, FilesAt, Ended
<1>5. QueueAt'
  BY QueueFrame DEF SInv, QueueAt, Ended
<1>6. RowsAt'
  <2>. SUFFICES ASSUME NEW f \in Functions, NEW s \in Sound, <<f, s>> \in spf PROVE Loads(f, s)'
    BY NoMessage DEF RowsAt, Ended
  <2>. QED BY NoMessage, RowLoads, LoadsFrame DEF Ended
<1>7. KeptAt'
  BY QueueFrame DEF SInv, KeptAt, Ended
<1>8. TodoAt'
  BY QueueFrame DEF SInv, TodoAt, Ended
<1>9. MoveAt'
  BY DEF SInv, Typed, PhaseAt, MoveAt, Move, Ended
<1>. QED BY <1>1, <1>2, <1>3, <1>4, <1>5, <1>6, <1>7, <1>8, <1>9 DEF SInv

LEMMA DestroyOrphanStep ==
    ASSUME SInv, NEW s \in Sids, DestroyOrphan(s) PROVE SInv'
<1>1. Typed'
  BY DEF SInv, Typed, DestroyOrphan, Fails, Unlinked
<1>2. PhaseAt'
  BY DEF SInv, Typed, PhaseAt, DestroyOrphan, Fails, Unlinked
<1>3. BoxAt'
  BY DEF SInv, Typed, PhaseAt, BoxAt, DestroyOrphan, Fails, Unlinked
<1>a. /\ \A t \in Sound' : t \in Sound /\ t # s /\ box'[t] = box[t]
      /\ UNCHANGED <<phase, retain, q, tables, todo>>
  BY DEF SInv, Typed, DestroyOrphan, Fails
<1>b. \A y \in Slots : y[1] # s => files'[y] = files[y]
  <2>1. box[s].row \in Rows
    BY DEF SInv, Typed, BoxAt, DestroyOrphan
  <2>. QED BY <2>1, FilesOfFacts DEF SInv, Typed, DestroyOrphan, Unlinked
<1>4. FilesAt'
  <2>. SUFFICES ASSUME NEW t \in Sound', box'[t].row # None, NEW x \in FilesOf(t, box'[t].row)
                PROVE  files'[x] = box'[t].f
    BY DEF FilesAt, FilesOf
  <2>1. box[t].row \in Rows
    BY <1>a DEF SInv, Typed
  <2>. QED BY <1>a, <1>b, <2>1, Elsewhere DEF SInv, FilesAt
<1>5. QueueAt'
  BY <1>a, QueueFrame DEF SInv, QueueAt
<1>6. RowsAt'
  <2>1. ASSUME NEW f \in Functions, NEW t \in Sound' PROVE Shown(f, t)' <=> Shown(f, t)
    BY <1>a, <1>b, ShownElsewhere DEF SInv
  <2>2. phase = "wipe"
    BY DEF DestroyOrphan
  <2>. QED BY <1>a, <2>1, <2>2, QueueFrame DEF SInv, RowsAt
<1>7. KeptAt'
  BY <1>a, QueueFrame DEF SInv, KeptAt
<1>8. TodoAt'
  BY DEF SInv, PhaseAt, TodoAt, DestroyOrphan
<1>9. MoveAt'
  BY DEF SInv, Typed, PhaseAt, MoveAt, Move, DestroyOrphan, Fails, Unlinked
<1>. QED BY <1>1, <1>2, <1>3, <1>4, <1>5, <1>6, <1>7, <1>8, <1>9 DEF SInv

LEMMA SyncListedStep ==
    ASSUME SInv, NEW f \in Functions, SyncListed(f) PROVE SInv'
<1>. DEFINE gone == SidsOf(f, todo) \ Tracked(f)
<1>a. /\ phase = "sync" /\ snap' = Updated(f, gone) /\ box' = Forgotten(f)
      /\ spf' = IF f \in keys THEN spf ELSE remove_db_sids(f, gone)
      /\ keys' = keys \ {f} /\ todo' = {r \in todo : r[1] # f}
      /\ stale' = stale \cup OnlyListed(f, gone)
      /\ UNCHANGED <<phase, retain, reg, q, mv, failed>>
  BY DEF SyncListed
<1>b. PICK ok \in SUBSET {s \in gone : f \in reg /\ box[s] = Free /\ snap[s] # None} :
          files' = [x \in Slots |-> IF \E s \in ok : x \in FilesOf(s, snap[s]) THEN None ELSE files[x]]
  BY DEF SyncListed, reinstate_and_destroy_db_snapshots
<1>c. \A t \in Sids : box'[t].f = box[t].f /\ box'[t].row = box[t].row
  BY <1>a DEF SInv, Typed, Forgotten
<1>s. \A t \in Sound' : t \in Sound /\ t \notin OnlyListed(f, gone)
  BY <1>a
<1>d. \A t \in Sound : t \in gone => box[t].row = None /\ <<f, t>> \in todo
  BY <1>a DEF SInv, TodoAt, SidsOf, Tracked
<1>e. /\ \A g \in Functions, t \in Sids : <<g, t>> \in spf' => <<g, t>> \in spf
      /\ \A g \in Functions, t \in Sound : <<g, t>> \in spf /\ box[t].row # None => <<g, t>> \in spf'
  BY <1>a, <1>d DEF remove_db_sids
<1>f. \A t \in Sound : box[t].row # None => snap'[t] = box[t].row \/ snap'[t] = snap[t]
  BY <1>a, <1>d DEF Updated
<1>g. \A t \in Sids : t \notin gone => (t \in Tracked(f) /\ snap'[t] = box[t].row /\ box[t].at = "parked" /\ box[t].f = f)
                                    \/ (t \notin Tracked(f) /\ snap'[t] = snap[t] /\ box'[t] = box[t])
  BY <1>a DEF SInv, Typed, Updated, Forgotten, Tracked
<1>h. \A t \in Sound : box[t] # Free => (box[t].row # None \/ box[t].at # "parked")
  BY DEF SInv, BoxAt
<1>. HIDE DEF gone
<1>1. Typed'
  <2>1. snap' \in [Sids -> Option(Rows)]
    BY <1>a DEF SInv, Typed, Updated
  <2>2. files' \in [Slots -> Option(Functions)]
    BY <1>b DEF SInv, Typed
  <2>3. box' \in [Sids -> [at : {"free", "busy", "parked", "kept", "trashed"},
                           f : Option(Functions), row : Option(Rows)]]
    BY <1>a DEF SInv, Typed, Forgotten
  <2>4. spf' \subseteq Functions \X Sids
    BY <1>a DEF SInv, Typed, remove_db_sids
  <2>5. stale' \subseteq Sids
    BY <1>a DEF SInv, Typed, OnlyListed, gone, SidsOf
  <2>. QED BY <1>a, <2>1, <2>2, <2>3, <2>4, <2>5 DEF SInv, Typed
<1>2. PhaseAt'
  BY DEF SInv, Typed, PhaseAt, SyncListed, Updated, Forgotten, Tracked, SidsOf, remove_db_sids, reinstate_and_destroy_db_snapshots
<1>3. BoxAt'
  BY DEF SInv, Typed, PhaseAt, BoxAt, SyncListed, Updated, Forgotten, Tracked, SidsOf, remove_db_sids, reinstate_and_destroy_db_snapshots
<1>4. FilesAt'
  <2>. SUFFICES ASSUME NEW t \in Sound, box[t].row # None, NEW x \in FilesOf(t, box[t].row)
                PROVE  files'[x] = box[t].f
    BY <1>c, <1>s DEF FilesAt, FilesOf
  <2>1. box[t].row \in Rows /\ t \notin ok
    BY <1>b DEF SInv, Typed
  <2>2. x \in Slots /\ x[1] = t
    BY <2>1, FilesOfFacts
  <2>3. ASSUME NEW s \in ok, x \in FilesOf(s, snap[s]) PROVE FALSE
    <3>1. s \in Sids /\ snap[s] \in Rows
      BY <1>b DEF SInv, Typed, gone, SidsOf
    <3>2. x[1] = s
      BY <2>3, <3>1, FilesOfFacts
    <3>. QED BY <2>1, <2>2, <3>2
  <2>4. files[x] = box[t].f
    BY DEF SInv, FilesAt
  <2>. QED BY <1>b, <2>2, <2>3, <2>4
<1>5. QueueAt'
  BY <1>a, <1>c, <1>s, QueueFrame DEF SInv, QueueAt
<1>6. RowsAt'
  <2>. SUFFICES ASSUME NEW g \in Functions, NEW t \in Sound', <<g, t>> \in spf'
                PROVE  /\ ~GoneSoon(t) => Shown(g, t)'
                       /\ \A i \in 1..Len(q) : FirstOf(i, t) => q[i].f = g
    BY <1>a, QueueFrame DEF RowsAt
  <2>1. <<g, t>> \in spf /\ t \in Sound
    BY <1>e, <1>s
  <2>2. \A i \in 1..Len(q) : FirstOf(i, t) => q[i].f = g
    BY <2>1 DEF SInv, RowsAt
  <2>3. ASSUME ~GoneSoon(t) PROVE Shown(g, t)'
    <3>1. Shown(g, t)
      BY <1>a, <2>1, <2>3 DEF SInv, RowsAt
    <3>2. t \notin gone
      <4>. SUFFICES ASSUME t \in gone PROVE FALSE
        OBVIOUS
      <4>1. g = f
        BY <1>a, <1>d, <2>1, <2>3 DEF SInv, TodoAt
      <4>2. f \notin keys
        BY <1>s, <2>3 DEF OnlyListed
      <4>. QED BY <1>a, <4>1, <4>2 DEF remove_db_sids
    <3>3. CASE t \in Tracked(f)
      <4>1. snap'[t] = box[t].row /\ box[t].row # None /\ box[t].f = f
        BY <1>g, <2>1, <3>2, <3>3 DEF SInv, BoxAt
      <4>. QED BY <1>c, <2>1, <3>1, <4>1 DEF Shown
    <3>4. CASE t \notin Tracked(f)
      <4>1. snap'[t] = snap[t] /\ box'[t] = box[t]
        BY <1>g, <2>1, <3>2, <3>4
      <4>2. ASSUME NEW x \in Slots, x[1] = t PROVE files'[x] = files[x]
        <5>1. \A s \in ok : s # t /\ s \in Sids /\ snap[s] \in Rows
          BY <1>b, <3>2 DEF SInv, Typed, gone, SidsOf
        <5>2. \A s \in ok : x \notin FilesOf(s, snap[s])
          BY <4>2, <5>1, FilesOfFacts
        <5>. QED BY <1>b, <5>2
      <4>. QED BY <2>1, <3>1, <4>1, <4>2, ShownElsewhere DEF SInv
    <3>. QED BY <3>3, <3>4
  <2>. QED BY <2>2, <2>3
<1>7. KeptAt'
  <2>. SUFFICES ASSUME NEW t \in Sound', box[t].row # None, ~GoneSoon(t)
                PROVE  \/ <<box[t].f, t>> \in spf'
                       \/ \E i \in 1..Len(q) : Of(i, t) /\ q[i].op = "new" /\ q[i].f = box[t].f
    BY <1>a, <1>c, QueueFrame DEF KeptAt
  <2>1. <<box[t].f, t>> \in spf => box[t].f \in Functions
    BY DEF SInv, Typed
  <2>. QED BY <1>e, <1>s, <2>1 DEF SInv, KeptAt
<1>8. TodoAt'
  <2>1. ASSUME NEW s \in Sound', NEW i \in 1..Len(q), Of(i, s), q[i].op = "removed", box'[s] # Free
        PROVE  q[i].f = box'[s].f
    <3>1. box[s] # Free
      BY <1>a, <1>s, <2>1 DEF SInv, Typed, Forgotten, Tracked
    <3>. QED BY <1>a, <1>c, <1>s, <2>1, <3>1 DEF SInv, PhaseAt, TodoAt
  <2>2. ASSUME NEW g \in Functions, NEW s \in Sound', <<g, s>> \in todo', box[s].row # None
        PROVE  box'[s].at = "parked" /\ box'[s].f = g
    <3>1. g # f /\ box[s].at = "parked" /\ box[s].f = g
      BY <1>a, <1>s, <2>2 DEF SInv, TodoAt
    <3>. QED BY <1>a, <3>1 DEF Forgotten, Tracked
  <2>3. ASSUME NEW g \in Functions, NEW s \in Sound', <<g, s>> \in todo', ~GoneSoon(s),
               NEW h \in Functions, <<h, s>> \in spf'
        PROVE  h = g
    BY <1>a, <1>e, <1>s, <2>3 DEF SInv, TodoAt
  <2>. QED BY <1>a, <1>c, <2>1, <2>2, <2>3, QueueFrame DEF TodoAt
<1>9. MoveAt'
  BY DEF SInv, Typed, PhaseAt, MoveAt, Move, SyncListed, Updated, Forgotten, Tracked, SidsOf, remove_db_sids, reinstate_and_destroy_db_snapshots
<1>. QED BY <1>1, <1>2, <1>3, <1>4, <1>5, <1>6, <1>7, <1>8, <1>9 DEF SInv

LEMMA SyncUnlistedStep ==
    ASSUME SInv, NEW f \in Functions, SyncUnlisted(f) PROVE SInv'
<1>a. /\ phase = "sync" /\ snap' = Updated(f, {}) /\ box' = Forgotten(f) /\ spf' = update_db_sids(f, Tracked(f))
      /\ UNCHANGED <<phase, retain, reg, files, keys, todo, q, failed, stale>>
  BY DEF SyncUnlisted
<1>b. \A t \in Sids : box'[t].f = box[t].f /\ box'[t].row = box[t].row
  BY <1>a DEF SInv, Typed, Forgotten
<1>c. \A t \in Sids : snap'[t] = IF t \in Tracked(f) THEN box[t].row ELSE snap[t]
  BY <1>a DEF Updated
<1>d. \A t \in Tracked(f) : t \in Sids /\ box[t].f = f /\ box[t].row # None /\ box[t] # Free
  BY DEF SInv, BoxAt, Tracked
<1>f. \A t \in Sids : t \notin Tracked(f) => box'[t] = box[t]
  BY <1>a DEF SInv, Typed, Forgotten
<1>g. ASSUME NEW t \in Sound, t \in Tracked(f) PROVE \A i \in 1..Len(q) : FirstOf(i, t) => q[i].f = f
  <2>1. \A i \in 1..Len(q) : Of(i, t) /\ q[i].op = "removed" => q[i].f = box[t].f
    BY <1>a, <1>d, <1>g DEF SInv, PhaseAt, TodoAt
  <2>. QED BY <1>d, <1>g, <2>1, OwnMessages DEF SInv
<1>e. \A g, t : <<g, t>> \in spf' <=> <<g, t>> \in spf \/ (g = f /\ t \in Tracked(f))
  BY <1>a DEF update_db_sids
<1>1. Typed'
  BY DEF SInv, Typed, SyncUnlisted, Updated, Forgotten, Tracked, update_db_sids
<1>2. PhaseAt'
  BY DEF SInv, Typed, PhaseAt, SyncUnlisted, Updated, Forgotten, Tracked, update_db_sids
<1>3. BoxAt'
  BY DEF SInv, Typed, PhaseAt, BoxAt, SyncUnlisted, Updated, Forgotten, Tracked, update_db_sids
<1>4. FilesAt'
  BY DEF SInv, Typed, PhaseAt, FilesAt, SyncUnlisted, Updated, Forgotten, Tracked, update_db_sids
<1>5. QueueAt'
  BY QueueFrame DEF SInv, QueueAt, SyncUnlisted, Updated, Forgotten, Tracked, update_db_sids
<1>6. RowsAt'
  <2>. SUFFICES ASSUME NEW g \in Functions, NEW t \in Sound, <<g, t>> \in spf'
                PROVE  /\ ~GoneSoon(t) => Shown(g, t)'
                       /\ \A i \in 1..Len(q) : FirstOf(i, t) => q[i].f = g
    BY <1>a, QueueFrame DEF RowsAt
  <2>1. CASE t \notin Tracked(f)
    <3>1. <<g, t>> \in spf
      BY <1>e, <2>1
    <3>2. /\ ~GoneSoon(t) => Shown(g, t)
          /\ \A i \in 1..Len(q) : FirstOf(i, t) => q[i].f = g
      BY <1>a, <3>1 DEF SInv, RowsAt
    <3>3. Shown(g, t)' <=> Shown(g, t)
      BY <1>a, <1>c, <1>f, <2>1, ShownElsewhere DEF SInv
    <3>. QED BY <3>2, <3>3
  <2>2. CASE t \in Tracked(f)
    <3>1. box'[t].f = f /\ box'[t].row = snap'[t] /\ snap'[t] # None
      BY <1>b, <1>c, <1>d, <2>2
    <3>2. ASSUME <<g, t>> \in spf, g # f PROVE GoneSoon(t) /\ \A i \in 1..Len(q) : ~FirstOf(i, t)
      <4>1. \A i \in 1..Len(q) : FirstOf(i, t) => q[i].f = g
        BY <3>2 DEF SInv, RowsAt
      <4>2. ~GoneSoon(t) => Shown(g, t)
        BY <1>a, <3>2 DEF SInv, RowsAt
      <4>. QED BY <1>d, <1>g, <2>2, <3>2, <4>1, <4>2 DEF Shown
    <3>3. CASE g = f
      BY <1>g, <2>2, <3>1, <3>3 DEF Shown
    <3>4. CASE g # f
      BY <1>e, <3>2, <3>4
    <3>. QED BY <3>3, <3>4
  <2>. QED BY <2>1, <2>2
<1>h. todo = {}
  BY DEF SyncUnlisted
<1>7. KeptAt'
  BY <1>a, <1>b, <1>e, QueueFrame DEF SInv, KeptAt
<1>8. TodoAt'
  <2>1. \A t \in Sids : box'[t] # Free => box[t] # Free
    BY <1>d, <1>f
  <2>2. TodoAt
    BY DEF SInv
  <2>. QED BY <1>a, <1>b, <1>h, <2>1, <2>2, QueueFrame DEF TodoAt
<1>9. MoveAt'
  BY DEF SInv, Typed, PhaseAt, MoveAt, Move, SyncUnlisted, Updated, Forgotten, Tracked, update_db_sids
<1>. QED BY <1>1, <1>2, <1>3, <1>4, <1>5, <1>6, <1>7, <1>8, <1>9 DEF SInv

LEMMA forgetStep ==
    ASSUME SInv, NEW f \in Functions, forget(f) PROVE SInv'
<1>1. Typed'
  BY DEF SInv, Typed, forget, SidsOf
<1>2. PhaseAt'
  BY DEF SInv, Typed, PhaseAt, forget, SidsOf
<1>3. BoxAt'
  BY DEF SInv, Typed, PhaseAt, BoxAt, forget, SidsOf
<1>4. FilesAt'
  BY DEF SInv, Typed, PhaseAt, FilesAt, forget, SidsOf
<1>5. QueueAt'
  BY QueueFrame DEF SInv, QueueAt, forget
<1>6. RowsAt'
  <2>. SUFFICES ASSUME NEW g \in Functions, NEW t \in Sound, <<g, t>> \in spf'
                PROVE  /\ Loads(g, t)'
                       /\ \A i \in 1..Len(q) : FirstOf(i, t) => q[i].f = g
    BY QueueFrame DEF RowsAt, forget
  <2>1. <<g, t>> \in spf /\ g # f
    BY DEF forget
  <2>2. Loads(g, t) /\ \A i \in 1..Len(q) : FirstOf(i, t) => q[i].f = g
    BY <2>1 DEF SInv, RowsAt, forget
  <2>3. <<f, t>> \notin spf
    BY <2>1, NoMessage, OneFunction DEF SInv, PhaseAt, forget
  <2>4. snap'[t] = snap[t] /\ files' = files
    BY <2>3 DEF forget
  <2>. QED BY <2>2, <2>4 DEF Loads, FilesOf
<1>7. KeptAt'
  BY DEF SInv, Typed, PhaseAt, KeptAt, GoneSoon, Of, forget, SidsOf
<1>8. TodoAt'
  BY QueueFrame DEF SInv, TodoAt, forget
<1>9. MoveAt'
  BY DEF SInv, Typed, PhaseAt, MoveAt, Move, forget, SidsOf
<1>. QED BY <1>1, <1>2, <1>3, <1>4, <1>5, <1>6, <1>7, <1>8, <1>9 DEF SInv

LEMMA MvUpdateStep ==
    ASSUME SInv, NEW s \in Sids, NEW k \in Kinds, MvUpdate(s, k) PROVE SInv'
<1>. DEFINE m == mv[<<s, k>>]
            row == [snap[s] EXCEPT ![k] = m.dst]
<1>a. /\ m.at = "copied" /\ snap[s] \in Rows /\ m.src \in Devices /\ m.dst \in Devices /\ m.src # m.dst
      /\ snap[s][k] = m.src /\ files[<<s, k, m.dst>>] = files[<<s, k, m.src>>]
  <2>1. m.at = "copied"
    BY DEF MvUpdate
  <2>2. Move(s, k, m)
    BY DEF SInv, MoveAt
  <2>3. snap[s] \in Option(Rows)
    BY DEF SInv, Typed
  <2>. HIDE DEF m
  <2>. QED BY <2>1, <2>2, <2>3 DEF Move
<1>b. phase = "down"
  BY <1>a DEF SInv, PhaseAt
<1>c. snap' = [snap EXCEPT ![s] = row] /\ UNCHANGED <<files, spf, phase, retain, reg, failed, stale, q>>
  BY DEF MvUpdate
<1>d. row \in Rows /\ row[k] = m.dst /\ \A j \in Kinds : j # k => row[j] = snap[s][j]
  BY <1>a, RowUpdate
<1>. DEFINE n == [m EXCEPT !.at = "updated"]
<1>e. /\ n \in [at : {"idle", "copied", "updated"}, src : Option(Devices), dst : Option(Devices)]
      /\ n.at = "updated" /\ n.src = m.src /\ n.dst = m.dst
  <2>1. m \in [at : {"idle", "copied", "updated"}, src : Option(Devices), dst : Option(Devices)]
    <3>1. <<s, k>> \in Sids \X Kinds
      OBVIOUS
    <3>. QED BY <3>1 DEF SInv, Typed
  <2>. HIDE DEF m
  <2>. QED BY <2>1
<1>f. <<s, k>> \in Sids \X Kinds /\ mv' = [mv EXCEPT ![<<s, k>>] = n]
  BY DEF MvUpdate
<1>. HIDE DEF m, n, row
<1>g. \A x \in Sids \X Kinds : mv'[x] = IF x = <<s, k>> THEN n ELSE mv[x]
  BY <1>f DEF SInv, Typed
<1>1. Typed'
  <2>1. (snap \in [Sids -> Option(Rows)])'
    BY <1>c, <1>d DEF SInv, Typed
  <2>2. (mv \in [Sids \X Kinds -> [at : {"idle", "copied", "updated"},
                                  src : Option(Devices), dst : Option(Devices)]])'
    BY <1>e, <1>f DEF SInv, Typed
  <2>. QED BY <2>1, <2>2 DEF SInv, Typed, MvUpdate
<1>2. PhaseAt'
  BY DEF SInv, Typed, PhaseAt, MvUpdate
<1>3. BoxAt'
  BY DEF SInv, Typed, PhaseAt, BoxAt, MvUpdate
<1>4. FilesAt'
  BY DEF SInv, Typed, PhaseAt, FilesAt, MvUpdate
<1>5. QueueAt'
  BY QueueFrame DEF SInv, QueueAt, MvUpdate
<1>6. RowsAt'
  <2>. SUFFICES ASSUME NEW g \in Functions, NEW t \in Sound, <<g, t>> \in spf
                PROVE  /\ Loads(g, t)'
                       /\ \A i \in 1..Len(q) : FirstOf(i, t) => q[i].f = g
    BY <1>b, <1>c, QueueFrame DEF RowsAt
  <2>1. Loads(g, t) /\ \A i \in 1..Len(q) : FirstOf(i, t) => q[i].f = g
    BY <1>b DEF SInv, RowsAt
  <2>2. CASE t # s
    <3>1. snap'[t] = snap[t]
      BY <1>c, <2>2 DEF SInv, Typed
    <3>. QED BY <1>c, <2>1, <3>1 DEF Loads, FilesOf
  <2>3. CASE t = s
    <3>1. snap'[s] = row /\ row # None
      BY <1>c, <1>d, SnapshotsAssumption DEF SInv, Typed
    <3>2. \A j \in Kinds : files[<<s, j, snap[s][j]>>] = g
      BY <2>1, <2>3 DEF Loads, FilesOf
    <3>3. \A j \in Kinds : files[<<s, j, row[j]>>] = g
      BY <1>a, <1>d, <3>2
    <3>. QED BY <1>c, <2>1, <2>3, <3>1, <3>3 DEF Loads, FilesOf
  <2>. QED BY <2>2, <2>3
<1>7. KeptAt'
  BY QueueFrame DEF SInv, KeptAt, MvUpdate
<1>8. TodoAt'
  BY QueueFrame DEF SInv, TodoAt, MvUpdate
<1>9. MoveAt'
  <2>. SUFFICES ASSUME NEW t \in Sids, NEW j \in Kinds PROVE Move(t, j, mv[<<t, j>>])'
    BY DEF MoveAt
  <2>1. row # None /\ snap'[s] = row /\ \A r \in Sids : r # s => snap'[r] = snap[r]
    BY <1>c, <1>d, SnapshotsAssumption DEF SInv, Typed
  <2>2. CASE t = s /\ j = k
    BY <1>a, <1>d, <1>e, <1>g, <2>1, <2>2 DEF Move
  <2>3. CASE ~(t = s /\ j = k)
    <3>1. mv'[<<t, j>>] = mv[<<t, j>>]
      BY <1>g, <2>3
    <3>2. snap[t] # None => snap'[t] # None /\ snap'[t][j] = snap[t][j]
      BY <1>d, <2>1, <2>3
    <3>3. Move(t, j, mv[<<t, j>>])
      BY DEF SInv, MoveAt
    <3>. QED BY <1>c, <3>1, <3>2, <3>3 DEF Move
  <2>. QED BY <2>2, <2>3
<1>. QED BY <1>1, <1>2, <1>3, <1>4, <1>5, <1>6, <1>7, <1>8, <1>9 DEF SInv

LEMMA MvRemoveStep ==
    ASSUME SInv, NEW s \in Sids, NEW k \in Kinds, MvRemove(s, k) PROVE SInv'
<1>. DEFINE m == mv[<<s, k>>]
<1>a. m.at = "updated" /\ m.src \in Devices /\ m.src # m.dst /\ snap[s][k] = m.dst
  BY DEF SInv, Typed, MoveAt, Move, MvRemove
<1>b. phase = "down"
  BY <1>a DEF SInv, PhaseAt
<1>c. UNCHANGED <<snap, spf, phase, retain, reg, failed, stale, q>>
  BY DEF MvRemove
<1>d. \A x \in Slots : x # <<s, k, m.src>> => files'[x] = files[x]
  BY DEF SInv, Typed, MvRemove
<1>e. /\ \A x \in Sids \X Kinds : x # <<s, k>> => mv'[x] = mv[x]
      /\ mv'[<<s, k>>].at = "idle"
  BY DEF SInv, Typed, MvRemove
<1>. HIDE DEF m
<1>1. Typed'
  BY DEF SInv, Typed, MvRemove
<1>2. PhaseAt'
  BY DEF SInv, Typed, PhaseAt, MvRemove
<1>3. BoxAt'
  BY DEF SInv, Typed, PhaseAt, BoxAt, MvRemove
<1>4. FilesAt'
  BY DEF SInv, Typed, PhaseAt, FilesAt, MvRemove
<1>5. QueueAt'
  BY QueueFrame DEF SInv, QueueAt, MvRemove
<1>6. RowsAt'
  <2>. SUFFICES ASSUME NEW g \in Functions, NEW t \in Sound, <<g, t>> \in spf
                PROVE  /\ Loads(g, t)'
                       /\ \A i \in 1..Len(q) : FirstOf(i, t) => q[i].f = g
    BY <1>b, <1>c, QueueFrame DEF RowsAt
  <2>1. Loads(g, t) /\ \A i \in 1..Len(q) : FirstOf(i, t) => q[i].f = g
    BY <1>b DEF SInv, RowsAt
  <2>2. snap[t] \in Rows
    BY <2>1 DEF SInv, Typed, Loads
  <2>3. \A j \in Kinds : snap[t][j] \in Devices /\ <<t, j, snap[t][j]>> \in Slots
    BY <2>2 DEF Rows, Slots
  <2>4. ASSUME NEW j \in Kinds PROVE files'[<<t, j, snap[t][j]>>] = g
    <3>1. files[<<t, j, snap[t][j]>>] = g
      BY <2>1 DEF Loads, FilesOf
    <3>2. <<t, j, snap[t][j]>> # <<s, k, m.src>>
      BY <1>a
    <3>. QED BY <1>d, <2>3, <3>1, <3>2
  <2>. QED BY <1>c, <2>1, <2>4 DEF Loads, FilesOf
<1>7. KeptAt'
  BY QueueFrame DEF SInv, KeptAt, MvRemove
<1>8. TodoAt'
  BY QueueFrame DEF SInv, TodoAt, MvRemove
<1>9. MoveAt'
  <2>. SUFFICES ASSUME NEW t \in Sids, NEW j \in Kinds PROVE Move(t, j, mv[<<t, j>>])'
    BY DEF MoveAt
  <2>1. CASE t = s /\ j = k
    BY <1>e, <2>1 DEF Move
  <2>2. CASE <<t, j>> # <<s, k>>
    <3>1. mv'[<<t, j>>] = mv[<<t, j>>] /\ \A e \in Devices : files'[<<t, j, e>>] = files[<<t, j, e>>]
      BY <1>d, <1>e, <2>2 DEF Slots
    <3>2. Move(t, j, mv[<<t, j>>])
      BY DEF SInv, MoveAt
    <3>. QED BY <1>c, <3>1, <3>2 DEF Move
  <2>. QED BY <2>1, <2>2
<1>. QED BY <1>1, <1>2, <1>3, <1>4, <1>5, <1>6, <1>7, <1>8, <1>9 DEF SInv

LEMMA MvCopyStep ==
    ASSUME SInv, NEW s \in Sids, NEW k \in Kinds, NEW d \in Devices, MvCopy(s, k, d) PROVE SInv'
<1>. DEFINE m == [at |-> "copied", src |-> snap[s][k], dst |-> d]
<1>a. /\ snap[s] \in Rows /\ snap[s][k] \in Devices /\ <<s, k, snap[s][k]>> \in Slots /\ <<s, k, d>> \in Slots
      /\ files[<<s, k, snap[s][k]>>] # None /\ files[<<s, k, d>>] = None
  BY DEF SInv, Typed, MvCopy, Listed, Rows, Slots
<1>b. phase = "down"
  BY DEF MvCopy
<1>c. UNCHANGED <<snap, spf, phase, retain, reg, failed, stale, q>>
  BY DEF MvCopy
<1>d. /\ \A x \in Slots : x # <<s, k, d>> => files'[x] = files[x]
      /\ files'[<<s, k, d>>] = files[<<s, k, snap[s][k]>>]
      /\ files' \in [Slots -> Option(Functions)]
  BY <1>a DEF SInv, Typed, MvCopy, copy_for_huge_dax_atomic
<1>e. \A x \in Sids \X Kinds : mv'[x] = IF x = <<s, k>> THEN m ELSE mv[x]
  BY DEF SInv, Typed, MvCopy
<1>1. Typed'
  BY <1>a, <1>d DEF SInv, Typed, MvCopy
<1>2. PhaseAt'
  BY DEF SInv, Typed, PhaseAt, MvCopy, copy_for_huge_dax_atomic, Listed
<1>3. BoxAt'
  BY DEF SInv, Typed, PhaseAt, BoxAt, MvCopy, copy_for_huge_dax_atomic, Listed
<1>4. FilesAt'
  BY DEF SInv, Typed, PhaseAt, FilesAt, MvCopy, copy_for_huge_dax_atomic, Listed
<1>5. QueueAt'
  BY QueueFrame DEF SInv, QueueAt, MvCopy, copy_for_huge_dax_atomic, Listed
<1>6. RowsAt'
  <2>. SUFFICES ASSUME NEW g \in Functions, NEW t \in Sound, <<g, t>> \in spf
                PROVE  /\ Loads(g, t)'
                       /\ \A i \in 1..Len(q) : FirstOf(i, t) => q[i].f = g
    BY <1>b, <1>c, QueueFrame DEF RowsAt
  <2>1. Loads(g, t) /\ \A i \in 1..Len(q) : FirstOf(i, t) => q[i].f = g
    BY <1>b DEF SInv, RowsAt
  <2>2. snap[t] \in Rows
    BY <2>1 DEF SInv, Typed, Loads
  <2>3. \A j \in Kinds : snap[t][j] \in Devices /\ <<t, j, snap[t][j]>> \in Slots
    BY <2>2 DEF Rows, Slots
  <2>4. ASSUME NEW j \in Kinds PROVE files'[<<t, j, snap[t][j]>>] = g
    <3>1. files[<<t, j, snap[t][j]>>] = g
      BY <2>1 DEF Loads, FilesOf
    <3>2. <<t, j, snap[t][j]>> # <<s, k, d>>
      BY <1>a, <3>1, SnapshotsAssumption
    <3>. QED BY <1>d, <2>3, <3>1, <3>2
  <2>. QED BY <1>c, <2>1, <2>4 DEF Loads, FilesOf
<1>7. KeptAt'
  BY QueueFrame DEF SInv, KeptAt, MvCopy, copy_for_huge_dax_atomic, Listed
<1>8. TodoAt'
  BY QueueFrame DEF SInv, TodoAt, MvCopy, copy_for_huge_dax_atomic, Listed
<1>9. MoveAt'
  <2>. SUFFICES ASSUME NEW t \in Sids, NEW j \in Kinds PROVE Move(t, j, mv[<<t, j>>])'
    BY DEF MoveAt
  <2>1. CASE t = s /\ j = k
    <3>1. snap[s] # None /\ d # snap[s][k] /\ files'[<<s, k, snap[s][k]>>] = files[<<s, k, snap[s][k]>>]
      BY <1>a, <1>d DEF MvCopy, Listed
    <3>2. mv'[<<s, k>>] = m
      BY <1>e
    <3>. QED BY <1>a, <1>c, <1>d, <2>1, <3>1, <3>2 DEF Move
  <2>2. CASE <<t, j>> # <<s, k>>
    <3>1. mv'[<<t, j>>] = mv[<<t, j>>] /\ \A e \in Devices : files'[<<t, j, e>>] = files[<<t, j, e>>]
      BY <1>d, <1>e, <2>2 DEF Slots
    <3>2. Move(t, j, mv[<<t, j>>])
      BY DEF SInv, MoveAt
    <3>. QED BY <1>c, <3>1, <3>2 DEF Move
  <2>. QED BY <2>1, <2>2
<1>. QED BY <1>1, <1>2, <1>3, <1>4, <1>5, <1>6, <1>7, <1>8, <1>9 DEF SInv

LEMMA MvDiesStep ==
    ASSUME SInv, MvDies PROVE SInv'
<1>1. Typed'
  BY DEF SInv, Typed, MvDies, Moving
<1>2. PhaseAt'
  BY DEF SInv, Typed, PhaseAt, MvDies, Moving
<1>3. BoxAt'
  BY DEF SInv, Typed, PhaseAt, BoxAt, MvDies, Moving
<1>4. FilesAt'
  BY DEF SInv, Typed, PhaseAt, FilesAt, MvDies, Moving
<1>5. QueueAt'
  BY QueueFrame DEF SInv, QueueAt, MvDies
<1>6. RowsAt'
  BY QueueFrame, LoadsFrame DEF SInv, RowsAt, Shown, MvDies
<1>7. KeptAt'
  BY QueueFrame DEF SInv, KeptAt, MvDies
<1>8. TodoAt'
  BY QueueFrame DEF SInv, TodoAt, MvDies
<1>9. MoveAt'
  <2>1. \A t \in Sids, j \in Kinds : mv'[<<t, j>>] = Idle \/ mv'[<<t, j>>] = mv[<<t, j>>]
    BY DEF MvDies
  <2>2. UNCHANGED <<snap, files>>
    BY DEF MvDies
  <2>. SUFFICES ASSUME NEW t \in Sids, NEW j \in Kinds PROVE Move(t, j, mv[<<t, j>>])'
    BY DEF MoveAt
  <2>3. Move(t, j, mv[<<t, j>>])
    BY DEF SInv, MoveAt
  <2>4. CASE mv'[<<t, j>>] = Idle
    BY <2>4 DEF Move
  <2>5. CASE mv'[<<t, j>>] = mv[<<t, j>>]
    BY <2>2, <2>3, <2>5 DEF Move
  <2>. QED BY <2>1, <2>4, <2>5
<1>. QED BY <1>1, <1>2, <1>3, <1>4, <1>5, <1>6, <1>7, <1>8, <1>9 DEF SInv

LEMMA sync_fixStep ==
    ASSUME SInv, sync_fix PROVE SInv'
<1>1. Typed'
  BY DEF SInv, Typed, sync_fix, incomplete_snapshots, Listed
<1>2. PhaseAt'
  BY DEF SInv, Typed, PhaseAt, sync_fix, incomplete_snapshots, Listed
<1>3. BoxAt'
  BY DEF SInv, Typed, PhaseAt, BoxAt, sync_fix, incomplete_snapshots, Listed
<1>4. FilesAt'
  BY DEF SInv, Typed, PhaseAt, FilesAt, sync_fix, incomplete_snapshots, Listed
<1>5. QueueAt'
  BY QueueFrame DEF SInv, QueueAt, sync_fix, incomplete_snapshots, Listed
<1>6. RowsAt'
  <2>. SUFFICES ASSUME NEW g \in Functions, NEW t \in Sound, <<g, t>> \in spf'
                PROVE  /\ Loads(g, t)'
                       /\ \A i \in 1..Len(q) : FirstOf(i, t) => q[i].f = g
    BY QueueFrame DEF RowsAt, sync_fix
  <2>1. <<g, t>> \in spf /\ t \notin incomplete_snapshots
    BY DEF sync_fix
  <2>2. Loads(g, t) /\ \A i \in 1..Len(q) : FirstOf(i, t) => q[i].f = g
    BY <2>1 DEF SInv, RowsAt, sync_fix
  <2>3. snap'[t] = snap[t] /\ files' = files
    BY <2>1 DEF sync_fix
  <2>. QED BY <2>2, <2>3 DEF Loads, FilesOf
<1>7. KeptAt'
  BY DEF SInv, Typed, PhaseAt, KeptAt, GoneSoon, Of, sync_fix, incomplete_snapshots, Listed
<1>8. TodoAt'
  BY QueueFrame DEF SInv, TodoAt, sync_fix, incomplete_snapshots, Listed
<1>9. MoveAt'
  BY DEF SInv, Typed, PhaseAt, MoveAt, Move, sync_fix, incomplete_snapshots, Listed
<1>. QED BY <1>1, <1>2, <1>3, <1>4, <1>5, <1>6, <1>7, <1>8, <1>9 DEF SInv

-----------------------------------------------------------------------------
LEMMA InitSInv == Init => SInv
<1>. SUFFICES ASSUME Init PROVE SInv
  OBVIOUS
<1>1. Typed
  BY DEF Init, Typed
<1>2. PhaseAt /\ BoxAt /\ FilesAt
  BY DEF Init, PhaseAt, BoxAt, FilesAt
<1>3. QueueAt /\ RowsAt /\ KeptAt /\ TodoAt
  BY NoMessage DEF Init, QueueAt, RowsAt, KeptAt, TodoAt
<1>4. MoveAt
  BY DEF Init, MoveAt, Move
<1>. QED BY <1>1, <1>2, <1>3, <1>4 DEF SInv

LEMMA NextSInv ==
    ASSUME SInv, [Next]_vars PROVE SInv'
<1>1. CASE UNCHANGED vars
  <2>1. Typed' /\ PhaseAt' /\ BoxAt'
    BY <1>1 DEF vars, SInv, Typed, PhaseAt, BoxAt
  <2>2. FilesAt'
    BY <1>1 DEF vars, SInv, FilesAt, FilesOf
  <2>5. MoveAt'
    BY <1>1, MoveFrame DEF vars, SInv
  <2>3. QueueAt' /\ RowsAt'
    BY <1>1, QueueFrame, LoadsFrame DEF vars, SInv, QueueAt, RowsAt, Shown
  <2>4. KeptAt' /\ TodoAt'
    BY <1>1, QueueFrame DEF vars, SInv, KeptAt, TodoAt
  <2>. QED BY <2>1, <2>2, <2>3, <2>4, <2>5 DEF SInv
<1>2. CASE Next
  BY <1>2, StartStep, StartFailsStep, StartedStep, ReinstateStep, NotReinstatedStep, CreateStep, RegisterStep,
     DeregisterStep, SnapshotStep, ParkStep, TakeStep, DestroyStep, TrashStep, WriteStep, StopStep, DiesStep,
     wipe_db_snapshotsStep, SyncedStep, SyncFailsStep, EndedStep, DestroyOrphanStep, SyncListedStep,
     SyncUnlistedStep, forgetStep, MvUpdateStep, MvRemoveStep, MvCopyStep, MvDiesStep, sync_fixStep
     DEF Next, Crash, PoolPanics
<1>. QED BY <1>1, <1>2

LEMMA SnapshotsInvariance == Spec => []SInv
<1>1. SInv /\ [Next]_vars => SInv'
  BY NextSInv
<1>. QED BY <1>1, InitSInv, PTL DEF Spec

-----------------------------------------------------------------------------
(***************************************************************************)
(* What the invariant gives.                                               *)
(***************************************************************************)

\* What SNAPS_PER_FUNC lists can be loaded: both files are where SNAPSHOTS says, unless an
\* operation failed on that very ID or it met one of the windows that `stale' records;
\* db_new_snapshot, db_rm_snapshot, sync_db_snapshots, the reuse of IDs, deregistrations,
\* crashes and interrupted moves keep it so.
THEOREM ListedLoads == Spec => []RowsHaveFiles
<1>1. SInv => RowsHaveFiles
  <2>. SUFFICES ASSUME SInv, NEW r \in spf, r[2] \in Sound, ~GoneSoon(r[2])
                PROVE  snap[r[2]] # None /\ \A x \in FilesOf(r[2], snap[r[2]]) : files[x] # None
    BY DEF RowsHaveFiles
  <2>. DEFINE f == r[1]
              s == r[2]
  <2>1. f \in Functions /\ s \in Sound /\ <<f, s>> \in spf
    <3>1. r \in Functions \X Sids
      BY DEF SInv, Typed
    <3>2. r = <<r[1], r[2]>> /\ r[1] \in Functions /\ r[2] \in Sids
      BY <3>1
    <3>. QED BY <3>2
  <2>2. ~GoneSoon(s)
    OBVIOUS
  <2>. HIDE DEF f, s
  <2>3. Loads(f, s)
    BY <2>1, <2>2, RowLoads
  <2>4. f # None
    BY <2>1, SnapshotsAssumption
  <2>. QED BY <2>3, <2>4 DEF Loads, s
<1>. QED BY <1>1, SnapshotsInvariance, PTL

\* A sandbox that is restored holds the VM of its own Function, although an ID is used again
\* by another Function and a serialized SnapshotState does not say whose it is; `failed' and
\* `stale' say for which IDs the code does not ensure it.
THEOREM RestoredIsOwn == Spec => []SnapshotForItsFunction
<1>1. SInv => SnapshotForItsFunction
  BY DEF SInv, FilesAt, SnapshotForItsFunction
<1>. QED BY <1>1, SnapshotsInvariance, PTL

\* What the Pool kept when it shut down is in both tables once the writing thread has
\* drained, so that the next start reinstates it, even where sync_db_snapshots was cut short:
\* of every ID that is neither in `failed' nor in `stale'.
THEOREM KeptIsListed == Spec => []KeptAcrossRestart
<1>1. SInv => KeptAcrossRestart
  <2>. SUFFICES ASSUME SInv, phase = "drain", q = <<>>, NEW s \in Sound,
                       box[s].at \in {"parked", "kept"}
                PROVE  <<box[s].f, s>> \in spf /\ snap[s] = box[s].row
    BY DEF KeptAcrossRestart
  <2>1. box[s].row # None /\ box[s].f \in Functions /\ ~GoneSoon(s) /\ box[s] # Free
    BY NoMessage DEF SInv, BoxAt
  <2>2. <<box[s].f, s>> \in spf
    BY <2>1, NoMessage DEF SInv, KeptAt
  <2>. QED BY <2>1, <2>2 DEF SInv, RowsAt, Shown
<1>. QED BY <1>1, SnapshotsInvariance, PTL
=============================================================================
