------------------------ MODULE UpdaterDataProofs ------------------------
(***************************************************************************)
(* The panel's data under the updater: proofs that a release is only       *)
(* started on data it can serve, that a cutover keeps a way back and that  *)
(* no write of a panel is lost, on top of UpdaterProofs; and that every    *)
(* step of the updater is a step of UpdatePhases, or nothing its readers   *)
(* see: the refinement of UpdaterRefinement.                               *)
(***************************************************************************)
EXTENDS UpdaterProofs, UpdaterRefinement

\* What a journal stands for while its operation is not finished.
Pending == journal.phase \notin Final \cup {"none"}
Early == {"prepared", "downloaded", "stopping", "backing-up"}
Starting == {"starting-target", "checking-target"}
Resumable == Starting \cup {"downloaded", "recovery-required"}

Served(v) == data.kind = "full" /\ data.schema <= SchemaOf[v]
Moved(i) == Exists(failed[i])
Restorable(o) == snap[o.id].kind = "full" /\ snap[o.id].schema <= SchemaOf[o.prev]

\* The release the panel is at, or was when the pending operation was recorded.
Base == IF Pending THEN journal.prev ELSE panel.image

\* The records: operations are numbered in their order, go to a release that is not
\* older, and are verified before they start one.
HistoryInv ==
    /\ journal.id < nextId
    /\ journal.prev # None => journal.prev <= journal.target
    /\ journal.verified = TRUE =>
         journal.id # None /\ journal.prev # None /\ Restorable(journal)
    /\ journal.phase \in Early => journal.verified = FALSE /\ journal.restoreData = FALSE
    /\ Pending /\ journal.prev = None => previous.id = None

\* What a rollback over a finished operation goes by.
PreviousInv ==
    previous.id # None =>
        /\ previous.id < nextId /\ previous.prev # None /\ previous.prev <= previous.target
        /\ previous.verified = TRUE /\ Restorable(previous)
        /\ MayHaveStarted(previous.phase)
        /\ panel.image # None
        /\ previous.id = journal.id => /\ journal.prev = previous.prev
                                       /\ journal.target = previous.target
                                       /\ journal.verified = TRUE
        /\ Moved(previous.id) => Base = previous.prev

AsideInv == \A i \in Ids : Moved(i) => i < nextId /\ failed[i].kind = "full"

\* The data under a finished operation, or none.
SettledData ==
    /\ panel.image = None => /\ data.kind \in {"absent", "empty"}
                             /\ env = TRUE => data.kind = "empty"
    /\ journal.phase \in Quiet /\ panel.image # None => Served(panel.image)

\* The data under a pending one: the previous release's until the target may have been
\* started, the target's at most until it is moved aside, and after that the snapshot's.
PendingData ==
    /\ PanelOf(journal) /\ (journal.prev # None => panel.image # None)
    /\ journal.phase \in Early =>
         panel.image = journal.prev /\ (journal.prev # None => Served(journal.prev))
    /\ journal.prev = None /\ journal.phase \notin {"prepared", "downloaded"} =>
         data.kind = "empty" \/ Served(journal.target)
    /\ journal.prev # None /\ ~Moved(journal.id) => Served(journal.target)
    /\ Moved(journal.id) =>
         /\ journal.prev # None
         /\ panel.running = TRUE => panel.image = journal.prev
         /\ Exists(data) => Served(journal.prev)
         /\ ~Exists(data) => /\ staged[journal.id] = snap[journal.id]
                             /\ journal.restoreData = TRUE /\ journal.verified = TRUE
    /\ journal.phase # "rolling-back" /\ journal.restoreData = FALSE => ~Moved(journal.id)

\* The restore container serves the operation of the journal.
RestoreData ==
    /\ Pending /\ restore.id = journal.id
    /\ journal.restoreData = TRUE /\ journal.verified = TRUE
    /\ journal.phase \in {"rolling-back", "recovery-required"}
    /\ restore.step = "rename" =>
         ~Moved(restore.id) /\ staged[restore.id] = snap[restore.id]
    /\ restore.step = "swap" => Moved(restore.id)

GlobalInv ==
    /\ HistoryInv /\ PreviousInv /\ AsideInv /\ SettledData
    /\ Pending => PendingData
    /\ RestoreRuns => RestoreData

\* Where a process is on its way to the target, and on its way back.
Fresh == Untouched \cup {"stop", "stopped", "copy"}
Recording == {"record-previous", "record-active", "record-success"}
Launching == {"up", "started", "check"} \cup Recording
ToTarget == Fresh \cup Launching \cup {"copied", "rec-stop", "auto-check"}
UpdateAt == ToTarget \cup {"rec-up", "rec-required", "rec-check", "rec-done"}
RollbackAt == {"rb-stop", "rb-up", "rb-check", "rb-active", "rb-done"}

\* The operation in memory is the journal's, as far as it got.
HolderOp(p) ==
    /\ Pending
    /\ op[p].id = journal.id /\ op[p].prev = journal.prev /\ op[p].target = journal.target
    /\ journal.verified = TRUE => op[p].verified = TRUE
    /\ journal.restoreData = TRUE => op[p].restoreData = TRUE
    /\ op[p].verified = TRUE => op[p].prev # None /\ Restorable(op[p])

Forward(p) ==
    /\ pc[p] \in Untouched =>
         /\ journal.phase \in {"prepared", "downloaded"}
         /\ op[p].prev = None <=> opt[p].kind = "install"
    /\ At(p, "recheck") /\ op[p].prev = None => data.kind = "empty"
    /\ pc[p] \in Fresh => /\ journal.phase \in Early
                          /\ op[p].verified = FALSE /\ op[p].restoreData = FALSE
    /\ At(p, "copied") /\ op[p].prev # None => op[p].verified = TRUE
    /\ pc[p] \in Launching => /\ journal.phase \in Starting
                              /\ op[p].prev # None => journal.verified = TRUE
    /\ pc[p] \in Recording =>
         /\ panel.image = op[p].target /\ Served(op[p].target)
         /\ MayHaveStarted(op[p].phase)
    /\ pc[p] \in {"record-active", "record-success"} /\ op[p].prev # None =>
         previous.id = op[p].id
    /\ pc[p] \in ToTarget => /\ ~Moved(op[p].id)
                             /\ op[p].prev # None => op[p].restoreData = FALSE
    /\ pc[p] \in UpdateAt => /\ opt[p].kind # "rollback"
                             /\ op[p].restoreData = FALSE => ~Moved(op[p].id)

\* The previous release may be started on the data, also after a running panel wrote it.
PrevReady(p) ==
    /\ Served(op[p].prev)
    /\ panel.running = TRUE => SchemaOf[panel.image] <= SchemaOf[op[p].prev]
Restores(p) == pc[p] \in {"restore", "restore-wait"} \/ (At(p, "rb-stop") /\ opt[p].restore = TRUE)
Backward(p) ==
    /\ pc[p] \in RollbackAt => opt[p].kind = "rollback"
    /\ pc[p] \in {"rec-up", "rb-up"} => PrevReady(p)
    /\ At(p, "rb-stop") /\ opt[p].restore = FALSE => PrevReady(p)
    /\ Restores(p) => /\ journal.restoreData = TRUE /\ journal.verified = TRUE
                      /\ journal.phase = "rolling-back"
    /\ pc[p] \in {"rec-done", "rb-active", "rb-done"} =>
         panel.image = op[p].prev /\ Served(op[p].prev)
    /\ At(p, "restore-wait") =>
         /\ restore.id = op[p].id /\ restore.step # "none" /\ panel.running = FALSE
         /\ restore.step = "ok" => Served(op[p].prev)
HolderInv(p) == pc[p] \in Locked => HolderOp(p) /\ Forward(p) /\ Backward(p)

\* What was read before the locks: a finished operation is only ever undone.
Ended(i) ==
    journal.id = i => \/ journal.phase \in Final
                      \/ /\ journal.phase = "rolling-back"
                         /\ \A h \in Procs : pc[h] \in Locked => opt[h].kind = "rollback"
ReaderInv(p) ==
    /\ At(p, "prepare") => opt[p].kind \in {"update", "install"}
    /\ At(p, "rb-begin") => opt[p].kind = "rollback"
    /\ At(p, "resume-begin") =>
         /\ opt[p].kind = "resume" /\ env = TRUE
         /\ op[p] = seen[p].journal /\ op[p].phase \in Resumable
         /\ op[p].prev # None => op[p].restoreData = FALSE
    /\ At(p, "rb-begin") /\ seen[p].journal.phase \in Final =>
         /\ seen[p].journal.id < nextId /\ Ended(seen[p].journal.id)
         /\ seen[p].journal.id \in {journal.id, previous.id} =>
              op[p] = previous /\ previous.id # None

DataInv == GlobalInv /\ \A p \in Procs : HolderInv(p) /\ ReaderInv(p)

\* What a directory holds was written before.
GenInv ==
    /\ data.gen <= writes
    /\ \A i \in Ids : snap[i].gen <= writes /\ staged[i].gen <= writes

----------------------------------------------------------------------------
(* Facts about the values *)

\* A journal write changes what it says and nothing else of the operation.
LEMMA PhaseOf ==
  ASSUME NEW o \in Operation, NEW phase \in Phases
  PROVE  /\ Phase(o, phase) \in Operation /\ Phase(o, phase).phase = phase
         /\ Phase(o, phase).id = o.id /\ Phase(o, phase).prev = o.prev
         /\ Phase(o, phase).target = o.target /\ Phase(o, phase).verified = o.verified
         /\ Phase(o, phase).restoreData = o.restoreData
BY DEF Phase, Operation

\* A later release can serve what an earlier one can.
LEMMA LaterServes ==
  ASSUME DirsOK, NEW v \in Versions, NEW w \in Versions, v <= w, Served(v)
  PROVE  Served(w)
<1>1. SchemaOf[v] <= SchemaOf[w] /\ SchemaOf[v] \in Nat /\ SchemaOf[w] \in Nat
  BY SchemaAssumption
<1>2. data.schema \in Nat
  BY DEF DirsOK, Dir
<1> QED BY <1>1, <1>2 DEF Served

LEMMA Types2 ==
  ASSUME TypeOK
  PROVE  /\ journal \in Operation /\ previous \in Operation /\ data \in Dir
         /\ journal.id \in Ids \cup {None} /\ previous.id \in Ids \cup {None}
         /\ journal.prev \in Versions \cup {None} /\ journal.target \in Versions \cup {None}
         /\ previous.prev \in Versions \cup {None} /\ previous.target \in Versions \cup {None}
         /\ panel.image \in Versions \cup {None} /\ panel.running \in BOOLEAN
         /\ nextId \in Nat /\ None \notin Versions /\ None \notin Ids
         /\ journal.verified \in BOOLEAN /\ journal.restoreData \in BOOLEAN
         /\ \A p \in Procs :
              /\ op[p] \in Operation /\ op[p].id \in Ids \cup {None}
              /\ op[p].prev \in Versions \cup {None} /\ op[p].target \in Versions \cup {None}
              /\ op[p].verified \in BOOLEAN /\ op[p].restoreData \in BOOLEAN
              /\ opt[p].restore \in BOOLEAN
<1>1. journal \in Operation /\ previous \in Operation /\ data \in Dir
      /\ panel \in [image : Versions \cup {None}, running : BOOLEAN]
  BY DEF TypeOK, FilesOK, DirsOK, DockerOK
<1>2. nextId \in Nat /\ None \notin Versions /\ None \notin Ids
  BY VersionAssumption, BoundAssumption DEF TypeOK, BoundsOK, None, Ids
<1>3. ASSUME NEW p \in Procs PROVE op[p] \in Operation /\ opt[p].restore \in BOOLEAN
  BY DEF TypeOK, ProcsOK, Options
<1> QED BY <1>1, <1>2, <1>3 DEF Operation

\* Where a pending operation has releases to go between.
LEMMA PendingReleases ==
  ASSUME IInv, Pending
  PROVE  journal.id \in Ids /\ journal.target \in Versions
<1>1. journal.id # None
  BY DEF IInv, RecordInv, FilesComplete, Pending
<1> QED BY <1>1 DEF IInv, RecordInv, FilesComplete, Complete

LEMMA HolderKnown ==
  ASSUME IInv, DataInv, NEW p \in Procs, pc[p] \in Locked
  PROVE  /\ HolderOp(p) /\ Forward(p) /\ Backward(p) /\ Complete(op[p])
         /\ lock = p /\ \A q \in Procs \ {p} : pc[q] \notin Locked
         /\ ~At(p, "restore-wait") => ~RestoreRuns
         /\ pc[p] \notin Untouched => journal.phase \notin Quiet
<1>1. lock = p /\ \A q \in Procs \ {p} : pc[q] \notin Locked
  BY DEF IInv, LockInv
<1>2. Complete(op[p])
  BY DEF IInv, RecordInv, ProcComplete
<1>3. ~At(p, "restore-wait") => ~RestoreRuns
  BY DEF IInv, RestoreInv, ProcRestore
<1>4. pc[p] \notin Untouched => journal.phase \notin Quiet
  BY DEF IInv, PhaseInv, ProcPhase
<1> QED BY <1>1, <1>2, <1>3, <1>4 DEF DataInv, HolderInv

----------------------------------------------------------------------------
(* What becomes of the data in a step *)

\* A snapshot is only written or removed while it is not verified.
SnapStep == \A i \in Ids : snap'[i] # snap[i] => i = journal.id /\ journal.verified = FALSE

LEMMA SnapKept ==
  ASSUME IInv, GlobalInv, SnapStep, UNCHANGED <<journal, previous, panel, nextId, failed>>
  PROVE  HistoryInv' /\ PreviousInv' /\ AsideInv'
<1>1. Pending' = Pending /\ Base' = Base /\ \A i : Moved(i)' = Moved(i)
  BY DEF Pending, Base, Moved
<1>2. HistoryInv'
  BY <1>1, Types2 DEF IInv, GlobalInv, HistoryInv, Restorable, SnapStep
<1>3. PreviousInv'
  BY <1>1, Types2 DEF IInv, GlobalInv, PreviousInv, Restorable, SnapStep
<1> QED BY <1>1, <1>2, <1>3 DEF GlobalInv, AsideInv

\* The panel is stopped, or left as it is.
LEMMA StoppedKeeps ==
  ASSUME IInv, GlobalInv, Stops \/ UNCHANGED panel, SnapStep,
         UNCHANGED <<journal, previous, env, data, failed, nextId>>,
         UNCHANGED <<staged, restore>>
  PROVE  GlobalInv'
<1>1. panel'.image = panel.image /\ (panel'.running = TRUE => panel.running = TRUE)
  BY DEF IInv, TypeOK, DockerOK, Stops
<1>2. Pending' = Pending /\ Base' = Base
  BY <1>1 DEF Pending, Base
<1>3. HistoryInv' /\ AsideInv'
  BY <1>2, Types2 DEF IInv, GlobalInv, HistoryInv, AsideInv, Restorable, Moved, SnapStep
<1>4. PreviousInv'
  BY <1>1, <1>2, Types2 DEF IInv, GlobalInv, PreviousInv, Restorable, Moved, SnapStep
<1>5. SettledData'
  BY <1>1 DEF GlobalInv, SettledData, Served
<1>6. (Pending => PendingData)'
  BY <1>1, <1>2, PendingReleases DEF GlobalInv, PendingData, Served, Moved, PanelOf, SnapStep
<1>7. (RestoreRuns => RestoreData)'
  BY <1>2, PendingReleases DEF GlobalInv, RestoreRuns, RestoreData, Moved, SnapStep
<1> QED BY <1>3, <1>4, <1>5, <1>6, <1>7 DEF GlobalInv

\* A release is started, or fails to start.
Opening(v) == ComesUp(v) \/ UpFails(v)

LEMMA Opens ==
  ASSUME TypeOK, NEW v \in Versions, Opening(v), Exists(data)
  PROVE  \/ UNCHANGED <<panel, data>>
         \/ /\ panel'.image = v
            /\ \/ data' = data
               \/ /\ Usable(data, v) /\ data'.kind = "full" /\ data'.schema = SchemaOf[v]
                  /\ data'.gen = data.gen
<1>1. Mounted(data) = data
  BY DEF Mounted
<1>2. Opened(data, v).kind = "full" /\ Opened(data, v).schema = SchemaOf[v]
      /\ Opened(data, v).gen = data.gen
  BY DEF Opened, TypeOK, DirsOK, Dir
<1>3. CASE ComesUp(v)
  BY <1>1, <1>2, <1>3 DEF ComesUp
<1>4. CASE UpFails(v)
  <2>1. CASE UNCHANGED <<panel, data>>
    BY <2>1
  <2>2. CASE \E b \in BOOLEAN : panel' = [image |-> v, running |-> b]
    <3>1. panel'.image = v
      BY <2>2
    <3> QED BY <1>1, <1>2, <1>4, <3>1 DEF UpFails
  <2> QED BY <1>4, <2>1, <2>2 DEF UpFails
<1> QED BY <1>3, <1>4 DEF Opening

\* The target is started before its data is moved aside, the previous release on what it
\* can serve.
LEMMA OpenedKeeps ==
  ASSUME IInv, GlobalInv, Pending, journal.phase \notin Quiet, ~RestoreRuns, Exists(data),
         NEW v \in Versions, Opening(v), SnapStep,
         \/ v = journal.target /\ journal.phase \in Starting /\ ~Moved(journal.id)
         \/ v = journal.prev /\ Served(v),
         UNCHANGED <<journal, previous, env, failed, nextId>>,
         UNCHANGED <<staged, restore>>
  PROVE  GlobalInv'
<1>1. \/ UNCHANGED <<panel, data>>
      \/ /\ panel'.image = v /\ v # None
         /\ \/ data' = data
            \/ data'.kind = "full" /\ data'.schema = SchemaOf[v]
  BY Opens, Types2 DEF IInv
<1>2. Pending' /\ Base' = Base
  BY DEF Pending, Base
<1>3. HistoryInv' /\ AsideInv'
  BY <1>2, Types2 DEF IInv, GlobalInv, HistoryInv, AsideInv, Restorable, Moved, SnapStep
<1>4. PreviousInv'
  BY <1>1, <1>2, Types2 DEF IInv, GlobalInv, PreviousInv, Restorable, Moved, SnapStep
<1>5. SettledData'
  BY <1>1, Types2 DEF IInv, GlobalInv, SettledData, Served
<1>6. /\ SchemaOf[v] <= SchemaOf[v]
      /\ journal.prev # None => SchemaOf[journal.prev] <= SchemaOf[journal.target]
  BY SchemaAssumption, PendingReleases, Types2 DEF IInv, GlobalInv, HistoryInv
<1>7. Exists(data')
  BY <1>1 DEF Exists
<1>8. PendingData'
  <2>0. PendingData
    BY DEF GlobalInv
  <2>1. PanelOf(journal)' /\ (journal'.prev # None => panel'.image # None)
    BY <1>1, <2>0 DEF PanelOf, PendingData
  <2>2. journal'.phase \in Early =>
          panel'.image = journal'.prev /\ (journal'.prev # None => Served(journal.prev)')
    BY <1>1, <1>6, <2>0 DEF Early, Starting, Served, PendingData
  <2>3. (journal.prev = None /\ journal.phase \notin {"prepared", "downloaded"} =>
          data.kind = "empty" \/ Served(journal.target))'
    BY <1>1, <1>6, <2>0, Types2 DEF IInv, Served, PendingData
  <2>4. (journal.prev # None /\ ~Moved(journal.id) => Served(journal.target))'
    BY <1>1, <1>6, <2>0 DEF Served, Moved, PendingData
  <2>5. Moved(journal.id)' => /\ journal'.prev # None /\ Served(journal.prev)'
                              /\ panel'.running = TRUE => panel'.image = journal'.prev
    BY <1>1, <1>6, <2>0 DEF Served, Moved, PendingData
  <2> QED BY <1>7, <2>0, <2>1, <2>2, <2>3, <2>4, <2>5 DEF Moved, PendingData
<1> QED BY <1>3, <1>4, <1>5, <1>8 DEF GlobalInv, RestoreRuns

\* A running panel writes, and migrates the data to its own schema.
LEMMA PanelWrites2 ==
  ASSUME IInv, GlobalInv, PanelWrites
  PROVE  GlobalInv' /\ data'.kind = "full" /\ data'.schema = SchemaOf[panel.image]
         /\ panel.image \in Versions /\ panel.running /\ data'.gen = writes + 1
<1>1. /\ panel.running = TRUE /\ panel.image \in Versions /\ ~RestoreRuns
      /\ UNCHANGED <<journal, previous, env, panel, failed, nextId>>
      /\ UNCHANGED <<snap, staged, restore>>
  BY Types2 DEF IInv, RecordInv, DockerComplete, RestoreInv, PanelWrites, files
<1>2. data'.kind = "full" /\ data'.schema = SchemaOf[panel.image] /\ data'.gen = writes + 1
  BY DEF PanelWrites, Opened, IInv, TypeOK, DirsOK, Dir
<1>3. Pending' = Pending /\ Base' = Base
  BY <1>1 DEF Pending, Base
<1>4. HistoryInv' /\ AsideInv' /\ PreviousInv'
  BY <1>1, SnapKept DEF SnapStep
<1>5. SchemaOf[panel.image] \in Nat
  BY <1>1, SchemaAssumption
<1>6. SettledData'
  BY <1>1, <1>2, <1>5, Types2 DEF SettledData, Served, IInv
<1>7. ASSUME Pending PROVE PendingData'
  <2>1. PendingData /\ panel.image \in {journal.prev, journal.target}
    BY <1>1, <1>7, Types2 DEF GlobalInv, PendingData, PanelOf, IInv
  <2>2. Served(panel.image)'
    BY <1>1, <1>2, <1>5 DEF Served
  <2>3. journal.prev # None => SchemaOf[journal.prev] <= SchemaOf[journal.target]
    BY <1>7, SchemaAssumption, PendingReleases, Types2 DEF IInv, GlobalInv, HistoryInv
  <2>4. journal.prev # None => Served(journal.target)'
    BY <1>1, <1>2, <1>5, <2>1, <2>2, <2>3 DEF Served
  <2>5. journal.prev = None => Served(journal.target)'
    BY <1>1, <2>1, <2>2, Types2 DEF IInv
  <2> QED BY <1>1, <1>2, <2>1, <2>2, <2>4, <2>5 DEF PendingData, PanelOf, Exists, Moved
<1> QED BY <1>1, <1>2, <1>3, <1>4, <1>6, <1>7 DEF GlobalInv, RestoreRuns

\* The holder writes the journal of its operation.
Rewritten ==
    /\ journal' \in Operation
    /\ journal'.id = journal.id /\ journal'.prev = journal.prev
    /\ journal'.target = journal.target
    /\ journal.verified = TRUE => journal'.verified = TRUE
    /\ journal.restoreData = TRUE => journal'.restoreData = TRUE
    /\ journal'.verified = TRUE => journal.prev # None /\ Restorable(journal)
    /\ UNCHANGED <<previous, panel, data, failed, nextId>>
    /\ UNCHANGED <<env, snap, staged>>

\* It goes on with a pending phase.
LEMMA GoingOn ==
  ASSUME IInv, GlobalInv, Rewritten, Pending, Pending', ~RestoreRuns',
         journal'.phase \in Early =>
           /\ journal.phase \in Early
           /\ journal'.verified = FALSE /\ journal'.restoreData = FALSE,
         journal'.phase \in Quiet => journal.phase \in Quiet,
         journal'.phase \notin {"prepared", "downloaded"} =>
           \/ journal.phase \notin {"prepared", "downloaded"}
           \/ journal.prev # None \/ data.kind = "empty",
         journal'.phase # "rolling-back" /\ journal'.restoreData = FALSE => ~Moved(journal.id)
  PROVE  GlobalInv'
<1>1. PendingData /\ journal.id # None
  BY PendingReleases, Types2 DEF GlobalInv, IInv
<1>2. Base' = Base
  BY DEF Base, Rewritten
<1>3. HistoryInv' /\ AsideInv'
  BY <1>1 DEF GlobalInv, HistoryInv, AsideInv, Restorable, Rewritten, Moved
<1>4. PreviousInv'
  BY <1>2 DEF GlobalInv, PreviousInv, Restorable, Rewritten, Moved
<1>5. SettledData'
  BY DEF GlobalInv, SettledData, Rewritten, Served
<1>6. PendingData'
  <2>1. PanelOf(journal)' /\ (journal.prev # None => panel.image # None)'
    BY <1>1 DEF PendingData, Rewritten, PanelOf
  <2>2. (journal.phase \in Early =>
          panel.image = journal.prev /\ (journal.prev # None => Served(journal.prev)))'
    BY <1>1 DEF PendingData, Rewritten, Served
  <2>3. (journal.prev = None /\ journal.phase \notin {"prepared", "downloaded"} =>
          data.kind = "empty" \/ Served(journal.target))'
    BY <1>1 DEF PendingData, Rewritten, Served
  <2>4. (journal.prev # None /\ ~Moved(journal.id) => Served(journal.target))'
    BY <1>1 DEF PendingData, Rewritten, Served, Moved
  <2> QED BY <1>1, <2>1, <2>2, <2>3, <2>4 DEF PendingData, Rewritten, Moved, Served
<1> QED BY <1>3, <1>4, <1>5, <1>6 DEF GlobalInv

\* It ends with a final one, over a panel that serves its data.
LEMMA Settling ==
  ASSUME IInv, GlobalInv, Rewritten, Pending, journal'.phase \in Final, ~RestoreRuns',
         panel.image # None => Served(panel.image),
         previous.id # None /\ Moved(previous.id) => panel.image = previous.prev,
         journal'.phase \in Early => journal'.verified = FALSE /\ journal'.restoreData = FALSE
  PROVE  GlobalInv'
<1>1. ~Pending' /\ journal.id # None
  BY PendingReleases, Types2 DEF IInv, Pending
<1>2. HistoryInv' /\ AsideInv'
  BY <1>1 DEF GlobalInv, HistoryInv, AsideInv, Restorable, Rewritten, Moved
<1>3. PreviousInv'
  BY <1>1 DEF GlobalInv, PreviousInv, Restorable, Rewritten, Moved, Base
<1>4. SettledData'
  BY DEF GlobalInv, SettledData, Rewritten, Served
<1> QED BY <1>1, <1>2, <1>3, <1>4 DEF GlobalInv

----------------------------------------------------------------------------
(* What a process knows after its step *)

LEMMA ExitKnows ==
  ASSUME ProcsOK, NEW p \in Procs, Exit(p)
  PROVE  HolderInv(p)' /\ ReaderInv(p)'
<1>1. pc'[p] = "idle"
  BY DEF ProcsOK, Exit, Goto
<1> QED BY <1>1 DEF HolderInv, ReaderInv, Locked, At

LEMMA LockedReads ==
  ASSUME NEW p \in Procs, pc'[p] \in Locked
  PROVE  ReaderInv(p)'
BY DEF ReaderInv, Locked, At

\* The operation in memory lasts while journal and snapshots do.
LEMMA OpKept ==
  ASSUME NEW p \in Procs, HolderOp(p), UNCHANGED <<journal, snap>>, op'[p] = op[p]
  PROVE  HolderOp(p)'
BY DEF HolderOp, Pending, Restorable

\* Entering the recovery: only what the target has not been started on is taken up at once.
SameOp(o, r) ==
    /\ o.id = r.id /\ o.prev = r.prev /\ o.target = r.target
    /\ o.verified = r.verified /\ o.restoreData = r.restoreData

LEMMA Entering ==
  ASSUME IInv, DataInv, NEW p \in Procs,
         pc[p] \in {"stop", "stopped", "copy", "copied", "up", "started", "check"},
         NEW o \in Operation, SameOp(o, op[p]), NEW copies,
         copies = snap \/ (/\ op[p].verified = FALSE
                           /\ \A i \in Ids \ {op[p].id} : copies[i] = snap[i]),
         copies \in [Ids -> Dir], EnterRecovery(p, o, copies),
         UNCHANGED <<journal, previous, failed, env, staged, nextId>>,
         \/ MayHaveStarted(o.phase)
         \/ /\ pc[p] \in {"stop", "stopped", "copy"} /\ data' = data
            /\ panel'.image = panel.image /\ (panel'.running = TRUE => panel.running = TRUE)
  PROVE  SnapStep /\ HolderInv(p)' /\ ReaderInv(p)'
<1>1. HolderOp(p) /\ Forward(p) /\ pc[p] \in Locked
  BY HolderKnown DEF Locked
<1>2. /\ op'[p] = o /\ opt'[p] = opt[p]
      /\ pc'[p] = IF MayHaveStarted(o.phase) THEN "rec-stop" ELSE "rec-up"
  BY DEF EnterRecovery, Hold, Goto, IInv, TypeOK, ProcsOK
<1>3. op[p].verified = TRUE => snap' = snap
  BY DEF EnterRecovery, KeepsBackup, SameOp
<1>4. op[p].verified \in BOOLEAN /\ op[p].id \in Ids
  BY <1>1, Types2, HolderKnown DEF IInv, Complete
<1>5. \A i \in Ids \ {op[p].id} : snap'[i] = snap[i]
  BY <1>4 DEF EnterRecovery, SameOp
<1>6. SnapStep
  BY <1>1, <1>3, <1>4, <1>5, Types2 DEF SnapStep, HolderOp, IInv
<1>7. HolderOp(p)'
  BY <1>1, <1>2, <1>3 DEF HolderOp, Pending, Restorable, SameOp
<1>8. pc[p] \in ToTarget
  BY DEF ToTarget, Fresh, Launching
<1>9. /\ ~Moved(op[p].id) /\ opt[p].kind # "rollback"
      /\ op[p].prev # None => op[p].restoreData = FALSE
  BY <1>1, <1>8 DEF Forward, UpdateAt
<1>10. Forward(p)'
  BY <1>2, <1>9 DEF Forward, At, Moved, SameOp, Untouched, Fresh, Launching, Recording
<1>11. Backward(p)'
  <2>1. CASE MayHaveStarted(o.phase)
    BY <1>2, <2>1 DEF Backward, At, Restores, RollbackAt
  <2>2. CASE ~MayHaveStarted(o.phase)
    <3>1. pc[p] \in Fresh /\ op[p].prev # None
      BY <2>2, <1>1 DEF Fresh, IInv, RecordInv, ProcComplete, NeedsPrevious
    <3>2. journal.phase \in Early
      BY <1>1, <3>1 DEF Forward
    <3>3. Served(op[p].prev) /\ panel.image = op[p].prev
      BY <1>1, <3>1, <3>2 DEF HolderOp, DataInv, GlobalInv, PendingData
    <3>4. SchemaOf[op[p].prev] <= SchemaOf[op[p].prev]
      BY <3>1, Types2, SchemaAssumption DEF IInv
    <3>5. PrevReady(p)'
      BY <1>2, <2>2, <3>3, <3>4 DEF PrevReady, Served, SameOp
    <3> QED BY <1>2, <2>2, <3>5 DEF Backward, At, Restores, RollbackAt
  <2> QED BY <2>1, <2>2
<1>12. pc'[p] \in Locked
  BY <1>2 DEF Locked
<1> QED BY <1>6, <1>7, <1>10, <1>11, <1>12, LockedReads DEF HolderInv

\* A journal write of the holder, in the middle and at its end.
LEMMA Saving ==
  ASSUME IInv, DataInv, NEW p \in Procs, pc[p] \in Locked, NEW phase \in Phases, NEW label,
         Save(p, phase, label),
         UNCHANGED <<previous, panel, data, failed, nextId>>, UNCHANGED <<env, snap, staged>>
  PROVE  /\ Rewritten /\ journal'.phase = phase /\ journal'.verified = op[p].verified
         /\ journal'.restoreData = op[p].restoreData
         /\ pc'[p] = label /\ opt'[p] = opt[p] /\ SameOp(op'[p], op[p]) /\ op'[p].phase = phase
         /\ phase \notin Final \cup {"none"} => HolderOp(p)'
<1>1. HolderOp(p) /\ op[p] \in Operation
  BY HolderKnown, Types2 DEF IInv
<1>2. /\ journal' = Phase(op[p], phase) /\ op'[p] = Phase(op[p], phase)
      /\ pc'[p] = label /\ opt'[p] = opt[p]
  BY DEF Save, Write, Hold, Goto, IInv, TypeOK, ProcsOK
<1>3. /\ journal'.phase = phase /\ journal'.verified = op[p].verified
      /\ journal'.restoreData = op[p].restoreData /\ journal' \in Operation
      /\ SameOp(op'[p], op[p]) /\ op'[p].phase = phase
      /\ journal'.id = op[p].id /\ journal'.prev = op[p].prev /\ journal'.target = op[p].target
  BY <1>1, <1>2, PhaseOf DEF SameOp
<1>4. Rewritten
  BY <1>1, <1>3 DEF Rewritten, HolderOp, Restorable
<1>5. phase \notin Final \cup {"none"} => HolderOp(p)'
  BY <1>1, <1>3 DEF HolderOp, Pending, SameOp, Restorable
<1> QED BY <1>2, <1>3, <1>4, <1>5

LEMMA Finishing ==
  ASSUME IInv, DataInv, NEW p \in Procs, pc[p] \in Locked, NEW phase \in Phases,
         Finish(p, phase),
         UNCHANGED <<previous, panel, data, failed, nextId>>, UNCHANGED <<env, snap, staged>>
  PROVE  /\ Rewritten /\ journal'.phase = phase /\ journal'.verified = op[p].verified
         /\ journal'.restoreData = op[p].restoreData /\ HolderInv(p)' /\ ReaderInv(p)'
<1>1. HolderOp(p) /\ op[p] \in Operation
  BY HolderKnown, Types2 DEF IInv
<1>2. journal' = Phase(op[p], phase) /\ Exit(p)
  BY DEF Finish, Write
<1>3. /\ journal'.phase = phase /\ journal'.verified = op[p].verified
      /\ journal'.restoreData = op[p].restoreData /\ journal' \in Operation
      /\ journal'.id = op[p].id /\ journal'.prev = op[p].prev /\ journal'.target = op[p].target
  BY <1>1, <1>2, PhaseOf
<1>4. Rewritten
  BY <1>1, <1>3 DEF Rewritten, HolderOp, Restorable
<1> QED BY <1>2, <1>3, <1>4, ExitKnows DEF IInv, TypeOK

----------------------------------------------------------------------------
(* The update *)

\* Nothing has been touched yet.
LEMMA UntouchedKnows ==
  ASSUME IInv, DataInv, NEW p \in Procs, pc[p] \in Untouched
  PROVE  /\ pc[p] \in Locked /\ HolderOp(p) /\ Forward(p) /\ ~RestoreRuns
         /\ GlobalInv /\ PendingData /\ journal.phase \in {"prepared", "downloaded"}
         /\ op[p].verified = FALSE /\ op[p].restoreData = FALSE /\ ~Moved(journal.id)
         /\ panel.image = journal.prev /\ (panel.image # None => Served(panel.image))
         /\ previous.id # None /\ Moved(previous.id) => panel.image = previous.prev
         /\ opt[p].kind # "rollback"
<1>1. /\ pc[p] \in Locked /\ pc[p] \in Fresh /\ pc[p] \in ToTarget /\ pc[p] \in UpdateAt
      /\ ~At(p, "restore-wait")
  BY DEF At, Locked, Fresh, Untouched, ToTarget, UpdateAt
<1>2. HolderOp(p) /\ Forward(p) /\ ~RestoreRuns /\ GlobalInv /\ PendingData
  BY <1>1, HolderKnown DEF DataInv, GlobalInv, HolderOp
<1>3. /\ journal.phase \in {"prepared", "downloaded"} /\ opt[p].kind # "rollback"
      /\ op[p].verified = FALSE /\ op[p].restoreData = FALSE /\ ~Moved(journal.id)
  BY <1>1, <1>2 DEF Forward, HolderOp
<1>4. panel.image = journal.prev /\ (panel.image # None => Served(panel.image))
  BY <1>2, <1>3 DEF PendingData, Early
<1>5. previous.id # None /\ Moved(previous.id) => panel.image = previous.prev
  BY <1>2, <1>4 DEF GlobalInv, PreviousInv, Base, HolderOp
<1> QED BY <1>1, <1>2, <1>3, <1>4, <1>5

LEMMA UntouchedFinish ==
  ASSUME IInv, DataInv, NEW p \in Procs, pc[p] \in Untouched, NEW phase \in Final,
         Finish(p, phase), UNCHANGED <<previous, panel, data, failed, nextId>>,
         UNCHANGED <<env, snap, staged, restore>>
  PROVE  GlobalInv' /\ HolderInv(p)' /\ ReaderInv(p)'
<1>1. phase \in Phases /\ phase \notin Early /\ ~RestoreRuns'
  BY UntouchedKnows DEF Final, Phases, Early, RestoreRuns
<1>2. Rewritten /\ journal'.phase = phase /\ HolderInv(p)' /\ ReaderInv(p)'
  BY <1>1, UntouchedKnows, Finishing
<1>3. GlobalInv'
  BY <1>1, <1>2, UntouchedKnows, Settling DEF HolderOp
<1> QED BY <1>2, <1>3

LEMMA FetchData ==
  ASSUME IInv, DataInv, NEW p \in Procs, Fetch(p)
  PROVE  GlobalInv' /\ HolderInv(p)' /\ ReaderInv(p)'
<1>1. pc[p] = "fetch" /\ pc[p] \in Untouched /\ pc[p] \in Locked
  BY DEF Fetch, At, Untouched, Locked
<1>2. UNCHANGED <<previous, panel, data, failed, nextId>> /\ UNCHANGED <<env, snap, staged, restore>>
  BY DEF Fetch, dirs
<1>3. CASE Save(p, "downloaded", "preflight")
  <2>1. /\ "downloaded" \in Phases /\ "downloaded" \notin Final \cup {"none"}
        /\ op[p].verified = FALSE /\ op[p].restoreData = FALSE
    BY <1>1, UntouchedKnows DEF Phases, Final
  <2>2. /\ Rewritten /\ journal'.phase = "downloaded" /\ journal'.verified = FALSE
        /\ journal'.restoreData = FALSE /\ SameOp(op'[p], op[p]) /\ HolderOp(p)'
        /\ pc'[p] = "preflight" /\ opt'[p] = opt[p]
    BY <1>1, <1>2, <1>3, <2>1, Saving
  <2>3. /\ Pending /\ Pending' /\ journal.phase \in Early /\ journal.phase \in Quiet
        /\ ~RestoreRuns' /\ ~Moved(journal.id) /\ GlobalInv
    BY <1>1, <1>2, <2>2, UntouchedKnows DEF HolderOp, Early, Quiet, RestoreRuns
  <2>4. GlobalInv'
    BY <1>2, <2>2, <2>3, GoingOn
  <2>5. Forward(p)' /\ Backward(p)'
    BY <1>1, <1>2, <2>2, UntouchedKnows
       DEF Forward, Backward, Restores, At, Untouched, Fresh, Launching, Recording, ToTarget,
           UpdateAt, RollbackAt, Early, SameOp, Moved, HolderOp
  <2> QED BY <2>2, <2>4, <2>5, LockedReads DEF HolderInv, Locked
<1>4. CASE Finish(p, "success") \/ Finish(p, "failed-before-cutover")
  BY <1>1, <1>2, <1>4, UntouchedFinish DEF Final
<1> QED BY <1>3, <1>4 DEF Fetch

\* A first installation makes its data directory, of what is not there.
LEMMA PreflightData ==
  ASSUME IInv, DataInv, NEW p \in Procs, Preflight(p)
  PROVE  GlobalInv' /\ HolderInv(p)' /\ ReaderInv(p)'
<1>1. /\ pc[p] = "preflight" /\ pc[p] \in Untouched /\ pc[p] \in Locked
      /\ UNCHANGED <<previous, panel, snap, staged, failed, restore, nextId>>
  BY DEF Preflight, At, Untouched, Locked
<1>2. /\ op[p].prev = journal.prev /\ GlobalInv /\ panel.image = journal.prev
      /\ op[p].prev = None <=> opt[p].kind = "install"
      /\ journal.phase \in {"prepared", "downloaded"}
  BY <1>1, UntouchedKnows DEF Forward, HolderOp
<1>3. data.kind \in {"absent", "empty"} => Mounted(data).kind = "empty"
  BY DEF Mounted, Exists, Empty
<1>4. /\ data' = data \/ (panel.image = None /\ data'.kind = "empty")
      /\ panel.image = None => data'.kind \in {"absent", "empty"}
  BY <1>1, <1>2, <1>3 DEF Preflight, GlobalInv, SettledData
<1>5. ASSUME Finish(p, "failed-before-cutover"), UNCHANGED env
      PROVE  GlobalInv' /\ HolderInv(p)' /\ ReaderInv(p)'
  <2>1. /\ journal' = Phase(op[p], "failed-before-cutover") /\ Exit(p)
        /\ op[p] \in Operation /\ "failed-before-cutover" \in Phases
    BY <1>5, Types2 DEF Finish, Write, Phases, IInv
  <2>2. /\ journal'.id = journal.id /\ journal'.prev = journal.prev
        /\ journal'.target = journal.target /\ journal'.verified = FALSE
        /\ journal'.phase = "failed-before-cutover"
    <3>1. /\ op[p].id = journal.id /\ op[p].prev = journal.prev /\ op[p].target = journal.target
          /\ op[p].verified = FALSE
      BY <1>1, UntouchedKnows DEF HolderOp
    <3> QED BY <2>1, <3>1, PhaseOf
  <2>3. ~Pending' /\ Base' = Base /\ ~RestoreRuns'
    BY <1>1, <1>2, <2>2, UntouchedKnows DEF Pending, Base, Final, RestoreRuns
  <2>4. HistoryInv' /\ AsideInv' /\ PreviousInv'
    <3>1. journal.verified = FALSE
      BY <1>1, <1>2 DEF GlobalInv, HistoryInv, Early
    <3> QED BY <1>1, <1>2, <2>2, <2>3, <3>1
            DEF GlobalInv, HistoryInv, AsideInv, PreviousInv, Early, Restorable, Moved
  <2>5. SettledData'
    BY <1>1, <1>2, <1>4, <1>5, UntouchedKnows DEF GlobalInv, SettledData, Served
  <2>6. HolderInv(p)' /\ ReaderInv(p)'
    BY <2>1, ExitKnows DEF IInv, TypeOK
  <2> QED BY <2>3, <2>4, <2>5, <2>6 DEF GlobalInv
<1>6. ASSUME /\ data' = IF opt[p].kind = "install" THEN Mounted(data) ELSE data
             /\ env' = (env \/ opt[p].kind = "install")
             /\ Goto(p, "recheck") /\ UNCHANGED <<journal, lock, local>>
      PROVE  GlobalInv' /\ HolderInv(p)' /\ ReaderInv(p)'
  <2>1. pc'[p] = "recheck" /\ op'[p] = op[p] /\ opt'[p] = opt[p] /\ journal' = journal
    BY <1>6 DEF Goto, IInv, TypeOK, ProcsOK, local
  <2>2. HolderOp(p)'
    BY <1>1, <2>1, OpKept, UntouchedKnows
  <2>3. op[p].prev = None => data'.kind = "empty"
    BY <1>2, <1>3, <1>6 DEF GlobalInv, SettledData
  <2>4. Forward(p)' /\ Backward(p)'
    BY <1>1, <1>2, <2>1, <2>3, UntouchedKnows
       DEF Forward, Backward, Restores, At, Untouched, Fresh, Launching, Recording, ToTarget,
           UpdateAt, RollbackAt, Early, Moved, HolderOp
  <2>5. op[p].prev # None => data' = data /\ env' = env
    BY <1>2, <1>6 DEF IInv, TypeOK, FilesOK
  <2>6. Pending' = Pending /\ Base' = Base /\ RestoreRuns' = RestoreRuns
    BY <1>1, <2>1 DEF Pending, Base, RestoreRuns
  <2>7. HistoryInv' /\ AsideInv' /\ PreviousInv'
    BY <1>1, <2>1, SnapKept, <1>2 DEF SnapStep
  <2>8. SettledData'
    BY <1>1, <1>2, <2>1, <2>3, <2>5 DEF GlobalInv, SettledData, Served
  <2>9. PendingData'
    BY <1>1, <1>2, <2>1, <2>5, UntouchedKnows DEF PendingData, Served, Moved, PanelOf, Early
  <2> QED BY <1>1, <2>1, <2>2, <2>4, <2>6, <2>7, <2>8, <2>9, LockedReads, UntouchedKnows
          DEF HolderInv, GlobalInv, Locked
<1> QED BY <1>5, <1>6 DEF Preflight

LEMMA RecheckData ==
  ASSUME IInv, DataInv, NEW p \in Procs, Recheck(p)
  PROVE  GlobalInv' /\ HolderInv(p)' /\ ReaderInv(p)'
<1>1. pc[p] = "recheck" /\ pc[p] \in Untouched /\ pc[p] \in Locked
  BY DEF Recheck, At, Untouched, Locked
<1>2. UNCHANGED <<previous, panel, data, failed, nextId>> /\ UNCHANGED <<env, snap, staged, restore>>
  BY DEF Recheck, dirs
<1>3. ASSUME NEW label, label = (IF op[p].prev = None THEN "copied" ELSE "stop"),
             Save(p, "stopping", label)
      PROVE  GlobalInv' /\ HolderInv(p)' /\ ReaderInv(p)'
  <2>1. "stopping" \in Phases /\ "stopping" \notin Final \cup {"none"}
    BY DEF Phases, Final
  <2>2. /\ Rewritten /\ journal'.phase = "stopping" /\ SameOp(op'[p], op[p]) /\ HolderOp(p)'
        /\ journal'.verified = op[p].verified /\ journal'.restoreData = op[p].restoreData
        /\ pc'[p] = label /\ opt'[p] = opt[p]
    BY <1>1, <1>2, <1>3, <2>1, Saving
  <2>3. /\ Pending /\ Pending' /\ journal.phase \in Early
        /\ ~RestoreRuns' /\ ~Moved(journal.id) /\ GlobalInv
        /\ journal'.verified = FALSE /\ journal'.restoreData = FALSE
    BY <1>1, <1>2, <2>2, UntouchedKnows DEF HolderOp, Early, RestoreRuns
  <2>4. journal.prev # None \/ data.kind = "empty"
    BY <1>1, UntouchedKnows DEF Forward, HolderOp, At
  <2>5. GlobalInv'
    BY <1>2, <2>2, <2>3, <2>4, GoingOn DEF Quiet, Final
  <2>6. Forward(p)' /\ Backward(p)'
    BY <1>1, <1>2, <1>3, <2>2, UntouchedKnows
       DEF Forward, Backward, Restores, At, Untouched, Fresh, Launching, Recording, ToTarget,
           UpdateAt, RollbackAt, Early, SameOp, Moved, HolderOp
  <2> QED BY <1>3, <2>2, <2>5, <2>6, LockedReads DEF HolderInv, Locked
<1>4. CASE Finish(p, "failed-before-cutover")
  BY <1>1, <1>2, <1>4, UntouchedFinish DEF Final
<1> QED BY <1>3, <1>4 DEF Recheck

----------------------------------------------------------------------------
(* The cutover *)

\* What the process knows between stopping the panel and starting the target.
LEMMA CutoverKnows ==
  ASSUME IInv, DataInv, NEW p \in Procs,
         pc[p] \in {"stop", "stopped", "copy", "copied", "up", "started", "check"}
  PROVE  /\ pc[p] \in Locked /\ HolderOp(p) /\ Forward(p) /\ ~RestoreRuns
         /\ GlobalInv /\ PendingData /\ journal.phase \notin Quiet /\ Complete(op[p])
         /\ opt[p].kind # "rollback" /\ ~Moved(journal.id)
         /\ op[p] \in Operation
         /\ pc[p] \in {"stop", "stopped", "copy"} =>
              /\ op[p].verified = FALSE /\ op[p].restoreData = FALSE /\ op[p].prev # None
              /\ journal.phase \in Early /\ Served(op[p].prev)
         /\ pc[p] \in {"up", "started", "check"} =>
              journal.phase \in Starting /\ (op[p].prev # None => journal.verified = TRUE)
<1>1. /\ pc[p] \in Locked /\ pc[p] \in ToTarget /\ pc[p] \in UpdateAt
      /\ ~At(p, "restore-wait") /\ pc[p] \notin Untouched
  BY DEF At, Locked, Fresh, Untouched, ToTarget, UpdateAt, Launching
<1>2. /\ HolderOp(p) /\ Forward(p) /\ ~RestoreRuns /\ GlobalInv /\ PendingData
      /\ journal.phase \notin Quiet /\ Complete(op[p]) /\ op[p] \in Operation
  BY <1>1, HolderKnown, Types2 DEF DataInv, GlobalInv, HolderOp, IInv
<1>3. opt[p].kind # "rollback" /\ ~Moved(journal.id)
  BY <1>1, <1>2 DEF Forward, HolderOp
<1>4. pc[p] \in {"stop", "stopped", "copy"} =>
        /\ op[p].verified = FALSE /\ op[p].restoreData = FALSE /\ op[p].prev # None
        /\ journal.phase \in Early /\ Served(op[p].prev)
  BY <1>2 DEF Forward, HolderOp, Fresh, PendingData, IInv, RecordInv, ProcComplete, NeedsPrevious
<1>5. pc[p] \in {"up", "started", "check"} =>
        journal.phase \in Starting /\ (op[p].prev # None => journal.verified = TRUE)
  BY <1>2 DEF Forward, Launching
<1> QED BY <1>1, <1>2, <1>3, <1>4, <1>5

LEMMA PhasedSame ==
  ASSUME NEW o \in Operation, NEW phase \in Phases
  PROVE  SameOp(Phase(o, phase), o) /\ Phase(o, phase) \in Operation
         /\ Phase(o, phase).phase = phase
BY PhaseOf DEF SameOp

\* A step of the cutover that ends in the recovery, with the snapshots as they are.
LEMMA CutoverFails ==
  ASSUME IInv, DataInv, NEW p \in Procs,
         pc[p] \in {"stop", "stopped", "copied", "started", "check"},
         NEW o \in Operation, SameOp(o, op[p]), EnterRecovery(p, o, snap),
         MayHaveStarted(o.phase) \/ pc[p] \in {"stop", "stopped"},
         Stops \/ UNCHANGED panel,
         UNCHANGED <<journal, previous, env, data, failed, nextId>>,
         UNCHANGED <<staged, restore>>
  PROVE  GlobalInv' /\ HolderInv(p)' /\ ReaderInv(p)'
<1>1. panel'.image = panel.image /\ (panel'.running = TRUE => panel.running = TRUE)
      /\ snap \in [Ids -> Dir]
  BY DEF IInv, TypeOK, DockerOK, DirsOK, Stops
<1>2. SnapStep /\ HolderInv(p)' /\ ReaderInv(p)'
  BY <1>1, Entering
<1>3. GlobalInv'
  BY <1>2, StoppedKeeps DEF DataInv
<1> QED BY <1>2, <1>3

LEMMA StopData ==
  ASSUME IInv, DataInv, NEW p \in Procs, Stop(p)
  PROVE  GlobalInv' /\ HolderInv(p)' /\ ReaderInv(p)'
<1>1. pc[p] = "stop" /\ UNCHANGED <<journal, previous, env, data, failed, nextId>>
      /\ UNCHANGED <<staged, restore>>
  BY DEF Stop, At, files
<1>2. CASE Stops /\ Goto(p, "stopped") /\ UNCHANGED <<lock, local, snap>>
  <2>1. pc'[p] = "stopped" /\ op'[p] = op[p] /\ opt'[p] = opt[p] /\ snap' = snap
    BY <1>2 DEF Goto, IInv, TypeOK, ProcsOK, local
  <2>2. HolderOp(p)' /\ SnapStep
    BY <1>1, <2>1, OpKept, CutoverKnows DEF SnapStep
  <2>3. Forward(p)' /\ Backward(p)'
    BY <1>1, <2>1, CutoverKnows
       DEF Forward, Backward, Restores, At, Untouched, Fresh, Launching, Recording, ToTarget,
           UpdateAt, RollbackAt, Moved, HolderOp
  <2>4. GlobalInv'
    BY <1>1, <1>2, <2>2, StoppedKeeps DEF DataInv
  <2> QED BY <2>1, <2>2, <2>3, <2>4, LockedReads DEF HolderInv, Locked
<1>3. CASE (Stops \/ UNCHANGED panel) /\ EnterRecovery(p, op[p], snap)
  BY <1>1, <1>3, CutoverFails, CutoverKnows DEF SameOp
<1> QED BY <1>2, <1>3 DEF Stop

\* A journal write of the cutover.
LEMMA CutoverSaves ==
  ASSUME IInv, DataInv, NEW p \in Procs, pc[p] \in {"stopped", "copied", "started"},
         NEW phase, phase \in {"starting-target", "checking-target"}
                    \/ (phase = "backing-up" /\ pc[p] = "stopped"),
         NEW label, Save(p, phase, label),
         UNCHANGED <<previous, panel, data, failed, nextId>>,
         UNCHANGED <<env, snap, staged, restore>>
  PROVE  /\ GlobalInv' /\ HolderOp(p)' /\ Rewritten
         /\ journal'.phase = phase /\ journal'.verified = op[p].verified
         /\ pc'[p] = label /\ opt'[p] = opt[p] /\ SameOp(op'[p], op[p]) /\ ~Moved(op[p].id)
<1>1. phase \in Phases /\ phase \notin Final \cup {"none"} /\ phase \notin Quiet
      /\ (phase \in Early => pc[p] = "stopped")
  BY DEF Phases, Final, Quiet, Early
<1>2. /\ pc[p] \in Locked /\ GlobalInv /\ journal.phase \notin Quiet /\ ~RestoreRuns
      /\ ~Moved(journal.id) /\ HolderOp(p)
      /\ pc[p] = "stopped" => /\ journal.phase \in Early /\ op[p].verified = FALSE
                              /\ op[p].restoreData = FALSE
  BY CutoverKnows
<1>3. /\ Rewritten /\ journal'.phase = phase /\ journal'.verified = op[p].verified
      /\ journal'.restoreData = op[p].restoreData
      /\ pc'[p] = label /\ opt'[p] = opt[p] /\ SameOp(op'[p], op[p]) /\ HolderOp(p)'
  BY <1>1, <1>2, Saving
<1>4. Pending /\ Pending' /\ ~RestoreRuns' /\ journal.phase \notin {"prepared", "downloaded"}
  BY <1>2, <1>3 DEF HolderOp, RestoreRuns, Quiet
<1>5. GlobalInv'
  BY <1>1, <1>2, <1>3, <1>4, GoingOn
<1> QED BY <1>2, <1>3, <1>5 DEF HolderOp

LEMMA StoppedData ==
  ASSUME IInv, DataInv, NEW p \in Procs, Stopped(p)
  PROVE  GlobalInv' /\ HolderInv(p)' /\ ReaderInv(p)'
<1>1. pc[p] = "stopped" /\ UNCHANGED <<previous, panel, data, failed, nextId>>
      /\ UNCHANGED <<env, staged, restore>>
  BY DEF Stopped, At
<1>2. CASE Save(p, "backing-up", "copy") /\ UNCHANGED snap
  <2>1. /\ GlobalInv' /\ HolderOp(p)' /\ journal'.phase = "backing-up"
        /\ pc'[p] = "copy" /\ opt'[p] = opt[p] /\ SameOp(op'[p], op[p]) /\ ~Moved(op[p].id)
    BY <1>1, <1>2, CutoverSaves
  <2>2. Forward(p)' /\ Backward(p)'
    BY <1>1, <2>1, CutoverKnows
       DEF Forward, Backward, Restores, At, Untouched, Fresh, Launching, Recording, ToTarget,
           UpdateAt, RollbackAt, Moved, SameOp, Early
  <2> QED BY <2>1, <2>2, LockedReads DEF HolderInv, Locked
<1>3. ASSUME NEW phase \in {"stopping", "backing-up"},
             EnterRecovery(p, Phase(op[p], phase), snap), UNCHANGED journal
      PROVE  GlobalInv' /\ HolderInv(p)' /\ ReaderInv(p)'
  <2>1. phase \in Phases /\ op[p] \in Operation
    BY <1>1, CutoverKnows DEF Phases
  <2>2. SameOp(Phase(op[p], phase), op[p]) /\ Phase(op[p], phase) \in Operation
    BY <2>1, PhasedSame
  <2> QED BY <1>1, <1>3, <2>2, CutoverFails
<1> QED BY <1>2, <1>3 DEF Stopped

LEMMA CopiedData ==
  ASSUME IInv, DataInv, NEW p \in Procs, Copied(p)
  PROVE  GlobalInv' /\ HolderInv(p)' /\ ReaderInv(p)'
<1>1. pc[p] = "copied" /\ UNCHANGED <<previous, panel, data, failed, nextId>>
      /\ UNCHANGED <<env, staged, restore>>
  BY DEF Copied, At
<1>2. CASE Save(p, "starting-target", "up") /\ UNCHANGED snap
  <2>1. /\ GlobalInv' /\ HolderOp(p)' /\ journal'.phase = "starting-target"
        /\ journal'.verified = op[p].verified
        /\ pc'[p] = "up" /\ opt'[p] = opt[p] /\ SameOp(op'[p], op[p]) /\ ~Moved(op[p].id)
    BY <1>1, <1>2, CutoverSaves
  <2>2. op[p].prev # None => op[p].verified = TRUE
    BY <1>1, CutoverKnows DEF Forward, At
  <2>3. Forward(p)' /\ Backward(p)'
    BY <1>1, <2>1, <2>2, CutoverKnows
       DEF Forward, Backward, Restores, At, Untouched, Fresh, Launching, Recording, ToTarget,
           UpdateAt, RollbackAt, Moved, SameOp, Starting
  <2> QED BY <2>1, <2>3, LockedReads DEF HolderInv, Locked
<1>3. ASSUME EnterRecovery(p, Phase(op[p], "starting-target"), snap), UNCHANGED journal
      PROVE  GlobalInv' /\ HolderInv(p)' /\ ReaderInv(p)'
  <2>1. "starting-target" \in Phases /\ op[p] \in Operation /\ MayHaveStarted("starting-target")
    BY <1>1, CutoverKnows DEF Phases, MayHaveStarted, BeforeStart
  <2>2. /\ SameOp(Phase(op[p], "starting-target"), op[p])
        /\ Phase(op[p], "starting-target") \in Operation
        /\ MayHaveStarted(Phase(op[p], "starting-target").phase)
    BY <2>1, PhasedSame
  <2> QED BY <1>1, <1>3, <2>2, CutoverFails
<1> QED BY <1>2, <1>3 DEF Copied

LEMMA StartedData ==
  ASSUME IInv, DataInv, NEW p \in Procs, Started(p)
  PROVE  GlobalInv' /\ HolderInv(p)' /\ ReaderInv(p)'
<1>1. pc[p] = "started" /\ UNCHANGED <<previous, panel, data, failed, nextId>>
      /\ UNCHANGED <<env, staged, restore>>
  BY DEF Started, At
<1>2. CASE Save(p, "checking-target", "check") /\ UNCHANGED snap
  <2>1. /\ GlobalInv' /\ HolderOp(p)' /\ journal'.phase = "checking-target" /\ Rewritten
        /\ pc'[p] = "check" /\ opt'[p] = opt[p] /\ SameOp(op'[p], op[p]) /\ ~Moved(op[p].id)
    BY <1>1, <1>2, CutoverSaves
  <2>2. op[p].prev # None => journal'.verified = TRUE
    BY <1>1, <2>1, CutoverKnows DEF Rewritten
  <2>3. Forward(p)' /\ Backward(p)'
    BY <1>1, <2>1, <2>2, CutoverKnows
       DEF Forward, Backward, Restores, At, Untouched, Fresh, Launching, Recording, ToTarget,
           UpdateAt, RollbackAt, Moved, SameOp, Starting
  <2> QED BY <2>1, <2>3, LockedReads DEF HolderInv, Locked
<1>3. ASSUME EnterRecovery(p, Phase(op[p], "checking-target"), snap), UNCHANGED journal
      PROVE  GlobalInv' /\ HolderInv(p)' /\ ReaderInv(p)'
  <2>1. "checking-target" \in Phases /\ op[p] \in Operation /\ MayHaveStarted("checking-target")
    BY <1>1, CutoverKnows DEF Phases, MayHaveStarted, BeforeStart
  <2>2. /\ SameOp(Phase(op[p], "checking-target"), op[p])
        /\ Phase(op[p], "checking-target") \in Operation
        /\ MayHaveStarted(Phase(op[p], "checking-target").phase)
    BY <2>1, PhasedSame
  <2> QED BY <1>1, <1>3, <2>2, CutoverFails
<1> QED BY <1>2, <1>3 DEF Started

\* The snapshot is the data of the stopped panel.
LEMMA CopyData ==
  ASSUME IInv, DataInv, NEW p \in Procs, Copy(p)
  PROVE  GlobalInv' /\ HolderInv(p)' /\ ReaderInv(p)'
<1>1. pc[p] = "copy" /\ UNCHANGED <<journal, previous, env, data, failed, nextId>>
      /\ UNCHANGED <<staged, restore>> /\ UNCHANGED panel
  BY DEF Copy, At, files
<1>2. /\ HolderOp(p) /\ Forward(p) /\ GlobalInv /\ Complete(op[p]) /\ op[p] \in Operation
      /\ op[p].verified = FALSE /\ op[p].prev # None /\ journal.phase \in Early
      /\ Served(op[p].prev) /\ opt[p].kind # "rollback" /\ ~Moved(op[p].id)
  BY <1>1, CutoverKnows DEF HolderOp
<1>3. op[p].id = journal.id /\ op[p].id \in Ids /\ journal.verified = FALSE
  BY <1>2 DEF HolderOp, Complete, GlobalInv, HistoryInv
<1>4. snap \in [Ids -> Dir] /\ data \in Dir
  BY DEF IInv, TypeOK, DirsOK
<1>5. ASSUME snap' = [snap EXCEPT ![op[p].id] = data],
             Hold(p, [op[p] EXCEPT !.verified = TRUE]), Goto(p, "copied"), UNCHANGED opt
      PROVE  GlobalInv' /\ HolderInv(p)' /\ ReaderInv(p)'
  <2>1. pc'[p] = "copied" /\ op'[p] = [op[p] EXCEPT !.verified = TRUE] /\ opt'[p] = opt[p]
    BY <1>5 DEF Hold, Goto, IInv, TypeOK, ProcsOK
  <2>2. /\ op'[p].id = op[p].id /\ op'[p].prev = op[p].prev /\ op'[p].target = op[p].target
        /\ op'[p].verified = TRUE /\ op'[p].restoreData = op[p].restoreData
    BY <1>2, <2>1 DEF Operation
  <2>3. snap'[op[p].id] = data /\ \A i \in Ids \ {op[p].id} : snap'[i] = snap[i]
    BY <1>3, <1>4, <1>5
  <2>4. SnapStep
    BY <1>3, <2>3 DEF SnapStep
  <2>5. HolderOp(p)'
    BY <1>1, <1>2, <1>3, <2>2, <2>3 DEF HolderOp, Pending, Restorable, Served
  <2>6. Forward(p)' /\ Backward(p)'
    BY <1>1, <1>2, <2>1, <2>2
       DEF Forward, Backward, Restores, At, Untouched, Fresh, Launching, Recording, ToTarget,
           UpdateAt, RollbackAt, Moved
  <2>7. GlobalInv'
    BY <1>1, <1>2, <2>4, StoppedKeeps
  <2> QED BY <2>1, <2>5, <2>6, <2>7, LockedReads DEF HolderInv, Locked
<1>6. ASSUME EnterRecovery(p, op[p], [snap EXCEPT ![op[p].id] = Partial])
      PROVE  GlobalInv' /\ HolderInv(p)' /\ ReaderInv(p)'
  <2>1. /\ [snap EXCEPT ![op[p].id] = Partial] \in [Ids -> Dir]
        /\ \A i \in Ids \ {op[p].id} : [snap EXCEPT ![op[p].id] = Partial][i] = snap[i]
    <3>1. Partial \in Dir
      BY DEF Partial, Dir
    <3> QED BY <1>4, <3>1
  <2>2. SnapStep /\ HolderInv(p)' /\ ReaderInv(p)'
    BY <1>1, <1>2, <1>6, <2>1, Entering DEF SameOp
  <2>3. GlobalInv'
    BY <1>1, <1>2, <2>2, StoppedKeeps
  <2> QED BY <2>2, <2>3
<1> QED BY <1>5, <1>6 DEF Copy

LEMMA UpData ==
  ASSUME IInv, DataInv, NEW p \in Procs, Up(p)
  PROVE  GlobalInv' /\ HolderInv(p)' /\ ReaderInv(p)'
<1>1. pc[p] = "up" /\ UNCHANGED <<journal, previous, env, failed, nextId>>
      /\ UNCHANGED <<staged, restore>>
  BY DEF Up, At, files
<1>2. /\ HolderOp(p) /\ Forward(p) /\ GlobalInv /\ PendingData /\ op[p] \in Operation
      /\ op[p].target = journal.target /\ op[p].target \in Versions /\ Pending
      /\ journal.phase \in Starting /\ ~Moved(journal.id) /\ journal.phase \notin Quiet
      /\ ~RestoreRuns /\ opt[p].kind # "rollback"
  BY <1>1, CutoverKnows DEF HolderOp, Complete
<1>3. Exists(data)
  BY <1>2 DEF PendingData, Exists, Served, Starting
<1>4. ASSUME Opening(op[p].target), SnapStep PROVE GlobalInv'
  BY <1>1, <1>2, <1>3, <1>4, OpenedKeeps
<1>5. ASSUME NEW label \in {"check", "started"}, ComesUp(op[p].target), Goto(p, label),
             UNCHANGED <<lock, local, snap>>
      PROVE  GlobalInv' /\ HolderInv(p)' /\ ReaderInv(p)'
  <2>1. pc'[p] = label /\ op'[p] = op[p] /\ opt'[p] = opt[p] /\ snap' = snap
    BY <1>5 DEF Goto, IInv, TypeOK, ProcsOK, local
  <2>2. GlobalInv' /\ HolderOp(p)'
    BY <1>1, <1>2, <1>4, <1>5, <2>1, OpKept DEF Opening, SnapStep
  <2>3. Forward(p)' /\ Backward(p)'
    BY <1>1, <1>2, <2>1, CutoverKnows
       DEF Forward, Backward, Restores, At, Untouched, Fresh, Launching, Recording, ToTarget,
           UpdateAt, RollbackAt, Moved, HolderOp
  <2> QED BY <2>1, <2>2, <2>3, LockedReads DEF HolderInv, Locked
<1>6. ASSUME UpFails(op[p].target), EnterRecovery(p, op[p], snap)
      PROVE  GlobalInv' /\ HolderInv(p)' /\ ReaderInv(p)'
  <2>1. MayHaveStarted(op[p].phase) /\ snap \in [Ids -> Dir]
    BY <1>1 DEF IInv, RecordInv, ProcComplete, TypeOK, DirsOK
  <2>2. SnapStep /\ HolderInv(p)' /\ ReaderInv(p)'
    BY <1>1, <1>2, <1>6, <2>1, Entering DEF SameOp
  <2> QED BY <1>4, <1>6, <2>2 DEF Opening
<1>7. QED
  BY <1>5, <1>6 DEF Up

LEMMA CheckData ==
  ASSUME IInv, DataInv, NEW p \in Procs, Check(p)
  PROVE  GlobalInv' /\ HolderInv(p)' /\ ReaderInv(p)'
<1>1. pc[p] = "check" /\ UNCHANGED <<journal, previous, env, data, failed, nextId>>
      /\ UNCHANGED <<staged, restore>> /\ UNCHANGED panel
  BY DEF Check, At, files
<1>2. /\ HolderOp(p) /\ Forward(p) /\ GlobalInv /\ op[p] \in Operation
      /\ op[p].target \in Versions /\ journal.phase \in Starting /\ ~Moved(op[p].id)
      /\ opt[p].kind # "rollback" /\ op[p].prev # None => journal.verified = TRUE
  BY <1>1, CutoverKnows DEF HolderOp, Complete
<1>3. MayHaveStarted(op[p].phase)
  BY <1>1 DEF IInv, RecordInv, ProcComplete
<1>4. ASSUME NEW label, label = (IF op[p].prev = None THEN "record-active" ELSE "record-previous"),
             Healthy(op[p].target), Goto(p, label), UNCHANGED <<lock, local, snap>>
      PROVE  GlobalInv' /\ HolderInv(p)' /\ ReaderInv(p)'
  <2>1. pc'[p] = label /\ op'[p] = op[p] /\ opt'[p] = opt[p] /\ snap' = snap
    BY <1>4 DEF Goto, IInv, TypeOK, ProcsOK, local
  <2>2. GlobalInv' /\ HolderOp(p)'
    BY <1>1, <1>2, <2>1, OpKept, StoppedKeeps DEF SnapStep
  <2>3. panel.image = op[p].target /\ Served(op[p].target)
    BY <1>2, <1>4, SchemaAssumption DEF Healthy, Served
  <2>4. Forward(p)' /\ Backward(p)'
    BY <1>1, <1>2, <1>3, <1>4, <2>1, <2>3
       DEF Forward, Backward, Restores, At, Untouched, Fresh, Launching, Recording, ToTarget,
           UpdateAt, RollbackAt, Moved, Served
  <2> QED BY <1>4, <2>1, <2>2, <2>4, LockedReads DEF HolderInv, Locked
<1>5. CASE EnterRecovery(p, op[p], snap)
  BY <1>1, <1>2, <1>3, <1>5, CutoverFails DEF SameOp
<1> QED BY <1>4, <1>5 DEF Check

----------------------------------------------------------------------------
(* The records of a success *)

LEMMA RecordingKnows ==
  ASSUME IInv, DataInv, NEW p \in Procs, pc[p] \in Recording
  PROVE  /\ HolderOp(p) /\ Forward(p) /\ GlobalInv /\ PendingData /\ ~RestoreRuns
         /\ op[p] \in Operation /\ op[p].target \in Versions /\ opt[p].kind # "rollback"
         /\ ~Moved(op[p].id) /\ journal.phase \in Starting
         /\ op[p].prev # None => journal.verified = TRUE
         /\ panel.image = op[p].target /\ Served(op[p].target) /\ MayHaveStarted(op[p].phase)
         /\ journal.id < nextId /\ pc[p] \in Locked
<1>1. /\ pc[p] \in Locked /\ pc[p] \in ToTarget /\ pc[p] \in UpdateAt /\ pc[p] \in Launching
      /\ ~At(p, "restore-wait") /\ pc[p] \notin Untouched
  BY DEF At, Locked, Recording, Untouched, ToTarget, UpdateAt, Launching
<1>2. /\ HolderOp(p) /\ Forward(p) /\ ~RestoreRuns /\ GlobalInv /\ PendingData
      /\ Complete(op[p]) /\ op[p] \in Operation
  BY <1>1, HolderKnown, Types2 DEF DataInv, GlobalInv, HolderOp, IInv
<1> QED BY <1>1, <1>2 DEF Forward, Complete, GlobalInv, HistoryInv

LEMMA RecordPreviousData ==
  ASSUME IInv, DataInv, NEW p \in Procs, RecordPrevious(p)
  PROVE  GlobalInv' /\ HolderInv(p)' /\ ReaderInv(p)'
<1>1. /\ pc[p] = "record-previous" /\ pc[p] \in Recording /\ previous' = op[p]
      /\ UNCHANGED <<journal, env, panel, nextId>> /\ UNCHANGED <<data, snap, staged, failed, restore>>
  BY DEF RecordPrevious, At, Recording, dirs
<1>2. pc'[p] = "record-active" /\ op'[p] = op[p] /\ opt'[p] = opt[p]
  BY DEF RecordPrevious, Goto, IInv, TypeOK, ProcsOK, local
<1>3. op[p].prev # None
  BY <1>1 DEF IInv, RecordInv, ProcComplete, NeedsPrevious
<1>4. HolderOp(p)'
  BY <1>1, <1>2, RecordingKnows, OpKept
<1>5. Forward(p)' /\ Backward(p)'
  BY <1>1, <1>2, RecordingKnows
     DEF Forward, Backward, Restores, At, Untouched, Fresh, Launching, Recording, ToTarget,
         UpdateAt, RollbackAt, Moved, Served
<1>6. Pending' = Pending /\ Base' = Base /\ Pending
  BY <1>1, RecordingKnows DEF Pending, Base, HolderOp
<1>7. HistoryInv' /\ AsideInv'
  BY <1>1, <1>3, <1>6, RecordingKnows
     DEF GlobalInv, HistoryInv, AsideInv, Restorable, Moved, HolderOp
<1>8. PreviousInv'
  <2>1. Base = op[p].prev /\ op[p].verified = TRUE /\ Restorable(op[p])
        /\ op[p].prev <= op[p].target /\ journal.verified = TRUE
    BY <1>1, <1>3, <1>6, RecordingKnows DEF Base, HolderOp, GlobalInv, HistoryInv
  <2>2. panel.image # None /\ op[p].id < nextId
    BY <1>1, RecordingKnows, Types2 DEF HolderOp, IInv
  <2> QED BY <1>1, <1>3, <1>6, <2>1, <2>2, RecordingKnows DEF PreviousInv, HolderOp, Restorable
<1>9. SettledData' /\ PendingData' /\ ~RestoreRuns'
  BY <1>1, RecordingKnows
     DEF GlobalInv, SettledData, Served, PendingData, Moved, PanelOf, RestoreRuns
<1> QED BY <1>2, <1>4, <1>5, <1>7, <1>8, <1>9, LockedReads DEF HolderInv, GlobalInv, Locked

LEMMA RecordActiveData ==
  ASSUME IInv, DataInv, NEW p \in Procs, RecordActive(p)
  PROVE  GlobalInv' /\ HolderInv(p)' /\ ReaderInv(p)'
<1>1. /\ pc[p] = "record-active" /\ pc[p] \in Recording
      /\ UNCHANGED <<journal, previous, env, data, failed, nextId>>
      /\ UNCHANGED <<staged, restore>> /\ UNCHANGED <<panel, snap>>
  BY DEF RecordActive, At, Recording, dirs
<1>2. pc'[p] = "record-success" /\ op'[p] = op[p] /\ opt'[p] = opt[p]
  BY DEF RecordActive, Goto, IInv, TypeOK, ProcsOK, local
<1>3. HolderOp(p)'
  BY <1>1, <1>2, RecordingKnows, OpKept
<1>4. Forward(p)' /\ Backward(p)'
  BY <1>1, <1>2, RecordingKnows
     DEF Forward, Backward, Restores, At, Untouched, Fresh, Launching, Recording, ToTarget,
         UpdateAt, RollbackAt, Moved, Served
<1>5. GlobalInv'
  BY <1>1, RecordingKnows, StoppedKeeps DEF SnapStep
<1> QED BY <1>2, <1>3, <1>4, <1>5, LockedReads DEF HolderInv, Locked

LEMMA RecordSuccessData ==
  ASSUME IInv, DataInv, NEW p \in Procs, RecordSuccess(p)
  PROVE  GlobalInv' /\ HolderInv(p)' /\ ReaderInv(p)'
<1>1. /\ pc[p] = "record-success" /\ pc[p] \in Recording /\ Finish(p, "success")
      /\ UNCHANGED <<previous, panel, data, failed, nextId>>
      /\ UNCHANGED <<env, snap, staged, restore>>
  BY DEF RecordSuccess, At, Recording, dirs
<1>2. "success" \in Phases /\ "success" \in Final /\ "success" \notin Early
  BY DEF Phases, Final, Early
<1>3. Rewritten /\ journal'.phase = "success" /\ HolderInv(p)' /\ ReaderInv(p)'
  BY <1>1, <1>2, RecordingKnows, Finishing
<1>4. previous.id # None /\ Moved(previous.id) => panel.image = previous.prev
  BY <1>1, RecordingKnows DEF Forward, HolderOp, GlobalInv, HistoryInv
<1>5. Pending /\ ~RestoreRuns' /\ Served(panel.image)
  BY <1>1, RecordingKnows DEF HolderOp, RestoreRuns
<1>6. GlobalInv'
  BY <1>1, <1>2, <1>3, <1>4, <1>5, RecordingKnows, Settling
<1> QED BY <1>3, <1>6

----------------------------------------------------------------------------
(* The recovery of a failed update *)

LEMMA RecoveryKnows ==
  ASSUME IInv, DataInv, NEW p \in Procs,
         pc[p] \in {"rec-stop", "auto-check", "rec-required", "rec-up", "rec-check", "rec-done"}
  PROVE  /\ pc[p] \in Locked /\ HolderOp(p) /\ Forward(p) /\ Backward(p) /\ ~RestoreRuns
         /\ GlobalInv /\ PendingData /\ journal.phase \notin Quiet /\ Complete(op[p])
         /\ op[p] \in Operation /\ opt[p].kind # "rollback"
         /\ op[p].restoreData = FALSE => ~Moved(op[p].id)
<1>1. /\ pc[p] \in Locked /\ pc[p] \in UpdateAt
      /\ ~At(p, "restore-wait") /\ pc[p] \notin Untouched
  BY DEF At, Locked, Untouched, UpdateAt, ToTarget
<1>2. /\ HolderOp(p) /\ Forward(p) /\ Backward(p) /\ ~RestoreRuns /\ GlobalInv /\ PendingData
      /\ journal.phase \notin Quiet /\ Complete(op[p]) /\ op[p] \in Operation
  BY <1>1, HolderKnown, Types2 DEF DataInv, GlobalInv, HolderOp, IInv
<1> QED BY <1>1, <1>2 DEF Forward

LEMMA RecStopData ==
  ASSUME IInv, DataInv, NEW p \in Procs, RecStop(p)
  PROVE  GlobalInv' /\ HolderInv(p)' /\ ReaderInv(p)'
<1>1. /\ pc[p] = "rec-stop" /\ pc[p] \in ToTarget
      /\ UNCHANGED <<journal, previous, env, data, failed, nextId>>
      /\ UNCHANGED <<staged, restore>> /\ UNCHANGED <<snap, op, opt>>
      /\ Stops \/ UNCHANGED panel
  BY DEF RecStop, At, ToTarget, files, dirs, local
<1>2. GlobalInv' /\ HolderOp(p)'
  BY <1>1, StoppedKeeps, RecoveryKnows, OpKept DEF SnapStep
<1>3. pc'[p] \in {"rec-required", "rec-up", "auto-check"}
  BY DEF RecStop, AfterTargetStopped, Goto, IInv, TypeOK, ProcsOK
<1>4. ~Moved(op[p].id) /\ (op[p].prev # None => op[p].restoreData = FALSE)
  BY <1>1, RecoveryKnows DEF Forward
<1>5. pc'[p] = "rec-up" => PrevReady(p)'
  <2>1. SUFFICES ASSUME pc'[p] = "rec-up" PROVE PrevReady(p)'
    OBVIOUS
  <2>2. Stops /\ op[p].prev # None /\ ~SchemaChanges(op[p])
    BY <2>1 DEF RecStop, AfterTargetStopped, Goto, IInv, TypeOK, ProcsOK
  <2>3. panel'.running = FALSE
    BY <2>2 DEF Stops, IInv, TypeOK, DockerOK
  <2>4. Served(op[p].target)
    BY <1>1, <1>4, <2>2, RecoveryKnows DEF PendingData, HolderOp
  <2> QED BY <1>1, <2>2, <2>3, <2>4 DEF PrevReady, Served, SchemaChanges
<1>6. Forward(p)' /\ Backward(p)'
  BY <1>1, <1>3, <1>4, <1>5, RecoveryKnows
     DEF Forward, Backward, Restores, At, Untouched, Fresh, Launching, Recording, ToTarget,
         UpdateAt, RollbackAt, Moved
<1> QED BY <1>2, <1>3, <1>6, LockedReads DEF HolderInv, Locked

LEMMA RecRequiredData ==
  ASSUME IInv, DataInv, NEW p \in Procs, RecRequired(p)
  PROVE  GlobalInv' /\ HolderInv(p)' /\ ReaderInv(p)'
<1>1. /\ pc[p] = "rec-required" /\ Finish(p, "recovery-required")
      /\ UNCHANGED <<previous, panel, data, failed, nextId>>
      /\ UNCHANGED <<env, snap, staged, restore>>
  BY DEF RecRequired, At, dirs
<1>2. /\ "recovery-required" \in Phases /\ "recovery-required" \notin Final \cup {"none"}
      /\ "recovery-required" \notin Early /\ "recovery-required" \notin Quiet
  BY DEF Phases, Final, Early, Quiet
<1>3. /\ Rewritten /\ journal'.phase = "recovery-required" /\ HolderInv(p)' /\ ReaderInv(p)'
      /\ journal'.restoreData = op[p].restoreData
  BY <1>1, <1>2, RecoveryKnows, Finishing
<1>4. Pending /\ Pending' /\ ~RestoreRuns' /\ journal.phase \notin {"prepared", "downloaded"}
      /\ op[p].id = journal.id
  BY <1>1, <1>2, <1>3, RecoveryKnows DEF HolderOp, Pending, RestoreRuns, Quiet
<1>5. GlobalInv'
  BY <1>1, <1>2, <1>3, <1>4, RecoveryKnows, GoingOn
<1> QED BY <1>3, <1>5

LEMMA RecUpData ==
  ASSUME IInv, DataInv, NEW p \in Procs, RecUp(p)
  PROVE  GlobalInv' /\ HolderInv(p)' /\ ReaderInv(p)'
<1>1. /\ pc[p] = "rec-up" /\ pc[p] \in UpdateAt
      /\ UNCHANGED <<journal, previous, env, failed, nextId>>
      /\ UNCHANGED <<staged, restore>> /\ UNCHANGED <<snap, op, opt>>
      /\ Opening(op[p].prev)
  BY DEF RecUp, At, UpdateAt, files, local, Opening
<1>2. pc'[p] \in {"rec-check", "rec-required"}
  BY DEF RecUp, Goto, IInv, TypeOK, ProcsOK
<1>3. Served(op[p].prev) /\ op[p].prev # None /\ op[p].prev = journal.prev
  BY <1>1, RecoveryKnows DEF Backward, PrevReady, HolderOp, IInv, RecordInv, ProcComplete,
                             NeedsPrevious
<1>4. op[p].prev \in Versions /\ Exists(data) /\ Pending
  BY <1>1, <1>3, RecoveryKnows, Types2 DEF IInv, Served, Exists, HolderOp
<1>5. SnapStep
  BY <1>1 DEF SnapStep
<1>6. GlobalInv' /\ HolderOp(p)'
  BY <1>1, <1>3, <1>4, <1>5, OpenedKeeps, RecoveryKnows, OpKept
<1>7. Forward(p)' /\ Backward(p)'
  BY <1>1, <1>2, RecoveryKnows
     DEF Forward, Backward, Restores, At, Untouched, Fresh, Launching, Recording, ToTarget,
         UpdateAt, RollbackAt, Moved
<1> QED BY <1>2, <1>6, <1>7, LockedReads DEF HolderInv, Locked

LEMMA RecCheckData ==
  ASSUME IInv, DataInv, NEW p \in Procs, RecCheck(p)
  PROVE  GlobalInv' /\ HolderInv(p)' /\ ReaderInv(p)'
<1>1. /\ pc[p] = "rec-check" /\ pc[p] \in UpdateAt
      /\ UNCHANGED <<journal, previous, env, data, failed, nextId>>
      /\ UNCHANGED <<staged, restore>> /\ UNCHANGED <<snap, op, opt>> /\ UNCHANGED panel
  BY DEF RecCheck, At, UpdateAt, files, dirs, local
<1>2. GlobalInv' /\ HolderOp(p)'
  BY <1>1, StoppedKeeps, RecoveryKnows, OpKept DEF SnapStep
<1>3. \/ pc'[p] = "rec-done" /\ Healthy(op[p].prev)
      \/ pc'[p] = "rec-required"
  BY DEF RecCheck, Goto, IInv, TypeOK, ProcsOK
<1>4. op[p].prev \in Versions
  BY <1>1, Types2 DEF IInv, RecordInv, ProcComplete, NeedsPrevious
<1>5. Healthy(op[p].prev) => panel.image = op[p].prev /\ Served(op[p].prev)
  BY <1>4, SchemaAssumption DEF Healthy, Served
<1>6. Forward(p)' /\ Backward(p)'
  BY <1>1, <1>3, <1>5, RecoveryKnows
     DEF Forward, Backward, Restores, At, Untouched, Fresh, Launching, Recording, ToTarget,
         UpdateAt, RollbackAt, Moved, Served
<1> QED BY <1>2, <1>3, <1>6, LockedReads DEF HolderInv, Locked

LEMMA RecDoneData ==
  ASSUME IInv, DataInv, NEW p \in Procs, RecDone(p)
  PROVE  GlobalInv' /\ HolderInv(p)' /\ ReaderInv(p)'
<1>1. /\ pc[p] = "rec-done" /\ Finish(p, "recovered")
      /\ UNCHANGED <<previous, panel, data, failed, nextId>>
      /\ UNCHANGED <<env, snap, staged, restore>>
  BY DEF RecDone, At, dirs
<1>2. "recovered" \in Phases /\ "recovered" \in Final /\ "recovered" \notin Early
  BY DEF Phases, Final, Early
<1>3. Rewritten /\ journal'.phase = "recovered" /\ HolderInv(p)' /\ ReaderInv(p)'
  BY <1>1, <1>2, RecoveryKnows, Finishing
<1>4. Pending /\ ~RestoreRuns' /\ Served(panel.image) /\ panel.image = journal.prev
  BY <1>1, RecoveryKnows DEF HolderOp, RestoreRuns, Backward
<1>5. previous.id # None /\ Moved(previous.id) => panel.image = previous.prev
  BY <1>1, <1>4, RecoveryKnows DEF GlobalInv, PreviousInv, Base
<1>6. GlobalInv'
  BY <1>1, <1>2, <1>3, <1>4, <1>5, RecoveryKnows, Settling
<1> QED BY <1>3, <1>6

\* The journal says that the data will be restored before anything is restored.
LEMMA AutoCheckData ==
  ASSUME IInv, DataInv, NEW p \in Procs, AutoCheck(p)
  PROVE  GlobalInv' /\ HolderInv(p)' /\ ReaderInv(p)'
<1>1. /\ pc[p] = "auto-check" /\ pc[p] \in ToTarget /\ pc[p] \in UpdateAt
      /\ UNCHANGED <<previous, panel, data, failed, nextId>>
      /\ UNCHANGED <<env, snap, staged, restore>> /\ UNCHANGED opt
  BY DEF AutoCheck, At, ToTarget, UpdateAt, dirs
<1>2. /\ HolderOp(p) /\ GlobalInv /\ op[p] \in Operation /\ op[p].prev # None
      /\ op[p].restoreData = FALSE /\ ~Moved(op[p].id) /\ opt[p].kind # "rollback"
      /\ journal.phase \notin Quiet /\ ~RestoreRuns
  BY <1>1, RecoveryKnows DEF Forward, IInv, RecordInv, ProcComplete, NeedsPrevious
<1>3. ASSUME NEW o, o = [Phase(op[p], "rolling-back") EXCEPT !.restoreData = TRUE],
             SnapshotUsable(op[p]), Write(o), Hold(p, o), Goto(p, "restore")
      PROVE  GlobalInv' /\ HolderInv(p)' /\ ReaderInv(p)'
  <2>1. /\ "rolling-back" \in Phases /\ "rolling-back" \notin Final \cup {"none"}
        /\ "rolling-back" \notin Early /\ "rolling-back" \notin Quiet
    BY DEF Phases, Final, Early, Quiet
  <2>2. /\ o \in Operation /\ o.phase = "rolling-back" /\ o.id = op[p].id /\ o.prev = op[p].prev
        /\ o.target = op[p].target /\ o.verified = op[p].verified /\ o.restoreData = TRUE
    BY <1>2, <1>3, <2>1 DEF Phase, Operation
  <2>3. journal' = o /\ op'[p] = o /\ pc'[p] = "restore"
    BY <1>3 DEF Write, Hold, Goto, IInv, TypeOK, ProcsOK
  <2>4. op[p].verified = TRUE
    BY <1>2, <1>3 DEF SnapshotUsable, Operation
  <2>5. Rewritten
    BY <1>1, <1>2, <2>2, <2>3 DEF Rewritten, HolderOp, Restorable
  <2>6. HolderOp(p)' /\ Pending' /\ Pending
    BY <1>1, <1>2, <2>1, <2>2, <2>3 DEF HolderOp, Pending, Restorable
  <2>7. GlobalInv'
    BY <1>1, <1>2, <2>1, <2>2, <2>3, <2>5, <2>6, GoingOn DEF Quiet, RestoreRuns
  <2>8. Forward(p)' /\ Backward(p)'
    BY <1>1, <1>2, <2>2, <2>3, <2>4
       DEF Forward, Backward, Restores, At, Untouched, Fresh, Launching, Recording, ToTarget,
           UpdateAt, RollbackAt, Moved
  <2> QED BY <2>3, <2>6, <2>7, <2>8, LockedReads DEF HolderInv, Locked
<1>4. ASSUME NEW b \in BOOLEAN, Hold(p, [op[p] EXCEPT !.restoreData = b]),
             Goto(p, "rec-required"), UNCHANGED journal
      PROVE  GlobalInv' /\ HolderInv(p)' /\ ReaderInv(p)'
  <2>1. op'[p] = [op[p] EXCEPT !.restoreData = b] /\ pc'[p] = "rec-required"
    BY <1>4 DEF Hold, Goto, IInv, TypeOK, ProcsOK
  <2>2. /\ op'[p].id = op[p].id /\ op'[p].prev = op[p].prev /\ op'[p].target = op[p].target
        /\ op'[p].verified = op[p].verified
    BY <1>2, <2>1 DEF Operation
  <2>3. HolderOp(p)'
    BY <1>1, <1>2, <1>4, <2>2, Types2 DEF HolderOp, Pending, Restorable, IInv
  <2>4. Forward(p)' /\ Backward(p)'
    BY <1>1, <1>2, <2>1, <2>2
       DEF Forward, Backward, Restores, At, Untouched, Fresh, Launching, Recording, ToTarget,
           UpdateAt, RollbackAt, Moved
  <2>5. GlobalInv'
    BY <1>1, <1>2, <1>4, StoppedKeeps DEF SnapStep
  <2> QED BY <2>1, <2>3, <2>4, <2>5, LockedReads DEF HolderInv, Locked
<1> QED BY <1>3, <1>4 DEF AutoCheck

----------------------------------------------------------------------------
(* The restore of the data *)

\* What an interrupted container leaves incomplete was not needed yet.
LEMMA InterruptedKeeps ==
  ASSUME IInv, GlobalInv, (RestoreRuns /\ Interrupts) \/ UNCHANGED staged, ~RestoreRuns',
         UNCHANGED <<journal, previous, env, panel, data, snap, failed, nextId>>
  PROVE  GlobalInv'
<1>1. Pending' = Pending /\ Base' = Base
  BY DEF Pending, Base
<1>2. HistoryInv' /\ PreviousInv' /\ AsideInv' /\ SettledData'
  BY <1>1 DEF GlobalInv, HistoryInv, PreviousInv, AsideInv, SettledData, Restorable, Moved,
              Served
<1>3. ASSUME Pending PROVE PendingData'
  <2>1. PendingData
    BY <1>3 DEF GlobalInv
  <2>2. Moved(journal.id) => staged'[journal.id] = staged[journal.id]
    BY DEF GlobalInv, RestoreData, Interrupts, MovedAside, Moved
  <2> QED BY <2>1, <2>2 DEF PendingData, Served, Moved, PanelOf
<1> QED BY <1>1, <1>2, <1>3 DEF GlobalInv

LEMMA RestoringKnows ==
  ASSUME IInv, DataInv, NEW p \in Procs, pc[p] \in {"restore", "restore-wait"}
  PROVE  /\ pc[p] \in Locked /\ HolderOp(p) /\ Backward(p) /\ GlobalInv /\ PendingData
         /\ journal.restoreData = TRUE /\ journal.verified = TRUE
         /\ journal.phase = "rolling-back" /\ panel.running = FALSE
         /\ op[p].restoreData = TRUE /\ op[p].prev # None /\ op[p].id \in Ids
<1>1. pc[p] \in Locked /\ Restores(p)
  BY DEF At, Locked, Restores
<1>2. /\ HolderOp(p) /\ Backward(p) /\ GlobalInv /\ PendingData
  BY <1>1, HolderKnown DEF DataInv, GlobalInv, HolderOp
<1>3. /\ journal.restoreData = TRUE /\ journal.verified = TRUE
      /\ journal.phase = "rolling-back"
  BY <1>1, <1>2 DEF Backward
<1>4. panel.running = FALSE
  BY <1>2, Types2 DEF IInv, RestoreInv, ProcRestore, Backward, At
<1>5. op[p].prev # None /\ op[p].id \in Ids
  BY <1>1 DEF IInv, RecordInv, ProcComplete, NeedsPrevious, Complete
<1> QED BY <1>1, <1>2, <1>3, <1>4, <1>5 DEF HolderOp

\* A restore that failed leaves the operation to the operator.
LEMMA EndsKnows ==
  ASSUME IInv, DataInv, NEW p \in Procs, pc[p] \in {"restore", "restore-wait"},
         RestoreEnds(p), UNCHANGED <<journal, snap>>
  PROVE  HolderInv(p)' /\ ReaderInv(p)'
<1>1. CASE opt[p].kind = "rollback"
  BY <1>1, ExitKnows DEF RestoreEnds, IInv, TypeOK
<1>2. CASE opt[p].kind # "rollback"
  <2>1. pc'[p] = "rec-required" /\ op'[p] = op[p] /\ opt'[p] = opt[p]
    BY <1>2 DEF RestoreEnds, Goto, IInv, TypeOK, ProcsOK, local
  <2>2. HolderOp(p)'
    BY <2>1, RestoringKnows, OpKept
  <2>3. Forward(p)' /\ Backward(p)'
    BY <1>2, <2>1, RestoringKnows
       DEF Forward, Backward, Restores, At, Untouched, Fresh, Launching, Recording, ToTarget,
           UpdateAt, RollbackAt, Moved
  <2> QED BY <2>1, <2>2, <2>3, LockedReads DEF HolderInv, Locked
<1> QED BY <1>1, <1>2

LEMMA RestoreStartData ==
  ASSUME IInv, DataInv, NEW p \in Procs, RestoreStart(p)
  PROVE  GlobalInv' /\ HolderInv(p)' /\ ReaderInv(p)'
<1>1. /\ pc[p] = "restore" /\ UNCHANGED <<snap, staged>> /\ UNCHANGED panel
      /\ UNCHANGED <<journal, previous, env, data, failed, nextId>>
  BY DEF RestoreStart, At, files, dirs
<1>2. CASE restore' = [id |-> op[p].id, step |-> "copy"] /\ Goto(p, "restore-wait")
           /\ UNCHANGED <<lock, local>>
  <2>1. /\ pc'[p] = "restore-wait" /\ op'[p] = op[p] /\ opt'[p] = opt[p]
        /\ restore'.id = op[p].id /\ restore'.step = "copy"
    BY <1>2 DEF Goto, IInv, TypeOK, ProcsOK, local
  <2>2. HolderOp(p)'
    BY <1>1, <2>1, RestoringKnows, OpKept
  <2>3. Forward(p)' /\ Backward(p)'
    BY <1>1, <2>1, RestoringKnows
       DEF Forward, Backward, Restores, At, Untouched, Fresh, Launching, Recording, ToTarget,
           UpdateAt, RollbackAt, Moved
  <2>4. Pending' = Pending /\ Base' = Base
    BY <1>1 DEF Pending, Base
  <2>5. HistoryInv' /\ PreviousInv' /\ AsideInv' /\ SettledData' /\ PendingData'
    BY <1>1, <2>4, RestoringKnows
       DEF GlobalInv, HistoryInv, PreviousInv, AsideInv, SettledData, Restorable, Moved,
           Served, PendingData, PanelOf
  <2>6. RestoreData'
    BY <1>1, <2>1, <2>4, RestoringKnows DEF RestoreData, HolderOp
  <2> QED BY <2>1, <2>2, <2>3, <2>5, <2>6, LockedReads DEF HolderInv, GlobalInv, Locked
<1>3. CASE RestoreEnds(p) /\ UNCHANGED restore
  BY <1>1, <1>3, EndsKnows, StoppedKeeps DEF DataInv, SnapStep
<1> QED BY <1>2, <1>3 DEF RestoreStart

LEMMA RestoreWaitData ==
  ASSUME IInv, DataInv, NEW p \in Procs, RestoreWait(p)
  PROVE  GlobalInv' /\ HolderInv(p)' /\ ReaderInv(p)'
<1>1. /\ pc[p] = "restore-wait" /\ UNCHANGED snap /\ UNCHANGED panel
      /\ UNCHANGED <<journal, previous, env, data, failed, nextId>> /\ GlobalInv
  BY DEF RestoreWait, At, files, DataInv
<1>2. restore' = NoRestore => ~RestoreRuns'
  BY DEF RestoreRuns, NoRestore
<1>3. ASSUME NEW label, label = (IF opt[p].kind = "rollback" THEN "rb-up" ELSE "rec-up"),
             restore.step = "ok", restore' = NoRestore, Goto(p, label),
             UNCHANGED <<lock, local, staged>>
      PROVE  GlobalInv' /\ HolderInv(p)' /\ ReaderInv(p)'
  <2>1. pc'[p] = label /\ op'[p] = op[p] /\ opt'[p] = opt[p]
    BY <1>3 DEF Goto, IInv, TypeOK, ProcsOK, local
  <2>2. HolderOp(p)' /\ GlobalInv'
    BY <1>1, <1>2, <1>3, <2>1, RestoringKnows, OpKept, InterruptedKeeps
  <2>3. Served(op[p].prev) /\ panel.running = FALSE
    BY <1>1, <1>3, RestoringKnows DEF Backward, At
  <2>4. Forward(p)' /\ Backward(p)'
    BY <1>1, <1>3, <2>1, <2>3, RestoringKnows
       DEF Forward, Backward, Restores, At, Untouched, Fresh, Launching, Recording, ToTarget,
           UpdateAt, RollbackAt, Moved, PrevReady, Served
  <2> QED BY <1>3, <2>1, <2>2, <2>4, LockedReads DEF HolderInv, Locked
<1>4. CASE restore' = NoRestore /\ RestoreEnds(p)
           /\ (UNCHANGED staged \/ (RestoreRuns /\ Interrupts))
  BY <1>1, <1>2, <1>4, EndsKnows, InterruptedKeeps
<1>5. CASE Exit(p) /\ UNCHANGED <<restore, staged>>
  BY <1>1, <1>5, ExitKnows, StoppedKeeps DEF SnapStep, IInv, TypeOK
<1> QED BY <1>3, <1>4, <1>5 DEF RestoreWait

\* Nothing a process knows changes while the container works, but its outcome.
LEMMA WaitersKnow ==
  ASSUME IInv, DataInv, NEW p \in Procs, RestoreRuns,
         UNCHANGED <<journal, previous, snap, panel, nextId, pc, op, seen, opt>>,
         UNCHANGED env,
         restore'.id = restore.id, restore'.step # "none",
         restore'.step = "ok" => Served(journal.prev)'
  PROVE  HolderInv(p)' /\ ReaderInv(p)'
<1>1. ReaderInv(p)'
  BY DEF DataInv, ReaderInv, At, Ended
<1>2. ASSUME pc[p] \in Locked PROVE HolderInv(p)'
  <2>1. pc[p] = "restore-wait"
    BY <1>2 DEF IInv, RestoreInv, ProcRestore, At
  <2>2. HolderOp(p)' /\ Backward(p)
    BY <2>1, RestoringKnows, OpKept
  <2>3. op[p].prev = journal.prev
    BY <2>1, RestoringKnows DEF HolderOp
  <2>4. Forward(p)'
    BY <2>1 DEF Forward, At, Untouched, Fresh, Launching, Recording, ToTarget, UpdateAt
  <2>5. Backward(p)'
    BY <2>1, <2>2, <2>3 DEF Backward, Restores, At, RollbackAt, Served
  <2> QED BY <2>2, <2>4, <2>5 DEF HolderInv
<1> QED BY <1>1, <1>2 DEF HolderInv

LEMMA RestoreKnows ==
  ASSUME IInv, DataInv, RestoreRuns
  PROVE  /\ GlobalInv /\ RestoreData /\ PendingData /\ Pending /\ journal.prev # None
         /\ journal.phase \notin Quiet /\ journal.phase \notin Early
         /\ panel.running = FALSE /\ panel.image # None
         /\ journal.id \in Ids /\ journal.id < nextId /\ Restorable(journal)
<1>1. GlobalInv /\ RestoreData /\ PendingData /\ Pending /\ journal.verified = TRUE
  BY DEF DataInv, GlobalInv, RestoreData
<1>2. journal.prev # None /\ Restorable(journal) /\ journal.id < nextId
  BY <1>1 DEF GlobalInv, HistoryInv
<1>3. journal.phase \notin Quiet /\ journal.phase \notin Early
  BY <1>1 DEF RestoreData, Quiet, Final, Early
<1>4. panel.running = FALSE /\ journal.id \in Ids
  BY <1>1, PendingReleases, Types2 DEF IInv, RestoreInv
<1> QED BY <1>1, <1>2, <1>3, <1>4 DEF PendingData

LEMMA RestoreCopyData ==
  ASSUME IInv, DataInv, RestoreCopy
  PROVE  DataInv'
<1>1. /\ RestoreRuns /\ UNCHANGED <<journal, previous, snap, panel, nextId, pc, op, seen, opt>>
      /\ UNCHANGED <<env, data, failed>>
  BY DEF RestoreCopy, RestoreRuns, files, local
<1>2. /\ restore'.id = restore.id
      /\ \/ restore'.step = "swap" /\ Moved(restore.id) /\ staged' = staged
         \/ restore'.step = "rename" /\ ~Moved(restore.id)
            /\ staged' = [staged EXCEPT ![restore.id] = snap[restore.id]]
  BY DEF RestoreCopy, IInv, TypeOK, DockerOK, MovedAside, Moved
<1>3. restore.id = journal.id /\ staged \in [Ids -> Dir]
  BY <1>1, RestoreKnows DEF RestoreData, IInv, TypeOK, DirsOK
<1>4. restore'.step = "rename" => staged'[journal.id] = snap[journal.id]
  BY <1>1, <1>2, <1>3, RestoreKnows
<1>5. Pending' = Pending /\ Base' = Base
  BY <1>1 DEF Pending, Base
<1>6. HistoryInv' /\ PreviousInv' /\ AsideInv' /\ SettledData'
  BY <1>1, <1>5, RestoreKnows
     DEF GlobalInv, HistoryInv, PreviousInv, AsideInv, SettledData, Restorable, Moved, Served
<1>7. PendingData'
  BY <1>1, <1>2, <1>3, <1>4, RestoreKnows DEF PendingData, Served, Moved, PanelOf
<1>8. RestoreData'
  BY <1>1, <1>2, <1>3, <1>4, <1>5, RestoreKnows DEF RestoreData, Moved
<1>9. \A p \in Procs : HolderInv(p)' /\ ReaderInv(p)'
  BY <1>1, <1>2, WaitersKnow
<1> QED BY <1>6, <1>7, <1>8, <1>9 DEF DataInv, GlobalInv

LEMMA RestoreRenameData ==
  ASSUME IInv, DataInv, RestoreRename
  PROVE  DataInv'
<1>1. /\ RestoreRuns /\ UNCHANGED <<journal, previous, snap, panel, nextId, pc, op, seen, opt>>
      /\ UNCHANGED <<env, staged>> /\ data' = Absent
  BY DEF RestoreRename, RestoreRuns, files, local
<1>2. /\ restore'.id = restore.id /\ restore'.step = "swap" /\ restore.step = "rename"
      /\ failed' = [failed EXCEPT ![restore.id] = data]
  BY DEF RestoreRename, IInv, TypeOK, DockerOK
<1>3. restore.id = journal.id /\ failed \in [Ids -> Dir] /\ ~Moved(journal.id)
      /\ staged[journal.id] = snap[journal.id]
  BY <1>1, <1>2, RestoreKnows DEF RestoreData, IInv, TypeOK, DirsOK
<1>4. failed'[journal.id] = data /\ \A i \in Ids \ {journal.id} : failed'[i] = failed[i]
  BY <1>1, <1>2, <1>3, RestoreKnows
<1>5. data.kind = "full"
  BY <1>1, <1>3, RestoreKnows DEF PendingData, Served
<1>6. Pending' = Pending /\ Base' = Base /\ Moved(journal.id)' /\ ~Exists(data')
      /\ \A i \in Ids \ {journal.id} : Moved(i)' = Moved(i)
  BY <1>1, <1>4, <1>5 DEF Pending, Base, Moved, Exists, Absent
<1>7. HistoryInv' /\ AsideInv'
  BY <1>1, <1>4, <1>5, <1>6, RestoreKnows
     DEF GlobalInv, HistoryInv, AsideInv, Restorable, Moved
<1>8. PreviousInv'
  <2>1. previous.id \in Ids \cup {None}
    BY Types2 DEF IInv
  <2>2. Base = journal.prev
    BY <1>1, RestoreKnows DEF Base
  <2> QED BY <1>1, <1>6, <2>1, <2>2, RestoreKnows DEF GlobalInv, PreviousInv, Restorable
<1>9. SettledData'
  BY <1>1, RestoreKnows DEF SettledData
<1>10. PendingData'
  BY <1>1, <1>3, <1>6, RestoreKnows DEF PendingData, PanelOf, RestoreData
<1>11. RestoreData'
  BY <1>1, <1>2, <1>3, <1>6, RestoreKnows DEF RestoreData
<1>12. \A p \in Procs : HolderInv(p)' /\ ReaderInv(p)'
  BY <1>1, <1>2, WaitersKnow
<1> QED BY <1>7, <1>8, <1>9, <1>10, <1>11, <1>12 DEF DataInv, GlobalInv

LEMMA RestoreSwapData ==
  ASSUME IInv, DataInv, RestoreSwap
  PROVE  DataInv'
<1>1. /\ RestoreRuns /\ UNCHANGED <<journal, previous, snap, panel, nextId, pc, op, seen, opt>>
      /\ UNCHANGED <<env, failed>>
  BY DEF RestoreSwap, RestoreRuns, files, local
<1>2. /\ restore'.id = restore.id /\ restore'.step = "ok" /\ restore.step = "swap"
      /\ Exists(data) => data' = data
      /\ ~Exists(data) => data' = staged[restore.id]
  BY DEF RestoreSwap, IInv, TypeOK, DockerOK
<1>3. restore.id = journal.id /\ Moved(journal.id)
  BY <1>1, <1>2, RestoreKnows DEF RestoreData
<1>4. Served(journal.prev)' /\ Exists(data')
  BY <1>1, <1>2, <1>3, RestoreKnows DEF PendingData, Served, Restorable, Exists
<1>5. Pending' = Pending /\ Base' = Base /\ ~RestoreRuns'
  BY <1>1, <1>2 DEF Pending, Base, RestoreRuns
<1>6. HistoryInv' /\ PreviousInv' /\ AsideInv' /\ SettledData'
  BY <1>1, <1>5, RestoreKnows
     DEF GlobalInv, HistoryInv, PreviousInv, AsideInv, SettledData, Restorable, Moved
<1>7. PendingData'
  BY <1>1, <1>3, <1>4, RestoreKnows DEF PendingData, Moved, PanelOf
<1>8. \A p \in Procs : HolderInv(p)' /\ ReaderInv(p)'
  BY <1>1, <1>2, <1>4, WaitersKnow
<1> QED BY <1>5, <1>6, <1>7, <1>8 DEF DataInv, GlobalInv

LEMMA RestoreFailsData ==
  ASSUME IInv, DataInv, RestoreFails
  PROVE  DataInv'
<1>1. /\ RestoreRuns /\ UNCHANGED <<journal, previous, snap, panel, nextId, pc, op, seen, opt>>
      /\ UNCHANGED <<env, data, failed>> /\ Interrupts
      /\ restore'.id = restore.id /\ restore'.step = "failed"
  BY DEF RestoreFails, files, local, IInv, TypeOK, DockerOK
<1>2. GlobalInv'
  BY <1>1, RestoreKnows, InterruptedKeeps DEF RestoreRuns
<1>3. \A p \in Procs : HolderInv(p)' /\ ReaderInv(p)'
  BY <1>1, WaitersKnow
<1> QED BY <1>2, <1>3 DEF DataInv

LEMMA RestoreRemovedData ==
  ASSUME IInv, DataInv, RestoreRemoved
  PROVE  DataInv'
<1>1. /\ UNCHANGED <<journal, previous, snap, panel, nextId, pc, op, seen, opt>>
      /\ UNCHANGED <<env, data, failed, staged>> /\ ~RestoreRuns'
  BY DEF RestoreRemoved, files, dirs, local, RestoreRuns, NoRestore
<1>2. GlobalInv'
  BY <1>1, InterruptedKeeps DEF DataInv
<1>3. ASSUME NEW p \in Procs PROVE HolderInv(p)' /\ ReaderInv(p)'
  <2>1. ~At(p, "restore-wait") /\ ReaderInv(p)'
    BY <1>1 DEF RestoreRemoved, DataInv, ReaderInv, At, Ended
  <2>2. ASSUME pc[p] \in Locked PROVE HolderInv(p)'
    <3>1. HolderOp(p)' /\ Forward(p) /\ Backward(p)
      BY <1>1, <2>2, HolderKnown, OpKept
    <3>2. Forward(p)' /\ Backward(p)'
      BY <1>1, <2>1, <3>1 DEF Forward, Backward, At, Moved, Served, Restores, PrevReady
    <3> QED BY <3>1, <3>2 DEF HolderInv
  <2> QED BY <1>1, <2>1, <2>2 DEF HolderInv
<1> QED BY <1>2, <1>3 DEF DataInv

----------------------------------------------------------------------------
(* The rollback *)

LEMMA RollbackKnows ==
  ASSUME IInv, DataInv, NEW p \in Procs, pc[p] \in RollbackAt
  PROVE  /\ pc[p] \in Locked /\ HolderOp(p) /\ Backward(p) /\ ~RestoreRuns
         /\ GlobalInv /\ PendingData /\ journal.phase \notin Quiet /\ Pending
         /\ op[p].prev \in Versions /\ op[p].prev = journal.prev /\ opt[p].kind = "rollback"
<1>1. /\ pc[p] \in Locked /\ ~At(p, "restore-wait") /\ pc[p] \notin Untouched
      /\ pc[p] \in NeedsPrevious
  BY DEF At, Locked, Untouched, RollbackAt, NeedsPrevious
<1>2. /\ HolderOp(p) /\ Backward(p) /\ ~RestoreRuns /\ GlobalInv /\ PendingData
      /\ journal.phase \notin Quiet /\ Pending
  BY <1>1, HolderKnown DEF DataInv, GlobalInv, HolderOp
<1>3. op[p].prev \in Versions
  BY <1>1, Types2 DEF IInv, RecordInv, ProcComplete
<1> QED BY <1>1, <1>2, <1>3 DEF Backward, HolderOp

LEMMA RbStopData ==
  ASSUME IInv, DataInv, NEW p \in Procs, RbStop(p)
  PROVE  GlobalInv' /\ HolderInv(p)' /\ ReaderInv(p)'
<1>1. /\ pc[p] = "rb-stop" /\ pc[p] \in RollbackAt
      /\ UNCHANGED <<journal, previous, env, data, failed, nextId>>
      /\ UNCHANGED <<staged, restore>> /\ UNCHANGED snap
      /\ Stops \/ UNCHANGED panel
  BY DEF RbStop, At, RollbackAt, files, dirs
<1>2. GlobalInv'
  BY <1>1, StoppedKeeps DEF SnapStep, DataInv
<1>3. CASE Stops /\ Goto(p, IF opt[p].restore THEN "restore" ELSE "rb-up")
           /\ UNCHANGED <<lock, local>>
  <2>1. /\ op'[p] = op[p] /\ opt'[p] = opt[p] /\ panel'.running = FALSE
        /\ \/ pc'[p] = "restore" /\ opt[p].restore = TRUE
           \/ pc'[p] = "rb-up" /\ opt[p].restore = FALSE
    BY <1>3, Types2 DEF Goto, IInv, TypeOK, ProcsOK, DockerOK, local, Stops
  <2>2. HolderOp(p)'
    BY <1>1, <2>1, RollbackKnows, OpKept
  <2>3. opt[p].restore = FALSE => Served(op[p].prev)
    BY <1>1, RollbackKnows DEF Backward, PrevReady, At
  <2>4. opt[p].restore = TRUE => Restores(p)
    BY <1>1 DEF Restores, At
  <2>5. Forward(p)' /\ Backward(p)'
    BY <1>1, <2>1, <2>3, <2>4, RollbackKnows
       DEF Forward, Backward, Restores, At, Untouched, Fresh, Launching, Recording, ToTarget,
           UpdateAt, RollbackAt, Moved, PrevReady, Served
  <2> QED BY <1>2, <2>1, <2>2, <2>5, LockedReads DEF HolderInv, Locked
<1>4. CASE Exit(p)
  BY <1>2, <1>4, ExitKnows DEF IInv, TypeOK
<1> QED BY <1>3, <1>4 DEF RbStop

LEMMA RbUpData ==
  ASSUME IInv, DataInv, NEW p \in Procs, RbUp(p)
  PROVE  GlobalInv' /\ HolderInv(p)' /\ ReaderInv(p)'
<1>1. /\ pc[p] = "rb-up" /\ pc[p] \in RollbackAt
      /\ UNCHANGED <<journal, previous, env, failed, nextId>>
      /\ UNCHANGED <<staged, restore>> /\ UNCHANGED snap /\ Opening(op[p].prev)
  BY DEF RbUp, At, RollbackAt, files, Opening
<1>2. Served(op[p].prev) /\ Exists(data) /\ SnapStep
  BY <1>1, RollbackKnows DEF Backward, PrevReady, Served, Exists, SnapStep
<1>3. GlobalInv'
  BY <1>1, <1>2, OpenedKeeps, RollbackKnows
<1>4. CASE Goto(p, "rb-check") /\ UNCHANGED <<lock, local>>
  <2>1. op'[p] = op[p] /\ opt'[p] = opt[p] /\ pc'[p] = "rb-check"
    BY <1>4 DEF Goto, IInv, TypeOK, ProcsOK, local
  <2>2. HolderOp(p)'
    BY <1>1, <2>1, RollbackKnows, OpKept
  <2>3. Forward(p)' /\ Backward(p)'
    BY <1>1, <2>1, RollbackKnows
       DEF Forward, Backward, Restores, At, Untouched, Fresh, Launching, Recording, ToTarget,
           UpdateAt, RollbackAt
  <2> QED BY <1>3, <2>1, <2>2, <2>3, LockedReads DEF HolderInv, Locked
<1>5. CASE Exit(p)
  BY <1>3, <1>5, ExitKnows DEF IInv, TypeOK
<1> QED BY <1>4, <1>5 DEF RbUp

LEMMA RbCheckData ==
  ASSUME IInv, DataInv, NEW p \in Procs, RbCheck(p)
  PROVE  GlobalInv' /\ HolderInv(p)' /\ ReaderInv(p)'
<1>1. /\ pc[p] = "rb-check" /\ pc[p] \in RollbackAt
      /\ UNCHANGED <<journal, previous, env, data, failed, nextId>>
      /\ UNCHANGED <<staged, restore>> /\ UNCHANGED snap /\ UNCHANGED panel
  BY DEF RbCheck, At, RollbackAt, files, dirs
<1>2. GlobalInv'
  BY <1>1, StoppedKeeps DEF SnapStep, DataInv
<1>3. CASE Healthy(op[p].prev) /\ Goto(p, "rb-active") /\ UNCHANGED <<lock, local>>
  <2>1. op'[p] = op[p] /\ opt'[p] = opt[p] /\ pc'[p] = "rb-active"
    BY <1>3 DEF Goto, IInv, TypeOK, ProcsOK, local
  <2>2. HolderOp(p)'
    BY <1>1, <2>1, RollbackKnows, OpKept
  <2>3. panel.image = op[p].prev /\ Served(op[p].prev)
    BY <1>1, <1>3, RollbackKnows, SchemaAssumption DEF Healthy, Served
  <2>4. Forward(p)' /\ Backward(p)'
    BY <1>1, <2>1, <2>3, RollbackKnows
       DEF Forward, Backward, Restores, At, Untouched, Fresh, Launching, Recording, ToTarget,
           UpdateAt, RollbackAt, Served
  <2> QED BY <1>2, <2>1, <2>2, <2>4, LockedReads DEF HolderInv, Locked
<1>4. CASE Exit(p)
  BY <1>2, <1>4, ExitKnows DEF IInv, TypeOK
<1> QED BY <1>3, <1>4 DEF RbCheck

LEMMA RbActiveData ==
  ASSUME IInv, DataInv, NEW p \in Procs, RbActive(p)
  PROVE  GlobalInv' /\ HolderInv(p)' /\ ReaderInv(p)'
<1>1. /\ pc[p] = "rb-active" /\ pc[p] \in RollbackAt
      /\ UNCHANGED <<journal, previous, env, data, failed, nextId>>
      /\ UNCHANGED <<staged, restore>> /\ UNCHANGED snap /\ UNCHANGED panel
  BY DEF RbActive, At, RollbackAt, dirs
<1>2. GlobalInv'
  BY <1>1, StoppedKeeps DEF SnapStep, DataInv
<1>3. op'[p] = op[p] /\ opt'[p] = opt[p] /\ pc'[p] = "rb-done"
  BY DEF RbActive, Goto, IInv, TypeOK, ProcsOK, local
<1>4. HolderOp(p)'
  BY <1>1, <1>3, RollbackKnows, OpKept
<1>5. Forward(p)' /\ Backward(p)'
  BY <1>1, <1>3, RollbackKnows
     DEF Forward, Backward, Restores, At, Untouched, Fresh, Launching, Recording, ToTarget,
         UpdateAt, RollbackAt, Served
<1> QED BY <1>2, <1>3, <1>4, <1>5, LockedReads DEF HolderInv, Locked

LEMMA RbDoneData ==
  ASSUME IInv, DataInv, NEW p \in Procs, RbDone(p)
  PROVE  GlobalInv' /\ HolderInv(p)' /\ ReaderInv(p)'
<1>1. /\ pc[p] = "rb-done" /\ pc[p] \in RollbackAt /\ Finish(p, "recovered")
      /\ UNCHANGED <<previous, panel, data, failed, nextId>>
      /\ UNCHANGED <<env, snap, staged, restore>>
  BY DEF RbDone, At, RollbackAt, dirs
<1>2. "recovered" \in Phases /\ "recovered" \in Final /\ "recovered" \notin Early
  BY DEF Phases, Final, Early
<1>3. Rewritten /\ journal'.phase = "recovered" /\ HolderInv(p)' /\ ReaderInv(p)'
  BY <1>1, <1>2, RollbackKnows, Finishing
<1>4. Pending /\ ~RestoreRuns' /\ Served(panel.image) /\ panel.image = journal.prev
  BY <1>1, RollbackKnows DEF RestoreRuns, Backward
<1>5. previous.id # None /\ Moved(previous.id) => panel.image = previous.prev
  BY <1>4, RollbackKnows, <1>1 DEF GlobalInv, PreviousInv, Base
<1>6. GlobalInv'
  BY <1>1, <1>2, <1>3, <1>4, <1>5, RollbackKnows, Settling
<1> QED BY <1>3, <1>6

----------------------------------------------------------------------------
(* The commands, before they hold the locks and as they take them *)

\* A command that only reads.
LEMMA ReadsKeep ==
  ASSUME IInv, DataInv, UNCHANGED <<files, panel, dirs, restore, nextId>>
  PROVE  GlobalInv'
<1>1. /\ UNCHANGED <<journal, previous, env, data, failed, nextId>>
      /\ UNCHANGED <<staged, restore>> /\ UNCHANGED snap /\ UNCHANGED panel
  BY DEF files, dirs
<1> QED BY <1>1, StoppedKeeps DEF SnapStep, DataInv

LEMMA UnlockedHolds ==
  ASSUME NEW p \in Procs, pc'[p] \in Unlocked
  PROVE  HolderInv(p)'
BY DEF HolderInv, Locked, Unlocked

LEMMA InvokedAs ==
  ASSUME ProcsOK, NEW p \in Procs, NEW command, NEW label, Invoked(p, command, label)
  PROVE  pc'[p] = label /\ seen'[p].journal = journal /\ opt'[p] = command
BY DEF Invoked, Goto, ProcsOK

LEMMA UpdateBeginData ==
  ASSUME IInv, DataInv, NEW p \in Procs, UpdateBegin(p)
  PROVE  GlobalInv' /\ HolderInv(p)' /\ ReaderInv(p)'
<1>1. GlobalInv'
  BY ReadsKeep DEF UpdateBegin
<1>2. PICK v \in Versions, auto \in BOOLEAN :
        \/ Invoked(p, Command("update", v, FALSE, auto), "prepare")
        \/ Invoked(p, Command("install", v, FALSE, FALSE), "prepare")
  BY DEF UpdateBegin
<1>3. pc'[p] = "prepare" /\ opt'[p].kind \in {"update", "install"}
  BY <1>2, InvokedAs DEF Command, IInv, TypeOK
<1>4. ReaderInv(p)'
  BY <1>3 DEF ReaderInv, At
<1> QED BY <1>1, <1>3, <1>4, UnlockedHolds DEF Unlocked

LEMMA RefuseData ==
  ASSUME IInv, DataInv, NEW p \in Procs, Refuse(p)
  PROVE  GlobalInv' /\ HolderInv(p)' /\ ReaderInv(p)'
<1>1. GlobalInv' /\ Exit(p)
  BY ReadsKeep DEF Refuse
<1> QED BY <1>1, ExitKnows DEF IInv, TypeOK

LEMMA RollbackBeginData ==
  ASSUME IInv, DataInv, NEW p \in Procs, RollbackBegin(p)
  PROVE  GlobalInv' /\ HolderInv(p)' /\ ReaderInv(p)'
<1>1. GlobalInv' /\ UNCHANGED <<journal, previous, nextId>>
  BY ReadsKeep DEF RollbackBegin, files
<1>2. PICK withData \in BOOLEAN :
        Invoked(p, Command("rollback", None, withData, FALSE), "rb-begin")
  BY DEF RollbackBegin
<1>3. pc'[p] = "rb-begin" /\ opt'[p].kind = "rollback" /\ seen'[p].journal = journal
  BY <1>2, InvokedAs DEF Command, IInv, TypeOK
<1>4. journal.phase \in Final => op'[p] = previous /\ previous.id # None
  BY DEF RollbackBegin, Hold, IInv, TypeOK, ProcsOK
<1>5. journal.id < nextId
  BY DEF DataInv, GlobalInv, HistoryInv
<1>6. ReaderInv(p)'
  BY <1>1, <1>3, <1>4, <1>5 DEF ReaderInv, At, Ended
<1> QED BY <1>1, <1>3, <1>6, UnlockedHolds DEF Unlocked

LEMMA ResumeBeginData ==
  ASSUME IInv, DataInv, NEW p \in Procs, ResumeBegin(p)
  PROVE  GlobalInv' /\ HolderInv(p)' /\ ReaderInv(p)'
<1>1. GlobalInv' /\ UNCHANGED <<journal, previous, nextId, env>>
  BY ReadsKeep DEF ResumeBegin, files
<1>2. pc'[p] = "resume-begin" /\ opt'[p].kind = "resume" /\ seen'[p].journal = journal
  BY InvokedAs DEF ResumeBegin, Command, IInv, TypeOK
<1>3. op'[p] = journal
  BY DEF ResumeBegin, Hold, IInv, TypeOK, ProcsOK
<1>4. /\ journal.phase \in Resumable /\ env = TRUE
      /\ journal.prev # None => journal.restoreData = FALSE
  BY Types2 DEF ResumeBegin, ResumeOffered, RestoreBegan, Resumable, Starting, IInv, TypeOK, FilesOK
<1>5. ReaderInv(p)'
  BY <1>1, <1>2, <1>3, <1>4 DEF ReaderInv, At
<1> QED BY <1>1, <1>2, <1>5, UnlockedHolds DEF Unlocked

\* An update is recorded over a finished operation only, under a number of its own.
LEMMA UpdatePrepareKnows ==
  ASSUME IInv, DataInv, NEW p \in Procs, UpdatePrepare(p)
  PROVE  /\ journal.phase \in Final \cup {"none"} /\ nextId \in Ids
         /\ nextId' = nextId + 1 /\ nextId \in Nat
         /\ journal'.id = nextId /\ journal'.phase = "prepared" /\ journal'.prev = panel.image
         /\ journal'.target = opt[p].to /\ journal'.verified = FALSE
         /\ journal'.restoreData = FALSE /\ op'[p] = journal' /\ pc'[p] = "fetch"
         /\ opt[p].to \in Versions /\ panel.image \in Versions \cup {None}
         /\ panel.image # None => panel.image <= opt[p].to
         /\ opt[p].kind \in {"update", "install"}
         /\ panel.image = None <=> opt[p].kind = "install"
<1>1. journal.phase \in Final \cup {"none"}
  BY DEF UpdatePrepare, JournalUnchanged, IInv, PhaseInv, ProcPhase
<1>2. nextId \in Ids /\ nextId \in Nat
  BY BoundAssumption DEF UpdatePrepare, IInv, TypeOK, BoundsOK, Ids
<1>3. /\ nextId' = nextId + 1 /\ journal'.id = nextId /\ journal'.phase = "prepared"
      /\ journal'.prev = panel.image /\ journal'.target = opt[p].to
      /\ journal'.verified = FALSE /\ journal'.restoreData = FALSE
      /\ op'[p] = journal' /\ pc'[p] = "fetch"
  BY DEF UpdatePrepare, Write, Hold, Goto, IInv, TypeOK, ProcsOK
<1>4. opt[p].to \in Versions /\ panel.image \in Versions \cup {None}
  BY Types2 DEF UpdatePrepare, IInv, RecordInv, ProcComplete
<1>5. opt[p].kind \in {"update", "install"}
  BY DEF UpdatePrepare, DataInv, ReaderInv
<1>6. panel.image # None => panel.image <= opt[p].to
  BY <1>4, VersionAssumption DEF UpdatePrepare, IdentityHolds
<1>7. panel.image = None <=> opt[p].kind = "install"
  BY <1>5 DEF UpdatePrepare, IdentityHolds
<1> QED BY <1>1, <1>2, <1>3, <1>4, <1>5, <1>6, <1>7

LEMMA UpdatePrepareData ==
  ASSUME IInv, DataInv, NEW p \in Procs, UpdatePrepare(p)
  PROVE  GlobalInv' /\ HolderInv(p)' /\ ReaderInv(p)'
<1>1. /\ UNCHANGED <<previous, env, panel, data, snap, staged, failed>> /\ UNCHANGED opt
      /\ ~RestoreRuns' /\ GlobalInv
  BY DEF UpdatePrepare, dirs, OtherWriters, RestoreRuns, DataInv
<1>2. ~Pending /\ Pending' /\ Base' = Base
  BY UpdatePrepareKnows DEF Pending, Base, Final
<1>2a. /\ nextId \in Ids /\ nextId' = nextId + 1 /\ nextId \in Nat /\ journal'.id = nextId
       /\ \A i \in Ids \cup {None} : i \in Nat
  <2>1. \A i \in Ids \cup {None} : i \in Nat
    BY BoundAssumption DEF Ids, None
  <2> QED BY <2>1, UpdatePrepareKnows
<1>2b. nextId < nextId' /\ ~(nextId < nextId)
       /\ \A i \in Ids \cup {None} : i < nextId => i < nextId' /\ i # nextId
  BY <1>2a
<1>3. ~Moved(nextId)
  BY <1>1, <1>2a, <1>2b DEF GlobalInv, AsideInv
<1>4. HistoryInv' /\ AsideInv'
  <2>1. previous.id # None => panel.image # None
    BY <1>1 DEF GlobalInv, PreviousInv
  <2>2. HistoryInv'
    BY <1>1, <1>2b, <2>1, UpdatePrepareKnows DEF HistoryInv
  <2> QED BY <1>1, <1>2b, <2>2 DEF GlobalInv, AsideInv, Moved
<1>5. PreviousInv'
  <2>1. previous.id \in Ids \cup {None}
    BY Types2 DEF IInv
  <2> QED BY <1>1, <1>2, <1>2a, <1>2b, <2>1 DEF GlobalInv, PreviousInv, Restorable, Moved
<1>6. panel.image # None => Served(panel.image)
  BY <1>1, UpdatePrepareKnows DEF GlobalInv, SettledData, Quiet
<1>7. SettledData'
  BY <1>1, <1>6 DEF GlobalInv, SettledData, Served
<1>8. PendingData'
  <2>1. panel.image # None => Served(opt[p].to)
    BY <1>6, UpdatePrepareKnows, LaterServes DEF IInv, TypeOK
  <2> QED BY <1>1, <1>3, <1>6, <2>1, UpdatePrepareKnows
          DEF PendingData, PanelOf, Moved, Served, Early
<1>9. HolderOp(p)'
  BY <1>2, UpdatePrepareKnows DEF HolderOp
<1>10. Forward(p)' /\ Backward(p)'
  BY <1>1, <1>3, UpdatePrepareKnows
     DEF Forward, Backward, Restores, At, Untouched, Fresh, Launching, Recording, ToTarget,
         UpdateAt, RollbackAt, Moved, Early
<1>11. pc'[p] \in Locked
  BY UpdatePrepareKnows DEF Locked
<1> QED BY <1>1, <1>4, <1>5, <1>7, <1>8, <1>9, <1>10, <1>11, LockedReads DEF HolderInv, GlobalInv

\* What a rollback is about: the pending operation, or the last success when none is.
LEMMA RollbackOf ==
  ASSUME IInv, DataInv, NEW p \in Procs, At(p, "rb-begin"), JournalUnchanged(p)
  PROVE  /\ op[p] \in Operation /\ Complete(op[p]) /\ opt[p].kind = "rollback" /\ GlobalInv
         /\ \/ op[p] = journal /\ Pending /\ PendingData
            \/ op[p] = previous /\ previous.id # None /\ journal.phase \in Final
<1>1. op[p] \in Operation /\ Complete(op[p])
  BY Types2 DEF IInv, RecordInv, ProcComplete, At
<1>2. opt[p].kind = "rollback" /\ GlobalInv
  BY DEF DataInv, ReaderInv
<1>3. CASE journal.phase \in Final
  <2>1. op[p] = previous /\ previous.id # None
    BY <1>3 DEF DataInv, ReaderInv, JournalUnchanged
  <2> QED BY <1>1, <1>2, <1>3, <2>1
<1>4. CASE journal.phase \notin Final
  <2>1. op[p] = journal
    BY <1>4 DEF IInv, PhaseInv, ProcPhase, JournalUnchanged
  <2>2. journal.phase # "none"
    BY <1>1, <2>1, Types2 DEF IInv, RecordInv, FilesComplete, Complete
  <2> QED BY <1>1, <1>2, <1>4, <2>1, <2>2 DEF Pending, GlobalInv
<1> QED BY <1>3, <1>4

LEMMA RollbackMarkKnows ==
  ASSUME IInv, DataInv, NEW p \in Procs, RollbackMark(p)
  PROVE  op[p] = journal /\ Pending /\ PendingData /\ journal.phase \in {"prepared", "downloaded"}
         /\ panel.image = journal.prev /\ journal' = Phase(journal, "failed-before-cutover")
         /\ Exit(p)
<1>1. /\ op[p].phase \in {"prepared", "downloaded"} /\ panel.image = op[p].prev
      /\ At(p, "rb-begin") /\ JournalUnchanged(p)
      /\ journal' = Phase(op[p], "failed-before-cutover") /\ Exit(p)
  BY DEF RollbackMark, MarkAllowed, Finish, Write
<1>2. ~(op[p] = previous /\ previous.id # None)
  BY <1>1 DEF DataInv, GlobalInv, PreviousInv, MayHaveStarted, BeforeStart
<1> QED BY <1>1, <1>2, RollbackOf

LEMMA RollbackMarkData ==
  ASSUME IInv, DataInv, NEW p \in Procs, RollbackMark(p)
  PROVE  GlobalInv' /\ HolderInv(p)' /\ ReaderInv(p)'
<1>1. /\ UNCHANGED <<previous, panel, data, failed, nextId>>
      /\ UNCHANGED <<env, snap, staged, restore>>
  BY DEF RollbackMark, dirs
<1>2. "failed-before-cutover" \in Phases \cap Final /\ "failed-before-cutover" \notin Early
  BY DEF Phases, Final, Early
<1>3. journal \in Operation /\ GlobalInv /\ journal.phase \in Early
  BY Types2, RollbackMarkKnows DEF IInv, DataInv, Early
<1>4. /\ journal' \in Operation /\ journal'.id = journal.id /\ journal'.prev = journal.prev
      /\ journal'.target = journal.target /\ journal'.verified = journal.verified
      /\ journal'.restoreData = journal.restoreData
      /\ journal'.phase = "failed-before-cutover"
  BY <1>2, <1>3, RollbackMarkKnows, PhaseOf
<1>5. Rewritten
  BY <1>1, <1>3, <1>4 DEF Rewritten, GlobalInv, HistoryInv
<1>6. panel.image # None => Served(panel.image)
  BY <1>3, RollbackMarkKnows DEF PendingData
<1>7. previous.id # None /\ Moved(previous.id) => panel.image = previous.prev
  BY <1>3, RollbackMarkKnows DEF GlobalInv, PreviousInv, Base
<1>8. ~RestoreRuns'
  BY <1>1, <1>3, RollbackMarkKnows DEF GlobalInv, RestoreData, RestoreRuns, Early
<1>9. GlobalInv'
  BY <1>2, <1>3, <1>4, <1>5, <1>6, <1>7, <1>8, RollbackMarkKnows, Settling
<1> QED BY <1>9, RollbackMarkKnows, ExitKnows DEF IInv, TypeOK

\* A rollback without the data is only accepted where the previous release can serve it.
LEMMA RollbackReady ==
  ASSUME IInv, DataInv, NEW p \in Procs, At(p, "rb-begin"), JournalUnchanged(p),
         RollbackAllowed(op[p], FALSE)
  PROVE  PrevReady(p)
<1>1. /\ op[p].prev \in Versions /\ op[p].target \in Versions /\ GlobalInv
      /\ op[p].restoreData = FALSE /\ panel.image \in {None, op[p].prev, op[p].target}
      /\ MayHaveStarted(op[p].phase) => SchemaOf[op[p].prev] = SchemaOf[op[p].target]
      /\ panel.running = TRUE => panel.image # None
  BY RollbackOf, Types2
     DEF RollbackAllowed, RestoreDemanded, SchemaChanges, PanelOf, IInv, Complete, RecordInv,
         DockerComplete
<1>2. SchemaOf[op[p].prev] <= SchemaOf[op[p].prev]
  BY <1>1, SchemaAssumption
<1>3. panel.running = TRUE /\ MayHaveStarted(op[p].phase) =>
        SchemaOf[panel.image] <= SchemaOf[op[p].prev]
  BY <1>1, <1>2
<1>4. CASE op[p] = journal /\ Pending /\ PendingData
  <2>1. CASE MayHaveStarted(op[p].phase)
    <3>1. CASE Moved(journal.id)
      BY <1>1, <1>3, <1>4, <2>1, <3>1 DEF PendingData, PrevReady
    <3>2. CASE ~Moved(journal.id)
      <4>1. Served(op[p].target) /\ None \notin Versions
        BY <1>1, <1>4, <3>2, Types2 DEF PendingData, IInv
      <4> QED BY <1>1, <1>3, <2>1, <4>1 DEF Served, PrevReady
    <3> QED BY <3>1, <3>2
  <2>2. CASE ~MayHaveStarted(op[p].phase)
    <3>1. journal.phase \in Early
      BY <1>4, <2>2 DEF MayHaveStarted, BeforeStart, Early, Pending, Final
    <3>2. panel.image = op[p].prev /\ Served(op[p].prev)
      BY <1>1, <1>4, <3>1, Types2 DEF PendingData, IInv
    <3> QED BY <1>2, <3>2 DEF PrevReady
  <2> QED BY <2>1, <2>2
<1>5. CASE op[p] = previous /\ previous.id # None /\ journal.phase \in Final
  <2>1. MayHaveStarted(op[p].phase) /\ panel.image # None
    BY <1>1, <1>5 DEF GlobalInv, PreviousInv
  <2>2. Served(panel.image)
    BY <1>1, <1>5, <2>1 DEF GlobalInv, SettledData, Quiet
  <2> QED BY <1>1, <1>3, <2>1, <2>2 DEF Served, PrevReady
<1> QED BY <1>4, <1>5, RollbackOf

LEMMA RollbackPrepareKnows ==
  ASSUME IInv, DataInv, NEW p \in Procs, RollbackPrepare(p)
  PROVE  /\ At(p, "rb-begin") /\ JournalUnchanged(p) /\ RollbackAllowed(op[p], opt[p].restore)
         /\ journal' \in Operation /\ journal'.phase = "rolling-back"
         /\ journal'.restoreData = opt[p].restore /\ journal'.verified = op[p].verified
         /\ journal'.id = op[p].id /\ journal'.prev = op[p].prev
         /\ journal'.target = op[p].target /\ op'[p] = journal'
         /\ pc'[p] = "rb-stop" /\ opt' = opt /\ lock = NoProc
         /\ UNCHANGED <<previous, panel, data, failed, nextId>>
         /\ UNCHANGED <<env, snap, staged, restore>>
<1>1. /\ At(p, "rb-begin") /\ JournalUnchanged(p) /\ RollbackAllowed(op[p], opt[p].restore)
      /\ pc'[p] = "rb-stop" /\ opt' = opt /\ lock = NoProc
      /\ UNCHANGED <<previous, panel, data, failed, nextId>>
      /\ UNCHANGED <<env, snap, staged, restore>>
  BY DEF RollbackPrepare, Goto, IInv, TypeOK, ProcsOK, dirs
<1>2. journal' = [Phase(op[p], "rolling-back") EXCEPT !.restoreData = opt[p].restore]
      /\ op'[p] = journal'
  BY DEF RollbackPrepare, Write, Hold, IInv, TypeOK, ProcsOK
<1>3. op[p] \in Operation /\ "rolling-back" \in Phases /\ opt[p].restore \in BOOLEAN
  BY Types2 DEF IInv, Phases
<1>4. /\ journal' \in Operation /\ journal'.phase = "rolling-back"
      /\ journal'.restoreData = opt[p].restore /\ journal'.verified = op[p].verified
      /\ journal'.id = op[p].id /\ journal'.prev = op[p].prev
      /\ journal'.target = op[p].target
  BY <1>2, <1>3 DEF Phase, Operation
<1> QED BY <1>1, <1>2, <1>4

\* The rollback of a pending operation.
LEMMA RollbackPending ==
  ASSUME IInv, DataInv, NEW p \in Procs, RollbackPrepare(p), op[p] = journal, Pending
  PROVE  GlobalInv'
<1>1. /\ "rolling-back" \notin Final \cup {"none"} /\ "rolling-back" \notin Early
      /\ "rolling-back" \notin Quiet
  BY DEF Final, Early, Quiet
<1>2. /\ GlobalInv /\ ~RestoreRuns'
      /\ journal.phase \notin {"prepared", "downloaded"}
      /\ journal.restoreData = TRUE => opt[p].restore = TRUE
  BY RollbackPrepareKnows
     DEF DataInv, RollbackAllowed, OtherWriters, RestoreRuns, RestoreDemanded
<1>3. Rewritten
  BY <1>2, RollbackPrepareKnows DEF Rewritten, GlobalInv, HistoryInv
<1>4. Pending'
  BY <1>1, RollbackPrepareKnows DEF Pending
<1> QED BY <1>1, <1>2, <1>3, <1>4, RollbackPrepareKnows, GoingOn

\* The rollback of the last success, over a finished operation.
LEMMA RollbackPrevious ==
  ASSUME IInv, DataInv, NEW p \in Procs, RollbackPrepare(p), op[p] = previous,
         previous.id # None, journal.phase \in Final
  PROVE  GlobalInv'
<1>1. /\ "rolling-back" \notin Final \cup {"none"} /\ "rolling-back" \notin Early
      /\ "rolling-back" \notin Quiet
  BY DEF Final, Early, Quiet
<1>2. /\ GlobalInv /\ ~RestoreRuns' /\ panel.image \in {None, op[p].prev, op[p].target}
  BY RollbackPrepareKnows
     DEF DataInv, RollbackAllowed, OtherWriters, RestoreRuns, PanelOf
<1>3. /\ previous.prev # None /\ previous.prev <= previous.target /\ previous.verified = TRUE
      /\ Restorable(previous) /\ panel.image # None /\ previous.id < nextId
      /\ MayHaveStarted(previous.phase)
      /\ Moved(previous.id) => panel.image = previous.prev
  BY <1>2 DEF GlobalInv, PreviousInv, Base, Pending
<1>4. Pending' /\ Base' = previous.prev
  BY <1>1, RollbackPrepareKnows DEF Pending, Base
<1>5. HistoryInv' /\ AsideInv'
  BY <1>1, <1>2, <1>3, RollbackPrepareKnows
     DEF HistoryInv, Restorable, GlobalInv, AsideInv, Moved
<1>6. PreviousInv'
  BY <1>3, <1>4, RollbackPrepareKnows DEF PreviousInv, Restorable, Moved
<1>7. Served(panel.image)
  BY <1>2, <1>3 DEF GlobalInv, SettledData, Quiet
<1>8. SettledData'
  BY <1>1, <1>2, <1>3, RollbackPrepareKnows DEF GlobalInv, SettledData, Served
<1>9. Served(previous.target)
  <2>1. previous.target \in Versions /\ previous.prev \in Versions /\ DirsOK
    BY <1>3, RollbackOf, RollbackPrepareKnows, Types2 DEF Complete, IInv, TypeOK
  <2>2. panel.image = previous.target \/ Served(previous.prev)
    BY <1>2, <1>3, <1>7
  <2> QED BY <1>3, <1>7, <2>1, <2>2, LaterServes
<1>10. PendingData'
  <2>1. Moved(previous.id) => Served(previous.prev)
    BY <1>3, <1>7
  <2>2. Served(previous.target)' /\ (Moved(previous.id)' => Served(previous.prev)')
        /\ panel' = panel /\ Moved(previous.id)' = Moved(previous.id)
    BY <1>9, <2>1, RollbackPrepareKnows DEF Served, Moved
  <2>3. PanelOf(journal)'
    BY <1>2, RollbackPrepareKnows DEF PanelOf
  <2>4. Served(previous.prev)' => Exists(data)'
    BY DEF Served, Exists
  <2>5. /\ journal'.id = previous.id /\ journal'.prev = previous.prev
        /\ journal'.target = previous.target /\ journal'.phase = "rolling-back"
        /\ previous' = previous
    BY RollbackPrepareKnows
  <2> QED BY <1>1, <1>3, <2>2, <2>3, <2>4, <2>5 DEF PendingData
<1> QED BY <1>2, <1>5, <1>6, <1>8, <1>10 DEF GlobalInv

LEMMA RollbackPrepareData ==
  ASSUME IInv, DataInv, NEW p \in Procs, RollbackPrepare(p)
  PROVE  GlobalInv' /\ HolderInv(p)' /\ ReaderInv(p)'
<1>1. GlobalInv'
  BY RollbackPending, RollbackPrevious, RollbackOf, RollbackPrepareKnows
<1>2. op[p].verified = TRUE => op[p].prev # None /\ Restorable(op[p])
  BY RollbackOf, RollbackPrepareKnows DEF GlobalInv, HistoryInv, PreviousInv
<1>3. HolderOp(p)'
  BY <1>2, RollbackPrepareKnows DEF HolderOp, Pending, Restorable, Final
<1>4. opt[p].restore = FALSE => PrevReady(p)'
  BY RollbackReady, RollbackPrepareKnows DEF PrevReady, Served
<1>5. opt[p].restore = TRUE => op[p].verified = TRUE
  BY RollbackPrepareKnows, Types2 DEF RollbackAllowed, SnapshotUsable, IInv
<1>6. opt[p].kind = "rollback"
  BY RollbackOf, RollbackPrepareKnows
<1>7. Forward(p)' /\ Backward(p)'
  BY <1>4, <1>5, <1>6, RollbackPrepareKnows
     DEF Forward, Backward, Restores, At, Untouched, Fresh, Launching, Recording, ToTarget,
         UpdateAt, RollbackAt
<1>8. pc'[p] \in Locked
  BY RollbackPrepareKnows DEF Locked
<1> QED BY <1>1, <1>3, <1>7, <1>8, LockedReads DEF HolderInv

\* The target is started again only over its own data.
LEMMA ResumePrepareKnows ==
  ASSUME IInv, DataInv, NEW p \in Procs, ResumePrepare(p)
  PROVE  /\ op[p] = journal /\ journal.phase \in Resumable /\ Pending /\ PendingData /\ GlobalInv
         /\ journal.prev # None => journal.restoreData = FALSE /\ journal.verified = TRUE
         /\ env = TRUE /\ opt[p].kind = "resume" /\ ~RestoreRuns /\ Rewritten
         /\ journal'.phase = "starting-target" /\ journal'.restoreData = journal.restoreData
         /\ journal'.verified = journal.verified /\ op'[p] = journal' /\ pc'[p] = "up"
         /\ opt' = opt /\ UNCHANGED restore
<1>1. /\ op[p] = journal /\ journal.phase \in Resumable /\ env = TRUE /\ opt[p].kind = "resume"
      /\ journal.prev # None => journal.restoreData = FALSE
  BY DEF ResumePrepare, JournalUnchanged, DataInv, ReaderInv
<1>2. Pending /\ PendingData /\ GlobalInv
  BY <1>1 DEF DataInv, GlobalInv, Pending, Resumable, Starting, Final
<1>3. journal.prev # None => journal.verified = TRUE
  BY <1>1, Types2 DEF ResumePrepare, ResumeAllowed, SnapshotUsable, IInv
<1>4. /\ opt' = opt /\ ~RestoreRuns /\ UNCHANGED restore /\ pc'[p] = "up"
      /\ journal' = Phase(journal, "starting-target") /\ op'[p] = journal'
      /\ UNCHANGED <<previous, panel, data, failed, nextId>> /\ UNCHANGED <<env, snap, staged>>
  BY <1>1 DEF ResumePrepare, ResumeAllowed, OtherWriters, Goto, Write, Hold, IInv, TypeOK,
              ProcsOK, dirs
<1>5. journal \in Operation /\ "starting-target" \in Phases
  BY Types2 DEF IInv, Phases
<1>6. /\ journal' \in Operation /\ journal'.phase = "starting-target"
      /\ journal'.id = journal.id /\ journal'.prev = journal.prev
      /\ journal'.target = journal.target /\ journal'.verified = journal.verified
      /\ journal'.restoreData = journal.restoreData
  BY <1>4, <1>5, PhaseOf
<1>7. Rewritten
  BY <1>2, <1>4, <1>6 DEF Rewritten, GlobalInv, HistoryInv
<1> QED BY <1>1, <1>2, <1>3, <1>4, <1>6, <1>7

LEMMA ResumePrepareData ==
  ASSUME IInv, DataInv, NEW p \in Procs, ResumePrepare(p)
  PROVE  GlobalInv' /\ HolderInv(p)' /\ ReaderInv(p)'
<1>1. /\ "starting-target" \notin Final \cup {"none"} /\ "starting-target" \notin Early
      /\ "starting-target" \notin Quiet
  BY DEF Final, Early, Quiet
<1>2. journal.phase # "rolling-back" /\ Pending' /\ ~RestoreRuns'
  BY <1>1, ResumePrepareKnows DEF Pending, Resumable, Starting, RestoreRuns
<1>3. ~Moved(journal.id)
  BY <1>2, ResumePrepareKnows DEF PendingData
<1>4. journal.phase \in {"prepared", "downloaded"} => journal.prev # None \/ data.kind = "empty"
  BY ResumePrepareKnows DEF PendingData, GlobalInv, SettledData, Early
<1>5. GlobalInv'
  BY <1>1, <1>2, <1>3, <1>4, ResumePrepareKnows, GoingOn
<1>6. HolderOp(p)'
  <2>1. op'[p] = journal'
    BY ResumePrepareKnows
  <2>2. journal'.verified = TRUE => journal'.prev # None /\ Restorable(journal)'
    BY ResumePrepareKnows DEF Rewritten, Restorable
  <2> QED BY <1>2, <2>1, <2>2 DEF HolderOp, Restorable
<1>7. /\ journal'.prev # None => journal'.verified = TRUE /\ journal'.restoreData = FALSE
      /\ ~Moved(journal.id)' /\ opt'[p].kind # "rollback"
  <2>1. journal'.prev = journal.prev /\ journal'.id = journal.id /\ failed' = failed
    BY ResumePrepareKnows DEF Rewritten
  <2> QED BY <1>3, <2>1, ResumePrepareKnows DEF Moved
<1>8. Forward(p)' /\ Backward(p)'
  <2>1. op'[p] = journal' /\ pc'[p] = "up" /\ journal'.phase = "starting-target"
    BY ResumePrepareKnows
  <2> QED BY <1>7, <2>1
          DEF Forward, Backward, Restores, At, Untouched, Fresh, Launching, Recording, ToTarget,
              UpdateAt, RollbackAt, Starting, Moved
<1>9. pc'[p] \in Locked
  BY ResumePrepareKnows DEF Locked
<1> QED BY <1>5, <1>6, <1>8, <1>9, LockedReads DEF HolderInv

----------------------------------------------------------------------------
(* A kill, and a running panel *)

LEMMA DieData ==
  ASSUME IInv, DataInv, NEW p \in Procs, Die(p)
  PROVE  GlobalInv' /\ HolderInv(p)' /\ ReaderInv(p)'
<1>1. /\ Exit(p) /\ UNCHANGED <<journal, previous, env, failed, nextId>>
      /\ UNCHANGED <<staged, restore>>
  BY DEF Die, files
<1>2. HolderInv(p)' /\ ReaderInv(p)'
  BY <1>1, ExitKnows DEF IInv, TypeOK
<1>3. CASE UNCHANGED <<data, snap>> /\ (Stops \/ UNCHANGED panel)
  <2>1. SnapStep /\ GlobalInv /\ data' = data
    BY <1>3 DEF SnapStep, DataInv
  <2> QED BY <1>1, <1>2, <1>3, <2>1, StoppedKeeps
<1>4. CASE /\ At(p, "copy") /\ snap' = [snap EXCEPT ![op[p].id] = Partial]
           /\ UNCHANGED <<panel, data>>
  <2>1. /\ op[p].id = journal.id /\ journal.verified = FALSE /\ GlobalInv
        /\ snap \in [Ids -> Dir] /\ op[p].id \in Ids
    BY <1>4, CutoverKnows
       DEF HolderOp, GlobalInv, HistoryInv, At, IInv, TypeOK, DirsOK, Complete
  <2>2. SnapStep
    BY <1>4, <2>1 DEF SnapStep
  <2> QED BY <1>1, <1>2, <1>4, <2>1, <2>2, StoppedKeeps
<1>5. CASE At(p, "up") /\ UpFails(op[p].target) /\ UNCHANGED snap
  <2>1. /\ GlobalInv /\ PendingData /\ op[p].target = journal.target /\ op[p].target \in Versions
        /\ Pending /\ journal.phase \in Starting /\ ~Moved(journal.id)
        /\ journal.phase \notin Quiet /\ ~RestoreRuns
    BY <1>5, CutoverKnows DEF HolderOp, Complete, At
  <2>2. Exists(data) /\ SnapStep /\ Opening(op[p].target)
    BY <1>5, <2>1 DEF PendingData, Exists, Served, Starting, SnapStep, Opening
  <2> QED BY <1>1, <1>2, <2>1, <2>2, OpenedKeeps
<1>6. CASE pc[p] \in {"rec-up", "rb-up"} /\ UpFails(op[p].prev) /\ UNCHANGED snap
  <2>1. /\ GlobalInv /\ op[p].prev = journal.prev /\ op[p].prev \in Versions
        /\ Pending /\ journal.phase \notin Quiet /\ ~RestoreRuns /\ Served(op[p].prev)
    <3>1. CASE pc[p] = "rb-up"
      BY <3>1, RollbackKnows DEF Backward, PrevReady, RollbackAt
    <3>2. CASE pc[p] = "rec-up"
      BY <3>2, RecoveryKnows, Types2
         DEF Backward, PrevReady, HolderOp, IInv, RecordInv, ProcComplete, NeedsPrevious
    <3> QED BY <1>6, <3>1, <3>2
  <2>2. Exists(data) /\ SnapStep /\ Opening(op[p].prev)
    BY <1>6, <2>1 DEF Exists, Served, SnapStep, Opening
  <2> QED BY <1>1, <1>2, <2>1, <2>2, OpenedKeeps
<1> QED BY <1>2, <1>3, <1>4, <1>5, <1>6 DEF Die

LEMMA PanelWritesData ==
  ASSUME IInv, DataInv, PanelWrites
  PROVE  DataInv'
<1>1. /\ UNCHANGED <<journal, previous, snap, panel, nextId, pc, op, seen, opt>>
      /\ UNCHANGED <<env, failed, restore>>
  BY DEF PanelWrites, files, local
<1>2. /\ GlobalInv' /\ data'.kind = "full" /\ data'.schema = SchemaOf[panel.image]
      /\ panel.image \in Versions /\ panel.running = TRUE
  BY PanelWrites2, Types2 DEF DataInv, IInv
<1>3. SchemaOf[panel.image] <= SchemaOf[panel.image]
  BY <1>2, SchemaAssumption
<1>4. ASSUME NEW p \in Procs PROVE HolderInv(p)' /\ ReaderInv(p)'
  <2>1. ReaderInv(p)'
    BY <1>1 DEF DataInv, ReaderInv, At, Ended
  <2>2. ASSUME pc[p] \in Locked PROVE HolderInv(p)'
    <3>1. HolderOp(p)' /\ Forward(p) /\ Backward(p) /\ HolderOp(p)
      BY <1>1, <2>2, HolderKnown, OpKept
    <3>2. At(p, "recheck") => op[p].prev # None
      BY <1>2, <3>1, UntouchedKnows, Types2 DEF At, Untouched, HolderOp, IInv
    <3>3. Forward(p)'
      BY <1>1, <1>2, <1>3, <3>1, <3>2 DEF Forward, At, Moved, Served
    <3>4. Backward(p)'
      BY <1>1, <1>2, <1>3, <3>1 DEF Backward, At, Restores, PrevReady, Served
    <3> QED BY <3>1, <3>3, <3>4 DEF HolderInv
  <2> QED BY <1>1, <2>1, <2>2 DEF HolderInv
<1> QED BY <1>2, <1>4 DEF DataInv

----------------------------------------------------------------------------
(* What the other processes know *)

\* While a process holds the locks, the others only read.
LEMMA OthersRead ==
  ASSUME IInv, NEW p \in Procs, Invocation(p) \/ LockedStep(p) \/ Die(p),
         NEW q \in Procs \ {p}, pc[q] \in Locked
  PROVE  UNCHANGED <<files, panel, dirs, restore, nextId>>
<1>1. ProcsOK /\ lock = q /\ q # NoProc /\ pc[p] \notin Locked
  BY ProcsAssumption DEF IInv, TypeOK, LockInv
<1>2. Invocation(p)
  BY <1>1, LockedMoves DEF Die
<1> QED BY <1>1, <1>2 DEF Invocation, UpdateBegin, UpdatePrepare, Refuse, RollbackBegin,
       RollbackMark, RollbackPrepare, ResumeBegin, ResumePrepare

LEMMA BystanderHolds ==
  ASSUME IInv, DataInv, NEW p \in Procs, Invocation(p) \/ LockedStep(p) \/ Die(p),
         NEW q \in Procs \ {p}
  PROVE  HolderInv(q)'
<1>1. pc'[q] = pc[q] /\ op'[q] = op[q] /\ opt'[q] = opt[q]
  BY OthersKeep DEF IInv, TypeOK
<1>2. ASSUME pc[q] \in Locked PROVE HolderInv(q)'
  <2>1. UNCHANGED <<journal, previous, panel, data, snap, failed, restore>>
    BY <1>2, OthersRead DEF files, dirs
  <2>2. HolderOp(q)' /\ Forward(q) /\ Backward(q)
    BY <1>1, <1>2, <2>1, HolderKnown, OpKept
  <2>3. Forward(q)'
    BY <1>1, <2>1, <2>2 DEF Forward, At, Moved, Served
  <2>4. Backward(q)'
    BY <1>1, <2>1, <2>2 DEF Backward, At, Restores, PrevReady, Served
  <2> QED BY <2>2, <2>3, <2>4 DEF HolderInv
<1> QED BY <1>1, <1>2 DEF HolderInv

\* Which of the records a step writes.
Reads(p) ==
    UNCHANGED <<journal, previous>> /\ (pc'[p] \in Locked => pc[p] \in Locked /\ opt'[p] = opt[p])
HolderWrites(p) ==
    /\ pc[p] \in Locked /\ previous' = previous /\ journal'.id = journal.id
    /\ opt[p].kind = "rollback" => journal'.phase \in Final
HolderRecords(p) ==
    /\ pc[p] \in Locked /\ opt[p].kind # "rollback"
    /\ journal' = journal /\ previous'.id = journal.id
Numbers == journal'.id = nextId /\ previous' = previous
Undoes(p) ==
    /\ journal'.id \in {journal.id, previous.id} /\ previous' = previous
    /\ \/ journal'.phase \in Final
       \/ /\ journal'.phase = "rolling-back" /\ opt'[p].kind = "rollback"
          /\ \A q \in Procs \ {p} : pc'[q] \notin Locked
Resumes == journal'.id = journal.id /\ previous' = previous /\ journal.phase \in Resumable
RecordMove(p) ==
    Reads(p) \/ HolderWrites(p) \/ HolderRecords(p) \/ Numbers \/ Undoes(p) \/ Resumes

LEMMA FinishedId ==
  ASSUME IInv, NEW p \in Procs, NEW phase \in Phases, NEW label,
         Finish(p, phase) \/ Save(p, phase, label)
  PROVE  journal'.id = op[p].id /\ journal'.phase = phase
<1>1. op[p] \in Operation /\ journal' = Phase(op[p], phase)
  BY Types2 DEF IInv, Finish, Save, Write
<1> QED BY <1>1, PhaseOf

LEMMA LockedMove ==
  ASSUME IInv, DataInv, NEW p \in Procs, LockedStep(p)
  PROVE  /\ RecordMove(p) /\ nextId' = nextId /\ (env = TRUE => env' = TRUE)
<1>1. pc[p] \in Locked /\ (pc'[p] \in Locked => opt'[p] = opt[p])
  <2>1. pc[p] \in Locked /\ (Exit(p) \/ (pc'[p] \in Locked /\ UNCHANGED <<lock, seen, opt>>))
    BY LockedMoves DEF IInv, TypeOK
  <2>2. Exit(p) => pc'[p] = "idle"
    BY DEF Exit, Goto, IInv, TypeOK, ProcsOK
  <2> QED BY <2>1, <2>2 DEF Locked
<1>2. HolderOp(p) /\ Forward(p)
  BY <1>1, HolderKnown
<1>3. pc[p] \in UpdateAt => opt[p].kind # "rollback"
  BY <1>2 DEF Forward
<1>4. ASSUME journal'.id = op[p].id, previous' = previous,
             pc[p] \in UpdateAt \/ journal'.phase \in Final
      PROVE  RecordMove(p)
  BY <1>1, <1>2, <1>3, <1>4 DEF RecordMove, HolderWrites, HolderOp
<1>5. ASSUME UNCHANGED <<journal, previous>> PROVE RecordMove(p)
  BY <1>1, <1>5 DEF RecordMove, Reads
<1>6. /\ "downloaded" \in Phases /\ "success" \in Phases /\ "failed-before-cutover" \in Phases
      /\ "stopping" \in Phases /\ "backing-up" \in Phases /\ "starting-target" \in Phases
      /\ "checking-target" \in Phases /\ "recovery-required" \in Phases
      /\ "recovered" \in Phases /\ "rolling-back" \in Phases /\ "recovered" \in Final
  BY DEF Phases, Final
<1>7. CASE UpdateStep(p)
  <2>1. nextId' = nextId /\ (env = TRUE => env' = TRUE)
    BY <1>7 DEF UpdateStep, Fetch, Preflight, Recheck, Stop, Stopped, Copy, Copied,
       Up, Started, Check, RecordPrevious, RecordActive, RecordSuccess, files
  <2>2. CASE RecordPrevious(p)
    <3>1. /\ pc[p] \in UpdateAt /\ previous' = op[p] /\ journal' = journal
      BY <2>2 DEF RecordPrevious, At, UpdateAt, ToTarget, Launching, Recording
    <3>2. HolderRecords(p)
      BY <1>1, <1>2, <1>3, <3>1 DEF HolderRecords, HolderOp
    <3> QED BY <2>1, <3>2 DEF RecordMove
  <2>3. CASE Fetch(p) \/ Preflight(p) \/ Recheck(p)
    <3>1. pc[p] \in UpdateAt /\ previous' = previous
      BY <2>3 DEF Fetch, Preflight, Recheck, At, UpdateAt, ToTarget, Fresh, Untouched
    <3>2. journal'.id = op[p].id \/ journal' = journal
      BY <2>3, <1>6, FinishedId DEF Fetch, Preflight, Recheck
    <3> QED BY <1>4, <1>5, <2>1, <3>1, <3>2
  <2>4. CASE Stopped(p) \/ Copied(p) \/ Started(p) \/ RecordSuccess(p)
    <3>1. pc[p] \in UpdateAt /\ previous' = previous
      BY <2>4 DEF Stopped, Copied, Started, RecordSuccess, At, UpdateAt, ToTarget, Fresh,
                  Launching, Recording
    <3>2. journal'.id = op[p].id \/ journal' = journal
      BY <2>4, <1>6, FinishedId DEF Stopped, Copied, Started, RecordSuccess
    <3> QED BY <1>4, <1>5, <2>1, <3>1, <3>2
  <2>5. CASE Stop(p) \/ Copy(p) \/ Up(p) \/ Check(p) \/ RecordActive(p)
    BY <1>5, <2>1, <2>5 DEF Stop, Copy, Up, Check, RecordActive, files
  <2> QED BY <1>7, <2>2, <2>3, <2>4, <2>5 DEF UpdateStep
<1>8. CASE RecoveryStep(p)
  <2>1. nextId' = nextId /\ env' = env /\ previous' = previous
    BY <1>8 DEF RecoveryStep, RecStop, RecRequired, RecUp, RecCheck, RecDone, AutoCheck, files
  <2>2. CASE RecRequired(p) \/ RecDone(p)
    <3>1. pc[p] \in UpdateAt /\ journal'.id = op[p].id
      BY <2>2, <1>6, FinishedId DEF RecRequired, RecDone, At, UpdateAt
    <3> QED BY <1>4, <2>1, <3>1
  <2>3. CASE AutoCheck(p)
    <3>1. pc[p] \in UpdateAt /\ op[p] \in Operation
      BY <2>3, Types2 DEF AutoCheck, At, UpdateAt, ToTarget, IInv
    <3>2. journal'.id = op[p].id \/ journal' = journal
      BY <2>3, <3>1 DEF AutoCheck, Write, Phase, Operation
    <3> QED BY <1>4, <1>5, <2>1, <3>1, <3>2
  <2>4. CASE RecStop(p) \/ RecUp(p) \/ RecCheck(p)
    BY <1>5, <2>1, <2>4 DEF RecStop, RecUp, RecCheck, files
  <2> QED BY <1>8, <2>2, <2>3, <2>4 DEF RecoveryStep
<1>9. CASE RollbackStep(p)
  <2>1. nextId' = nextId /\ env' = env /\ previous' = previous
    BY <1>9 DEF RollbackStep, RbStop, RbUp, RbCheck, RbActive, RbDone, files
  <2>2. CASE RbDone(p)
    <3>1. journal'.id = op[p].id /\ journal'.phase = "recovered"
      BY <2>2, <1>6, FinishedId DEF RbDone
    <3> QED BY <1>4, <1>6, <2>1, <3>1
  <2>3. CASE RbStop(p) \/ RbUp(p) \/ RbCheck(p) \/ RbActive(p)
    BY <1>5, <2>1, <2>3 DEF RbStop, RbUp, RbCheck, RbActive, files
  <2> QED BY <1>9, <2>2, <2>3 DEF RollbackStep
<1>10. CASE RestoreStart(p) \/ RestoreWait(p)
  BY <1>5, <1>10 DEF RestoreStart, RestoreWait, files
<1> QED BY <1>7, <1>8, <1>9, <1>10 DEF LockedStep

LEMMA InvocationMove ==
  ASSUME IInv, DataInv, NEW p \in Procs, Invocation(p) \/ Die(p)
  PROVE  /\ RecordMove(p) /\ nextId' \in {nextId, nextId + 1} /\ env' = env
<1>1. nextId' \in {nextId, nextId + 1} /\ env' = env
  BY DEF Invocation, UpdateBegin, UpdatePrepare, Refuse, RollbackBegin, RollbackMark,
         RollbackPrepare, ResumeBegin, ResumePrepare, Die, files
<1>2. CASE UpdateBegin(p) \/ RollbackBegin(p) \/ ResumeBegin(p)
  <2>1. pc'[p] \in Unlocked /\ UNCHANGED <<journal, previous>>
    BY <1>2 DEF UpdateBegin, RollbackBegin, ResumeBegin, Invoked, Goto, Unlocked, files,
                IInv, TypeOK, ProcsOK
  <2> QED BY <1>1, <2>1 DEF RecordMove, Reads, Locked, Unlocked
<1>3. CASE Refuse(p) \/ Die(p)
  <2>1. pc'[p] = "idle" /\ UNCHANGED <<journal, previous>>
    BY <1>3 DEF Refuse, Die, Exit, Goto, files, IInv, TypeOK, ProcsOK
  <2> QED BY <1>1, <2>1 DEF RecordMove, Reads, Locked
<1>4. CASE UpdatePrepare(p)
  <2>1. previous' = previous
    BY <1>4 DEF UpdatePrepare
  <2> QED BY <1>1, <1>4, <2>1, UpdatePrepareKnows DEF RecordMove, Numbers
<1>5. CASE RollbackMark(p)
  <2>1. op[p] = journal /\ previous' = previous /\ "failed-before-cutover" \in Phases \cap Final
    BY <1>5, RollbackMarkKnows DEF RollbackMark, Phases, Final
  <2>2. journal'.id = op[p].id /\ journal'.phase = "failed-before-cutover"
    BY <1>5, <2>1, FinishedId DEF RollbackMark
  <2> QED BY <1>1, <2>1, <2>2 DEF RecordMove, Undoes
<1>6. CASE RollbackPrepare(p)
  <2>1. /\ journal'.id = op[p].id /\ journal'.phase = "rolling-back" /\ previous' = previous
        /\ op[p] \in {journal, previous} /\ opt'[p].kind = "rollback" /\ lock = NoProc
    BY <1>6, RollbackPrepareKnows, RollbackOf
  <2>2. \A q \in Procs \ {p} : pc'[q] \notin Locked
    BY <1>6, <2>1, OthersKeep, ProcsAssumption DEF IInv, LockInv, TypeOK, Invocation
  <2> QED BY <1>1, <2>1, <2>2 DEF RecordMove, Undoes
<1>7. CASE ResumePrepare(p)
  <2>1. Resumes
    BY <1>7, ResumePrepareKnows DEF Resumes, Rewritten
  <2> QED BY <1>1, <2>1 DEF RecordMove
<1> QED BY <1>2, <1>3, <1>4, <1>5, <1>6, <1>7 DEF Invocation

\* An operation that was finished when it was read is never taken up as another one.
LEMMA EndedStays ==
  ASSUME IInv, DataInv, NEW p \in Procs, Invocation(p) \/ LockedStep(p) \/ Die(p),
         RecordMove(p), NEW i \in Ids \cup {None}, i < nextId, Ended(i)
  PROVE  /\ Ended(i)'
         /\ i \in {journal'.id, previous'.id} => i \in {journal.id, previous.id} /\ previous' = previous
<1>1. \A q \in Procs \ {p} : pc'[q] = pc[q] /\ opt'[q] = opt[q]
  BY OthersKeep DEF IInv, TypeOK
<1>2. i # nextId
  <2>1. i \in Nat /\ nextId \in Nat
    BY BoundAssumption DEF Ids, None, IInv, TypeOK, BoundsOK
  <2> QED BY <2>1
<1>3. CASE Reads(p)
  <2>1. \A h \in Procs : pc'[h] \in Locked => pc[h] \in Locked /\ opt'[h] = opt[h]
    BY <1>1, <1>3 DEF Reads
  <2> QED BY <1>3, <2>1 DEF Reads, Ended
<1>4. CASE HolderWrites(p)
  <2>1. ASSUME i = journal.id PROVE journal'.phase \in Final
    <3>1. Pending
      BY <1>4, HolderKnown DEF HolderWrites, HolderOp
    <3>2. opt[p].kind = "rollback"
      BY <1>4, <2>1, <3>1 DEF HolderWrites, Ended, Pending
    <3> QED BY <1>4, <3>2 DEF HolderWrites
  <2> QED BY <1>4, <2>1 DEF HolderWrites, Ended
<1>5. CASE HolderRecords(p)
  <2>1. i # journal.id
    BY <1>5, HolderKnown DEF HolderRecords, HolderOp, Ended, Pending
  <2> QED BY <1>5, <2>1 DEF HolderRecords, Ended
<1>6. CASE Numbers
  BY <1>2, <1>6 DEF Numbers, Ended
<1>7. CASE Undoes(p)
  <2>1. journal'.phase \in Final \/ (/\ journal'.phase = "rolling-back"
                                     /\ \A h \in Procs : pc'[h] \in Locked => opt'[h].kind = "rollback")
    BY <1>7 DEF Undoes
  <2> QED BY <1>7, <2>1 DEF Undoes, Ended
<1>8. CASE Resumes
  <2>1. i # journal.id
    BY <1>8 DEF Resumes, Ended, Resumable, Starting, Final
  <2> QED BY <1>8, <2>1 DEF Resumes, Ended
<1> QED BY <1>3, <1>4, <1>5, <1>6, <1>7, <1>8 DEF RecordMove

LEMMA BystanderReads ==
  ASSUME IInv, DataInv, NEW p \in Procs, Invocation(p) \/ LockedStep(p) \/ Die(p),
         NEW q \in Procs \ {p}
  PROVE  ReaderInv(q)'
<1>1. pc'[q] = pc[q] /\ op'[q] = op[q] /\ opt'[q] = opt[q] /\ seen'[q] = seen[q]
  BY OthersKeep DEF IInv, TypeOK
<1>2. RecordMove(p) /\ nextId' \in {nextId, nextId + 1} /\ (env = TRUE => env' = TRUE)
  BY LockedMove, InvocationMove
<1>3. ReaderInv(q)
  BY DEF DataInv
<1>4. ASSUME At(q, "rb-begin"), seen[q].journal.phase \in Final
      PROVE  /\ seen[q].journal.id < nextId' /\ Ended(seen[q].journal.id)'
             /\ seen[q].journal.id \in {journal'.id, previous'.id} =>
                  op[q] = previous' /\ previous'.id # None
  <2>1. PICK i : i = seen[q].journal.id
    OBVIOUS
  <2>2. i \in Ids \cup {None} /\ i < nextId /\ Ended(i)
        /\ (i \in {journal.id, previous.id} => op[q] = previous /\ previous.id # None)
    BY <1>3, <1>4, <2>1 DEF ReaderInv, IInv, TypeOK, ProcsOK, Operation
  <2>3. i < nextId'
    <3>1. i \in Nat /\ nextId \in Nat
      BY <2>2, BoundAssumption DEF Ids, None, IInv, TypeOK, BoundsOK
    <3> QED BY <1>2, <2>2, <3>1
  <2>4. Ended(i)' /\ (i \in {journal'.id, previous'.id} =>
                        i \in {journal.id, previous.id} /\ previous' = previous)
    BY <1>2, <2>2, EndedStays
  <2>5. Ended(seen[q].journal.id)'
    BY <1>1, <2>1, <2>4 DEF Ended
  <2> QED BY <2>1, <2>2, <2>3, <2>4, <2>5
<1> QED BY <1>1, <1>2, <1>3, <1>4 DEF ReaderInv, At

----------------------------------------------------------------------------
(* The invariant *)

LEMMA InitData == Init => DataInv
<1> SUFFICES ASSUME Init PROVE DataInv
  OBVIOUS
<1>1. /\ journal.id = None /\ journal.phase = "none" /\ journal.prev = None
      /\ journal.verified = FALSE /\ previous.id = None /\ nextId = 1
      /\ \A i \in Ids : ~Moved(i)
  BY DEF Init, NoOperation, Moved, Exists, Absent
<1>2. ~Pending /\ ~RestoreRuns
  BY <1>1 DEF Pending, RestoreRuns, Init, NoRestore
<1>3. HistoryInv /\ PreviousInv /\ AsideInv
  BY <1>1, <1>2 DEF HistoryInv, PreviousInv, AsideInv, None, Early
<1>4. SettledData
  <2>1. CASE panel = [image |-> None, running |-> FALSE] /\ data = Absent /\ env = FALSE
    BY <2>1 DEF SettledData, Absent
  <2>2. ASSUME NEW v \in Versions, panel = [image |-> v, running |-> TRUE],
               data = [kind |-> "full", schema |-> SchemaOf[v], gen |-> 1]
        PROVE  SettledData
    <3>1. v # None /\ SchemaOf[v] <= SchemaOf[v]
      BY VersionAssumption, SchemaAssumption DEF None
    <3> QED BY <2>2, <3>1 DEF SettledData, Served
  <2> QED BY <2>1, <2>2 DEF Init
<1>5. \A p \in Procs : HolderInv(p) /\ ReaderInv(p)
  BY DEF Init, HolderInv, ReaderInv, At, Locked
<1> QED BY <1>2, <1>3, <1>4, <1>5 DEF DataInv, GlobalInv

LEMMA OwnStep ==
  ASSUME IInv, DataInv, NEW p \in Procs, Invocation(p) \/ LockedStep(p) \/ Die(p)
  PROVE  GlobalInv' /\ HolderInv(p)' /\ ReaderInv(p)'
<1>1. CASE Invocation(p)
  BY <1>1, UpdateBeginData, UpdatePrepareData, RefuseData, RollbackBeginData, RollbackMarkData,
     RollbackPrepareData, ResumeBeginData, ResumePrepareData DEF Invocation
<1>2. CASE UpdateStep(p)
  BY <1>2, FetchData, PreflightData, RecheckData, StopData, StoppedData, CopyData, CopiedData,
     UpData, StartedData, CheckData, RecordPreviousData, RecordActiveData, RecordSuccessData
     DEF UpdateStep
<1>3. CASE RecoveryStep(p)
  BY <1>3, RecStopData, RecRequiredData, RecUpData, RecCheckData, RecDoneData, AutoCheckData
     DEF RecoveryStep
<1>4. CASE RollbackStep(p)
  BY <1>4, RbStopData, RbUpData, RbCheckData, RbActiveData, RbDoneData DEF RollbackStep
<1>5. CASE RestoreStart(p) \/ RestoreWait(p) \/ Die(p)
  BY <1>5, RestoreStartData, RestoreWaitData, DieData
<1> QED BY <1>1, <1>2, <1>3, <1>4, <1>5 DEF LockedStep

LEMMA DataStep == IInv /\ DataInv /\ [Next]_vars => DataInv'
<1> SUFFICES ASSUME IInv, DataInv, [Next]_vars PROVE DataInv'
  OBVIOUS
<1>1. ASSUME NEW p \in Procs, Invocation(p) \/ LockedStep(p) \/ Die(p) PROVE DataInv'
  BY <1>1, OwnStep, BystanderHolds, BystanderReads DEF DataInv
<1>2. CASE RestoreStep \/ RestoreFails
  BY <1>2, RestoreCopyData, RestoreRenameData, RestoreSwapData, RestoreRemovedData,
     RestoreFailsData DEF RestoreStep
<1>3. CASE PanelWrites
  BY <1>3, PanelWritesData
<1>4. CASE UNCHANGED vars
  <2>1. /\ UNCHANGED <<journal, previous, env, panel, data, snap, staged, failed, restore, nextId>>
        /\ UNCHANGED <<pc, op, seen, opt>>
    BY <1>4 DEF vars, files, dirs, local
  <2>2. GlobalInv'
    BY <1>4, ReadsKeep DEF vars
  <2>3. ASSUME NEW p \in Procs PROVE HolderInv(p)' /\ ReaderInv(p)'
    <3>1. HolderInv(p) /\ ReaderInv(p)
      BY DEF DataInv
    <3> QED BY <2>1, <3>1
            DEF HolderInv, HolderOp, Forward, Backward, ReaderInv, Pending, Restorable, At, Moved,
                Served, PrevReady, Restores, Ended
  <2> QED BY <2>2, <2>3 DEF DataInv
<1> QED BY <1>1, <1>2, <1>3, <1>4 DEF Next

----------------------------------------------------------------------------
(* The writes a directory contains *)

LEMMA DirTypes ==
  ASSUME TypeOK
  PROVE  /\ data \in Dir /\ data.gen \in Nat /\ data.schema \in Nat /\ writes \in Nat
         /\ \A i \in Ids : snap[i].gen \in Nat /\ staged[i].gen \in Nat
BY DEF TypeOK, DirsOK, BoundsOK, Dir

\* Starting a release makes the data at most later, in what it was migrated to.
LEMMA OpenedWrites ==
  ASSUME TypeOK, NEW v \in Versions, Opening(v)
  PROVE  /\ data'.gen \in {0, data.gen}
         /\ data.kind = "full" => /\ data'.kind = "full" /\ data'.gen = data.gen
                                  /\ data.schema <= data'.schema
<1>1. data.schema <= data.schema
  BY DirTypes
<1>2. CASE Exists(data)
  BY <1>1, <1>2, Opens DEF Usable
<1>3. CASE ~Exists(data)
  <2>1. Mounted(data).gen = 0 /\ Opened(Mounted(data), v).gen = 0
    BY <1>3 DEF Mounted, Opened, Empty
  <2>2. data' \in {data, Mounted(data), Opened(Mounted(data), v)}
    BY DEF Opening, ComesUp, UpFails
  <2> QED BY <1>3, <2>1, <2>2 DEF Exists
<1> QED BY <1>2, <1>3

\* Where what the directories hold comes from, unless a panel writes.
DirsMove ==
    /\ writes' = writes
    /\ data'.gen \in {0, data.gen} \/ \E i \in Ids : data'.gen = staged[i].gen
    /\ \A i \in Ids : /\ snap'[i].gen \in {0, snap[i].gen, data.gen}
                      /\ staged'[i].gen \in {0, staged[i].gen, snap[i].gen}

DataKept ==
    data.kind = "full" => /\ data'.kind = "full" /\ data.gen <= data'.gen
                          /\ data.schema <= data'.schema

\* A process only starts releases on the data, or makes it where there is none.
LEMMA ProcessDirs ==
  ASSUME IInv, NEW p \in Procs, Invocation(p) \/ LockedStep(p) \/ Die(p)
  PROVE  /\ writes' = writes /\ failed' = failed
         /\ \/ data' = data \/ (~Exists(data) /\ data' = Empty)
            \/ \E v \in Versions : Opening(v)
<1>1. pc[p] \in {"up", "rec-up", "rb-up"} => op[p].target \in Versions
  BY Types2 DEF IInv, RecordInv, ProcComplete, Complete, Locked
<1>2. pc[p] \in {"rec-up", "rb-up"} => op[p].prev \in Versions
  BY Types2 DEF IInv, RecordInv, ProcComplete, NeedsPrevious
<1>3. CASE Invocation(p)
  BY <1>3 DEF Invocation, UpdateBegin, UpdatePrepare, Refuse, RollbackBegin, RollbackMark,
         RollbackPrepare, ResumeBegin, ResumePrepare, dirs
<1>4. CASE UpdateStep(p)
  <2>1. CASE Up(p)
    BY <1>1, <2>1 DEF Up, Opening, At
  <2>2. CASE Preflight(p)
    BY <2>2 DEF Preflight, Mounted
  <2> QED BY <1>4, <2>1, <2>2 DEF UpdateStep, Fetch, Recheck, Stop, Stopped, Copy, Copied,
          Started, Check, RecordPrevious, RecordActive, RecordSuccess, dirs
<1>5. CASE RecoveryStep(p)
  <2>1. CASE RecUp(p)
    BY <1>2, <2>1 DEF RecUp, Opening, At
  <2> QED BY <1>5, <2>1 DEF RecoveryStep, RecStop, RecRequired, RecCheck, RecDone, AutoCheck,
          dirs
<1>6. CASE RollbackStep(p)
  <2>1. CASE RbUp(p)
    BY <1>2, <2>1 DEF RbUp, Opening, At
  <2> QED BY <1>6, <2>1 DEF RollbackStep, RbStop, RbCheck, RbActive, RbDone, dirs
<1>7. CASE RestoreStart(p) \/ RestoreWait(p)
  BY <1>7 DEF RestoreStart, RestoreWait, dirs
<1>8. CASE Die(p)
  BY <1>1, <1>2, <1>8 DEF Die, Opening, At
<1> QED BY <1>3, <1>4, <1>5, <1>6, <1>7, <1>8 DEF LockedStep

LEMMA ProcessKeepsData ==
  ASSUME IInv, NEW p \in Procs, Invocation(p) \/ LockedStep(p) \/ Die(p)
  PROVE  data'.gen \in {0, data.gen} /\ DataKept
<1>1. data.gen <= data.gen /\ data.schema <= data.schema
  BY DirTypes DEF IInv
<1>2. CASE \E v \in Versions : Opening(v)
  BY <1>1, <1>2, OpenedWrites DEF IInv, DataKept
<1>3. CASE data' = data \/ (~Exists(data) /\ data' = Empty)
  BY <1>1, <1>3 DEF DataKept, Exists, Empty
<1> QED BY <1>2, <1>3, ProcessDirs

\* Its copies are of the data, and what it leaves incomplete holds nothing.
LEMMA ProcessCopies ==
  ASSUME IInv, NEW p \in Procs, Invocation(p) \/ LockedStep(p) \/ Die(p), NEW i \in Ids
  PROVE  /\ snap'[i].gen \in {0, snap[i].gen, data.gen}
         /\ staged'[i].gen \in {0, staged[i].gen}
<1>1. snap \in [Ids -> Dir] /\ staged \in [Ids -> Dir] /\ Absent.gen = 0 /\ Partial.gen = 0
  BY DEF IInv, TypeOK, DirsOK, Absent, Partial
<1>2. ASSUME NEW o, EnterRecovery(p, o, snap) PROVE snap'[i].gen \in {0, snap[i].gen, data.gen}
  BY <1>1, <1>2 DEF EnterRecovery
<1>3. CASE Invocation(p)
  BY <1>3 DEF Invocation, UpdateBegin, UpdatePrepare, Refuse, RollbackBegin, RollbackMark,
         RollbackPrepare, ResumeBegin, ResumePrepare, dirs
<1>4. CASE UpdateStep(p)
  <2>1. staged' = staged
    BY <1>4 DEF UpdateStep, Fetch, Preflight, Recheck, Stop, Stopped, Copy, Copied, Up, Started,
       Check, RecordPrevious, RecordActive, RecordSuccess, dirs
  <2>2. CASE Copy(p)
    <3>1. CASE snap' = [snap EXCEPT ![op[p].id] = data]
      BY <1>1, <2>1, <3>1
    <3>2. CASE EnterRecovery(p, op[p], [snap EXCEPT ![op[p].id] = Partial])
      BY <1>1, <2>1, <3>2 DEF EnterRecovery
    <3> QED BY <2>2, <3>1, <3>2 DEF Copy
  <2>3. CASE Stop(p) \/ Stopped(p) \/ Copied(p) \/ Up(p) \/ Started(p) \/ Check(p)
    BY <1>2, <2>1, <2>3 DEF Stop, Stopped, Copied, Up, Started, Check
  <2> QED BY <1>4, <2>1, <2>2, <2>3 DEF UpdateStep, Fetch, Preflight, Recheck, RecordPrevious,
          RecordActive, RecordSuccess, dirs
<1>5. CASE RecoveryStep(p) \/ RollbackStep(p) \/ RestoreStart(p)
  BY <1>5 DEF RecoveryStep, RecStop, RecRequired, RecUp, RecCheck, RecDone, AutoCheck,
     RollbackStep, RbStop, RbUp, RbCheck, RbActive, RbDone, RestoreStart, dirs
<1>6. CASE RestoreWait(p)
  <2>1. snap' = snap /\ (staged' = staged \/ Interrupts)
    BY <1>6 DEF RestoreWait, local
  <2> QED BY <1>1, <2>1 DEF Interrupts
<1>7. CASE Die(p)
  BY <1>1, <1>7 DEF Die
<1> QED BY <1>3, <1>4, <1>5, <1>6, <1>7 DEF LockedStep

LEMMA ProcessDirsMove ==
  ASSUME IInv, NEW p \in Procs, Invocation(p) \/ LockedStep(p) \/ Die(p)
  PROVE  DirsMove
BY ProcessDirs, ProcessKeepsData, ProcessCopies DEF DirsMove

\* The restore container copies the snapshot and puts the copy in the place of the data.
LEMMA RestoreDirsMove ==
  ASSUME IInv, RestoreStep \/ RestoreFails
  PROVE  DirsMove
<1>1. snap \in [Ids -> Dir] /\ staged \in [Ids -> Dir] /\ Absent.gen = 0 /\ Partial.gen = 0
      /\ (restore.step # "none" => restore.id \in Ids)
  BY DEF IInv, TypeOK, DirsOK, Absent, Partial, RecordInv, DockerComplete
<1>2. CASE RestoreCopy
  BY <1>1, <1>2 DEF RestoreCopy, DirsMove
<1>3. CASE RestoreRename
  BY <1>1, <1>3 DEF RestoreRename, DirsMove
<1>4. CASE RestoreSwap
  BY <1>1, <1>4 DEF RestoreSwap, DirsMove
<1>5. CASE RestoreFails
  BY <1>1, <1>5 DEF RestoreFails, Interrupts, DirsMove
<1>6. CASE RestoreRemoved
  BY <1>1, <1>6 DEF RestoreRemoved, dirs, DirsMove
<1> QED BY <1>2, <1>3, <1>4, <1>5, <1>6 DEF RestoreStep

LEMMA InitGen == Init => GenInv
<1> SUFFICES ASSUME Init PROVE GenInv
  OBVIOUS
<1>1. data.gen <= writes /\ writes \in {0, 1}
  BY DEF Init, Absent
<1>2. \A i \in Ids : snap[i].gen = 0 /\ staged[i].gen = 0
  BY DEF Init, Absent
<1> QED BY <1>1, <1>2 DEF GenInv

LEMMA GenStep == IInv /\ GenInv /\ [Next]_vars => GenInv'
<1> SUFFICES ASSUME IInv, GenInv, [Next]_vars PROVE GenInv'
  OBVIOUS
<1>1. ASSUME DirsMove PROVE GenInv'
  <2>1. writes \in Nat /\ 0 <= writes
    BY DirTypes DEF IInv
  <2> QED BY <1>1, <2>1 DEF DirsMove, GenInv
<1>2. CASE \E p \in Procs : Invocation(p) \/ LockedStep(p) \/ Die(p)
  BY <1>1, <1>2, ProcessDirsMove
<1>3. CASE RestoreStep \/ RestoreFails
  BY <1>1, <1>3, RestoreDirsMove
<1>4. CASE PanelWrites
  <2>1. data'.gen = writes + 1 /\ writes' = writes + 1 /\ UNCHANGED <<snap, staged>>
    BY <1>4 DEF PanelWrites, Opened, IInv, TypeOK, DirsOK, Dir
  <2>2. writes \in Nat /\ \A i \in Ids : snap[i].gen \in Nat /\ staged[i].gen \in Nat
    BY DirTypes DEF IInv
  <2>3. \A n \in Nat : n <= writes => n <= writes + 1
    BY <2>2
  <2>4. writes + 1 <= writes + 1
    BY <2>2
  <2> QED BY <2>1, <2>2, <2>3, <2>4 DEF GenInv
<1>5. CASE UNCHANGED vars
  BY <1>5 DEF vars, dirs, GenInv
<1> QED BY <1>2, <1>3, <1>4, <1>5 DEF Next

----------------------------------------------------------------------------
(* What follows from the invariants *)

LEMMA DataStartsOnIts == IInv /\ DataInv => StartsOnItsData
<1> SUFFICES ASSUME IInv, DataInv, NEW p \in Procs
             PROVE  /\ At(p, "up") => /\ op[p].prev # None => data.kind = "full"
                                      /\ Usable(data, op[p].target)
                    /\ pc[p] \in {"rec-up", "rb-up"} =>
                         data.kind = "full" /\ Usable(data, op[p].prev)
  BY DEF StartsOnItsData
<1>1. ASSUME At(p, "up")
      PROVE  (op[p].prev # None => data.kind = "full") /\ Usable(data, op[p].target)
  BY <1>1, CutoverKnows DEF At, HolderOp, PendingData, Starting, Served, Usable
<1>2. ASSUME pc[p] \in {"rec-up", "rb-up"} PROVE Served(op[p].prev)
  BY <1>2, RecoveryKnows, RollbackKnows DEF Backward, PrevReady, RollbackAt
<1> QED BY <1>1, <1>2 DEF Served, Usable

\* Without its directory the data has been moved aside, and its copy is complete.
LEMMA Missing ==
  ASSUME IInv, DataInv, panel.image # None, ~Exists(data)
  PROVE  /\ Pending /\ Moved(journal.id) /\ journal.id \in Ids
         /\ staged[journal.id] = snap[journal.id] /\ Restorable(journal)
<1>1. GlobalInv /\ HistoryInv
  BY DEF DataInv, GlobalInv
<1>2. \A v : ~Served(v)
  BY DEF Served, Exists
<1>3. Pending /\ PendingData
  BY <1>1, <1>2, Types2 DEF GlobalInv, SettledData, Pending, Quiet
<1>4. Moved(journal.id)
  <2>1. CASE journal.prev # None
    BY <1>2, <1>3, <2>1 DEF PendingData
  <2>2. CASE journal.prev = None
    BY <1>2, <1>3, <2>2 DEF PendingData, Early, Exists
  <2> QED BY <2>1, <2>2
<1>5. journal.id \in Ids
  BY <1>3, PendingReleases
<1>6. staged[journal.id] = snap[journal.id] /\ journal.verified = TRUE
  BY <1>3, <1>4 DEF PendingData
<1> QED BY <1>1, <1>3, <1>4, <1>5, <1>6 DEF HistoryInv

LEMMA DataNothingLost == IInv /\ DataInv => NothingLostBetweenRenames
<1> SUFFICES ASSUME IInv, DataInv, panel.image # None, ~Exists(data)
             PROVE  \E i \in Ids : failed[i].kind = "full" /\ staged[i].kind = "full"
  BY DEF NothingLostBetweenRenames
<1>1. journal.id \in Ids /\ Moved(journal.id) /\ staged[journal.id].kind = "full"
  BY Missing DEF Restorable
<1>2. failed[journal.id].kind = "full"
  BY <1>1 DEF DataInv, GlobalInv, AsideInv
<1> QED BY <1>1, <1>2

LEMMA DataRecoverable == IInv /\ DataInv => CutoverRecoverable
<1> SUFFICES ASSUME IInv, DataInv, ~RestoreRuns, journal.verified = TRUE,
                    journal.phase \notin Final
             PROVE  /\ RollbackAllowed(journal, TRUE)
                    /\ Usable(snap[journal.id], journal.prev)
                    /\ Exists(data) \/ staged[journal.id] = snap[journal.id]
  BY Types2 DEF CutoverRecoverable, IInv
<1>1. /\ GlobalInv /\ HistoryInv /\ journal.prev # None /\ Restorable(journal)
      /\ journal.id # None
  BY DEF DataInv, GlobalInv, HistoryInv
<1>2. Pending
  BY <1>1 DEF Pending, IInv, RecordInv, FilesComplete
<1>3. PendingData
  BY <1>1, <1>2 DEF GlobalInv
<1>4. journal.phase \notin {"prepared", "downloaded"}
  BY <1>1 DEF HistoryInv, Early
<1>5. Exists(data) \/ staged[journal.id] = snap[journal.id]
  BY <1>1, <1>3, Missing DEF PendingData
<1>6. RollbackAllowed(journal, TRUE)
  BY <1>1, <1>3, <1>4 DEF RollbackAllowed, OtherWriters, PendingData, SnapshotUsable, Restorable
<1> QED BY <1>1, <1>5, <1>6 DEF Usable, Restorable

LEMMA WritesKept == IInv /\ DataInv /\ GenInv /\ [Next]_vars => KeepsWrites
<1> SUFFICES ASSUME IInv, DataInv, GenInv, [Next]_vars PROVE KeepsWrites
  OBVIOUS
<1>1. ASSUME DataKept, failed' = failed PROVE KeepsWrites
  <2>1. data.gen \in Nat /\ data'.gen \in Nat /\ data.schema \in Nat /\ data'.schema \in Nat
    <3>1. TypeOK /\ TypeOK'
      BY TypeStep DEF IInv
    <3> QED BY <3>1 DEF TypeOK, DirsOK, Dir
  <2> QED BY <1>1, <2>1 DEF DataKept, KeepsWrites
<1>2. data.gen <= data.gen /\ data.schema <= data.schema
  BY DirTypes DEF IInv
<1>3. CASE \E p \in Procs : Invocation(p) \/ LockedStep(p) \/ Die(p)
  BY <1>1, <1>3, ProcessDirs, ProcessKeepsData
<1>4. CASE RestoreCopy \/ RestoreRemoved \/ RestoreFails
  BY <1>1, <1>2, <1>4 DEF RestoreCopy, RestoreRemoved, RestoreFails, DataKept, dirs
<1>5. CASE RestoreSwap
  BY <1>1, <1>2, <1>5 DEF RestoreSwap, DataKept, Exists
<1>6. CASE RestoreRename
  <2>1. /\ restore.id \in Ids /\ ~Moved(restore.id) /\ failed \in [Ids -> Dir]
        /\ failed' = [failed EXCEPT ![restore.id] = data]
    BY <1>6, RestoreKnows
       DEF RestoreRename, RestoreRuns, RestoreData, IInv, TypeOK, DirsOK, Moved
  <2>2. failed'[restore.id] = data /\ \A i \in Ids \ {restore.id} : failed'[i] = failed[i]
    BY <2>1
  <2> QED BY <2>1, <2>2 DEF KeepsWrites, Moved
<1>7. CASE PanelWrites
  <2>1. /\ data'.kind = "full" /\ data'.schema = SchemaOf[panel.image]
        /\ data'.gen = writes + 1 /\ failed' = failed
    BY <1>7, PanelWrites2 DEF PanelWrites, DataInv
  <2>2. data.kind = "full" => data.schema <= data'.schema
    BY <1>7, <2>1 DEF PanelWrites, Usable
  <2>3. data.gen <= data'.gen
    BY <2>1, DirTypes DEF GenInv, IInv
  <2> QED BY <1>1, <2>1, <2>2, <2>3 DEF DataKept
<1>8. CASE UNCHANGED vars
  BY <1>1, <1>2, <1>8 DEF vars, dirs, DataKept
<1> QED BY <1>3, <1>4, <1>5, <1>6, <1>7, <1>8 DEF Next, RestoreStep

----------------------------------------------------------------------------
(* Results                                                                  *)

\* DataInv holds in every state the updater can reach.
THEOREM DataInvariance == Spec => [](IInv /\ DataInv)
<1>1. Init => IInv /\ DataInv
  BY InitInv, InitData
<1>2. IInv /\ DataInv /\ [Next]_vars => IInv' /\ DataInv'
  BY DataStep, TypeStep, LockStep, RecordStep, PhaseStep, RestoreInvStep DEF IInv
<1> QED BY <1>1, <1>2, PTL DEF Spec

\* startPanel, recoverFailure and rollbackOperation (main.go, recovery.go) only start a
\* release on the installation's own data, never on data that a later schema has migrated,
\* whatever failed or was killed before and whoever gave the commands.
THEOREM StartsOnServedData == Spec => []StartsOnItsData
<1>1. IInv /\ DataInv => StartsOnItsData
  BY DataStartsOnIts
<1> QED BY DataInvariance, <1>1, PTL

\* Once checkSnapshot has verified the copy of a cutover, no sequence of failures, kills and
\* repeated commands leaves the installation without a rollback that is accepted.
THEOREM RecoverableCutover == Spec => []CutoverRecoverable
<1>1. IInv /\ DataInv => CutoverRecoverable
  BY DataRecoverable
<1> QED BY DataInvariance, <1>1, PTL

\* What a panel wrote leaves the data directory only into one kept beside it, which no later
\* restore overwrites, and between the two renames of a restore both copies are complete.
THEOREM NoWriteLost == Spec => NoSilentDataLoss
<1>1. Init => IInv /\ DataInv /\ GenInv
  BY InitInv, InitData, InitGen
<1>2. IInv /\ DataInv /\ GenInv /\ [Next]_vars => IInv' /\ DataInv' /\ GenInv'
  BY DataStep, GenStep, TypeStep, LockStep, RecordStep, PhaseStep, RestoreInvStep DEF IInv
<1>3. IInv /\ DataInv => TypeOK /\ NothingLostBetweenRenames
  BY DataNothingLost DEF IInv
<1>4. IInv /\ DataInv /\ GenInv /\ [Next]_vars => [KeepsWrites]_vars
  BY WritesKept
<1> QED BY <1>1, <1>2, <1>3, <1>4, PTL DEF Spec, NoSilentDataLoss

----------------------------------------------------------------------------
(* The abstract specification: every step as its readers see it *)

\* The phase on disk, where a process is.  In memory it may be one further.
JournalAt(p) ==
    /\ At(p, "fetch") => journal.phase = "prepared"
    /\ pc[p] \in {"preflight", "recheck"} => journal.phase = "downloaded"
    /\ pc[p] \in {"stop", "stopped"} => journal.phase = "stopping"
    /\ At(p, "copy") => journal.phase = "backing-up"
    /\ At(p, "copied") => journal.phase = IF op[p].prev = None THEN "stopping" ELSE "backing-up"
    /\ pc[p] \in {"up", "started"} => journal.phase = "starting-target"
    /\ pc[p] \in Locked \ Untouched => journal.phase # "recovery-required"
JournalInv == \A p \in Procs : JournalAt(p)

\* Phases under which the panel may be touched.
Touching == Abstract!Backwards \cup Abstract!Starting

Simulated == [Abstract!Next]_(Abstract!vars)

----------------------------------------------------------------------------
(* What the readers see of a step *)

LEMMA Unseen ==
  ASSUME UNCHANGED <<journal, previous, panel>>
  PROVE  Simulated
BY DEF Simulated, Abstract!vars, Named

\* A journal write that keeps the operation and enters a phase.
Entered(phase) ==
    /\ journal'.id = journal.id /\ journal'.prev = journal.prev
    /\ journal'.target = journal.target /\ journal'.phase = phase
    /\ UNCHANGED <<previous, panel>>

LEMMA Enters ==
  ASSUME NEW phase, Entered(phase)
  PROVE  Abstract!Enter(phase) /\ UNCHANGED <<Named(previous), panel>>
BY DEF Entered, Abstract!Enter, Named

\* The operation in memory is the journal's, so its write enters a phase.
LEMMA HolderEnters ==
  ASSUME IInv, DataInv, NEW p \in Procs, pc[p] \in Locked, NEW phase \in Phases, NEW label,
         Finish(p, phase) \/ Save(p, phase, label), UNCHANGED <<previous, panel>>
  PROVE  Entered(phase)
<1>1. /\ op[p].id = journal.id /\ op[p].prev = journal.prev /\ op[p].target = journal.target
      /\ op[p] \in Operation
  BY HolderKnown, Types2 DEF HolderOp, IInv
<1>2. journal' = Phase(op[p], phase)
  BY DEF Finish, Save, Write
<1> QED BY <1>1, <1>2, PhaseOf DEF Entered

\* The panel is stopped, or a release of the operation is started.
LEMMA Stopping ==
  ASSUME IInv, journal.phase \in Touching, Stops \/ UNCHANGED panel,
         UNCHANGED <<journal, previous>>
  PROVE  Simulated
<1>1. panel \in [image : Versions \cup {None}, running : BOOLEAN]
  BY DEF IInv, TypeOK, DockerOK
<1>2. CASE UNCHANGED panel
  BY <1>2, Unseen
<1>3. CASE Stops
  <2>1. panel' = [image |-> panel.image, running |-> FALSE]
    BY <1>1, <1>3 DEF Stops
  <2>2. Abstract!MovePanel
    BY <2>1 DEF Abstract!MovePanel, Touching, Named
  <2> QED BY <2>2 DEF Simulated, Abstract!Next
<1> QED BY <1>2, <1>3

LEMMA Starts ==
  ASSUME NEW v, Opening(v), UNCHANGED <<journal, previous>>,
         \/ v = journal.target /\ journal.phase \in Abstract!Starting
         \/ v = journal.prev /\ journal.phase \in Touching
  PROVE  Simulated
<1>1. CASE UNCHANGED panel
  BY <1>1, Unseen
<1>2. ASSUME NEW b \in BOOLEAN, panel' = [image |-> v, running |-> b]
      PROVE  Simulated
  <2>1. Abstract!MovePanel
    BY <1>2 DEF Abstract!MovePanel, Touching, Named
  <2> QED BY <2>1 DEF Simulated, Abstract!Next
<1> QED BY <1>1, <1>2 DEF Opening, ComesUp, UpFails

\* The phases of the readers are those of the journal.
LEMMA SeenPhases ==
  /\ Touching = {"stopping", "backing-up", "rolling-back", "starting-target", "checking-target"}
  /\ Abstract!Starting = Starting
  /\ Abstract!Settled = Final \cup {"none"}
  /\ Abstract!Preparing = {"prepared", "downloaded"}
BY DEF Touching, Abstract!Backwards, Abstract!Starting, Starting, Abstract!Settled, Final,
       Abstract!Preparing

\* A process past the last checks has a journal that says so.
LEMMA HolderTouches ==
  ASSUME IInv, DataInv, JournalInv, NEW p \in Procs, pc[p] \in Locked \ Untouched
  PROVE  journal.phase \in Touching /\ Pending
<1>1. journal.phase \in Phases /\ journal.phase \notin Quiet
      /\ journal.phase # "recovery-required" /\ Pending
  BY HolderKnown, Types2 DEF JournalInv, JournalAt, IInv, Operation, HolderOp
<1> QED BY <1>1, SeenPhases DEF Phases, Quiet, Final

----------------------------------------------------------------------------
(* The update *)

LEMMA ExitJournal ==
  ASSUME IInv, NEW p \in Procs, Exit(p)
  PROVE  JournalAt(p)'
<1>1. pc'[p] = "idle"
  BY DEF Exit, Goto, IInv, TypeOK, ProcsOK
<1> QED BY <1>1 DEF JournalAt, At, Locked

\* The journal says where a process is.
LEMMA Saved ==
  ASSUME IInv, DataInv, NEW p \in Procs, pc[p] \in Locked, NEW phase \in Phases, NEW label,
         Save(p, phase, label), UNCHANGED <<previous, panel>>,
         \/ phase = "downloaded" /\ label = "preflight"
         \/ phase = "stopping" /\ label = (IF op[p].prev = None THEN "copied" ELSE "stop")
         \/ phase = "backing-up" /\ label = "copy"
         \/ phase = "starting-target" /\ label = "up"
         \/ phase = "checking-target" /\ label = "check"
  PROVE  JournalAt(p)'
<1>1. /\ pc'[p] = label /\ op'[p] = Phase(op[p], phase) /\ op[p] \in Operation
  BY Types2 DEF Save, Goto, Hold, IInv, TypeOK, ProcsOK
<1>2. journal'.phase = phase /\ op'[p].prev = op[p].prev
  BY <1>1, HolderEnters, PhaseOf DEF Entered
<1> QED BY <1>1, <1>2 DEF JournalAt, At, Untouched

\* Before the panel is touched the operation is only given up, or goes on.
LEMMA Abandoned ==
  ASSUME IInv, DataInv, JournalInv, NEW p \in Procs, pc[p] \in Untouched,
         Finish(p, "failed-before-cutover"), UNCHANGED <<previous, panel>>
  PROVE  Simulated /\ JournalAt(p)'
<1>1. Entered("failed-before-cutover")
  BY HolderEnters, UntouchedKnows DEF Phases
<1>2. Abstract!Abandon
  BY <1>1, Enters, UntouchedKnows DEF Abstract!Abandon, Abstract!Preparing
<1> QED BY <1>2, ExitJournal DEF Simulated, Abstract!Next, Finish

\* The journal's next phase in an update that meets no failure.
LEMMA Advances ==
  ASSUME NEW phase, Entered(phase),
         \/ journal.phase = "prepared" /\ phase = "downloaded"
         \/ journal.phase = "downloaded" /\ phase = "stopping"
         \/ journal.phase = "stopping" /\ phase = "backing-up"
         \/ journal.phase = "stopping" /\ phase = "starting-target" /\ journal.prev = None
         \/ journal.phase = "backing-up" /\ phase = "starting-target"
         \/ journal.phase = "starting-target" /\ phase = "checking-target"
  PROVE  Simulated
<1>1. Abstract!Enter(phase) /\ UNCHANGED <<Named(previous), panel>>
  BY Enters
<1>2. /\ Abstract!Follows(journal.phase, phase)
      /\ phase \in Abstract!Preparing \cup Abstract!Backwards \cup Abstract!Starting
  BY DEF Abstract!Follows, Abstract!Preparing, Abstract!Backwards, Abstract!Starting,
         Abstract!None, None
<1>3. Abstract!Advance
  BY <1>1, <1>2 DEF Abstract!Advance
<1> QED BY <1>3 DEF Simulated, Abstract!Next

LEMMA FetchSeen ==
  ASSUME IInv, DataInv, JournalInv, NEW p \in Procs, Fetch(p)
  PROVE  Simulated /\ JournalAt(p)'
<1>1. /\ At(p, "fetch") /\ pc[p] \in Untouched /\ pc[p] \in Locked
      /\ UNCHANGED <<previous, panel>> /\ journal.phase = "prepared"
  BY DEF Fetch, At, Untouched, Locked, JournalInv, JournalAt
<1>2. "downloaded" \in Phases /\ "success" \in Phases
  BY DEF Phases
<1>3. CASE Save(p, "downloaded", "preflight")
  <2>1. Entered("downloaded")
    BY <1>1, <1>2, <1>3, HolderEnters
  <2> QED BY <1>1, <1>2, <1>3, <2>1, Advances, Saved
<1>4. CASE op[p].target = op[p].prev /\ Finish(p, "success")
  <2>1. Entered("success") /\ journal.prev = journal.target
    BY <1>1, <1>2, <1>4, HolderEnters, UntouchedKnows DEF HolderOp
  <2>2. Abstract!Keep
    BY <1>1, <2>1, Enters DEF Abstract!Keep
  <2> QED BY <1>4, <2>2, ExitJournal DEF Simulated, Abstract!Next, Finish
<1>5. CASE Finish(p, "failed-before-cutover")
  BY <1>1, <1>5, Abandoned
<1> QED BY <1>3, <1>4, <1>5 DEF Fetch

LEMMA PreflightSeen ==
  ASSUME IInv, DataInv, JournalInv, NEW p \in Procs, Preflight(p)
  PROVE  Simulated /\ JournalAt(p)'
<1>1. /\ At(p, "preflight") /\ pc[p] \in Untouched
      /\ UNCHANGED <<previous, panel>> /\ journal.phase = "downloaded"
  BY DEF Preflight, At, Untouched, JournalInv, JournalAt
<1>2. CASE Goto(p, "recheck") /\ UNCHANGED journal
  <2>1. pc'[p] = "recheck"
    BY <1>2 DEF Goto, IInv, TypeOK, ProcsOK
  <2>2. JournalAt(p)'
    BY <1>1, <1>2, <2>1 DEF JournalAt, At, Untouched
  <2> QED BY <1>1, <1>2, <2>2, Unseen
<1>3. CASE Finish(p, "failed-before-cutover")
  BY <1>1, <1>3, Abandoned
<1> QED BY <1>2, <1>3 DEF Preflight

LEMMA RecheckSeen ==
  ASSUME IInv, DataInv, JournalInv, NEW p \in Procs, Recheck(p)
  PROVE  Simulated /\ JournalAt(p)'
<1>1. /\ At(p, "recheck") /\ pc[p] \in Untouched /\ pc[p] \in Locked
      /\ UNCHANGED <<previous, panel>> /\ journal.phase = "downloaded"
  BY DEF Recheck, At, Untouched, Locked, JournalInv, JournalAt
<1>2. CASE Save(p, "stopping", IF op[p].prev = None THEN "copied" ELSE "stop")
  <2>1. Entered("stopping")
    BY <1>1, <1>2, HolderEnters DEF Phases
  <2> QED BY <1>1, <1>2, <2>1, Advances, Saved DEF Phases
<1>3. CASE Finish(p, "failed-before-cutover")
  BY <1>1, <1>3, Abandoned
<1> QED BY <1>2, <1>3 DEF Recheck

\* The recovery keeps the phase it is entered with.
LEMMA RecoveryAt ==
  ASSUME IInv, NEW p \in Procs, UNCHANGED journal, journal.phase # "recovery-required",
         pc'[p] \in {"rec-stop", "rec-up", "rec-required", "rec-check", "rec-done", "auto-check",
                     "restore", "restore-wait", "check", "stopped"} \cup Recording \cup RollbackAt,
         pc'[p] = "stopped" => journal.phase = "stopping"
  PROVE  JournalAt(p)'
BY DEF JournalAt, At, Locked, Untouched, Recording, RollbackAt

LEMMA EntersRecovery ==
  ASSUME IInv, DataInv, JournalInv, NEW p \in Procs, pc[p] \in Locked \ Untouched,
         NEW o, NEW copies, EnterRecovery(p, o, copies), UNCHANGED journal
  PROVE  JournalAt(p)'
<1>1. pc'[p] \in {"rec-stop", "rec-up"}
  BY DEF EnterRecovery, Goto, IInv, TypeOK, ProcsOK
<1> QED BY <1>1, RecoveryAt DEF JournalInv, JournalAt

LEMMA StopSeen ==
  ASSUME IInv, DataInv, JournalInv, NEW p \in Procs, Stop(p)
  PROVE  Simulated /\ JournalAt(p)'
<1>1. /\ At(p, "stop") /\ pc[p] \in Locked \ Untouched
      /\ UNCHANGED <<journal, previous>> /\ journal.phase = "stopping"
      /\ Stops \/ UNCHANGED panel
  BY DEF Stop, At, Locked, Untouched, JournalInv, JournalAt, files
<1>2. Simulated
  BY <1>1, Stopping, SeenPhases
<1>3. CASE Goto(p, "stopped")
  <2>1. pc'[p] = "stopped"
    BY <1>3 DEF Goto, IInv, TypeOK, ProcsOK
  <2> QED BY <1>1, <1>2, <2>1, RecoveryAt
<1>4. CASE EnterRecovery(p, op[p], snap)
  BY <1>1, <1>2, <1>4, EntersRecovery
<1> QED BY <1>3, <1>4 DEF Stop

LEMMA StoppedSeen ==
  ASSUME IInv, DataInv, JournalInv, NEW p \in Procs, Stopped(p)
  PROVE  Simulated /\ JournalAt(p)'
<1>1. /\ At(p, "stopped") /\ pc[p] \in Locked \ Untouched
      /\ UNCHANGED <<previous, panel>> /\ journal.phase = "stopping"
  BY DEF Stopped, At, Locked, Untouched, JournalInv, JournalAt
<1>2. CASE Save(p, "backing-up", "copy")
  <2>1. Entered("backing-up")
    BY <1>1, <1>2, HolderEnters DEF Phases
  <2> QED BY <1>1, <1>2, <2>1, Advances, Saved DEF Phases
<1>3. ASSUME NEW o, EnterRecovery(p, o, snap), UNCHANGED journal
      PROVE  Simulated /\ JournalAt(p)'
  BY <1>1, <1>3, EntersRecovery, Unseen
<1> QED BY <1>2, <1>3 DEF Stopped

LEMMA CopySeen ==
  ASSUME IInv, DataInv, JournalInv, NEW p \in Procs, Copy(p)
  PROVE  Simulated /\ JournalAt(p)'
<1>1. /\ At(p, "copy") /\ pc[p] \in Locked \ Untouched
      /\ UNCHANGED <<journal, previous, panel>> /\ journal.phase = "backing-up"
  BY DEF Copy, At, Locked, Untouched, JournalInv, JournalAt, files
<1>2. CASE Goto(p, "copied") /\ Hold(p, [op[p] EXCEPT !.verified = TRUE])
  <2>1. pc'[p] = "copied" /\ op'[p].prev = op[p].prev /\ op[p].prev # None
    BY <1>1, <1>2, Types2
       DEF Goto, Hold, IInv, TypeOK, ProcsOK, Operation, RecordInv, ProcComplete, NeedsPrevious,
           At
  <2>2. JournalAt(p)'
    BY <1>1, <2>1 DEF JournalAt, At, Untouched
  <2> QED BY <1>1, <2>2, Unseen
<1>3. ASSUME NEW copies, EnterRecovery(p, op[p], copies)
      PROVE  Simulated /\ JournalAt(p)'
  BY <1>1, <1>3, EntersRecovery, Unseen
<1> QED BY <1>2, <1>3 DEF Copy

LEMMA CopiedSeen ==
  ASSUME IInv, DataInv, JournalInv, NEW p \in Procs, Copied(p)
  PROVE  Simulated /\ JournalAt(p)'
<1>1. /\ At(p, "copied") /\ pc[p] \in Locked \ Untouched
      /\ UNCHANGED <<previous, panel>> /\ op[p].prev = journal.prev
      /\ journal.phase = IF op[p].prev = None THEN "stopping" ELSE "backing-up"
  BY HolderKnown DEF Copied, At, Locked, Untouched, JournalInv, JournalAt, HolderOp
<1>2. CASE Save(p, "starting-target", "up")
  <2>1. Entered("starting-target")
    BY <1>1, <1>2, HolderEnters DEF Phases
  <2> QED BY <1>1, <1>2, <2>1, Advances, Saved DEF Phases
<1>3. ASSUME NEW o, EnterRecovery(p, o, snap), UNCHANGED journal
      PROVE  Simulated /\ JournalAt(p)'
  BY <1>1, <1>3, EntersRecovery, Unseen
<1> QED BY <1>2, <1>3 DEF Copied

LEMMA UpSeen ==
  ASSUME IInv, DataInv, JournalInv, NEW p \in Procs, Up(p)
  PROVE  Simulated /\ JournalAt(p)'
<1>1. /\ At(p, "up") /\ pc[p] \in Locked \ Untouched
      /\ UNCHANGED <<journal, previous>> /\ journal.phase = "starting-target"
      /\ op[p].target = journal.target /\ Opening(op[p].target)
  BY HolderKnown DEF Up, At, Locked, Untouched, JournalInv, JournalAt, files, HolderOp, Opening
<1>2. Simulated
  BY <1>1, Starts, SeenPhases DEF Starting
<1>3. CASE Goto(p, IF opt[p].kind = "resume" THEN "check" ELSE "started")
  <2>1. pc'[p] \in {"check", "started"}
    BY <1>3 DEF Goto, IInv, TypeOK, ProcsOK
  <2>2. JournalAt(p)'
    BY <1>1, <2>1 DEF JournalAt, At, Untouched
  <2> QED BY <1>2, <2>2
<1>4. CASE EnterRecovery(p, op[p], snap)
  BY <1>1, <1>2, <1>4, EntersRecovery
<1> QED BY <1>3, <1>4 DEF Up

LEMMA StartedSeen ==
  ASSUME IInv, DataInv, JournalInv, NEW p \in Procs, Started(p)
  PROVE  Simulated /\ JournalAt(p)'
<1>1. /\ At(p, "started") /\ pc[p] \in Locked \ Untouched
      /\ UNCHANGED <<previous, panel>> /\ journal.phase = "starting-target"
  BY DEF Started, At, Locked, Untouched, JournalInv, JournalAt
<1>2. CASE Save(p, "checking-target", "check")
  <2>1. Entered("checking-target")
    BY <1>1, <1>2, HolderEnters DEF Phases
  <2> QED BY <1>1, <1>2, <2>1, Advances, Saved DEF Phases
<1>3. ASSUME NEW o, EnterRecovery(p, o, snap), UNCHANGED journal
      PROVE  Simulated /\ JournalAt(p)'
  BY <1>1, <1>3, EntersRecovery, Unseen
<1> QED BY <1>2, <1>3 DEF Started

LEMMA CheckSeen ==
  ASSUME IInv, DataInv, JournalInv, NEW p \in Procs, Check(p)
  PROVE  Simulated /\ JournalAt(p)'
<1>1. /\ At(p, "check") /\ pc[p] \in Locked \ Untouched /\ UNCHANGED <<journal, previous, panel>>
      /\ journal.phase # "recovery-required"
  BY DEF Check, At, Locked, Untouched, files, JournalInv, JournalAt
<1>2. CASE Goto(p, IF op[p].prev = None THEN "record-active" ELSE "record-previous")
  <2>1. pc'[p] \in Recording
    BY <1>2 DEF Goto, IInv, TypeOK, ProcsOK, Recording
  <2>2. JournalAt(p)'
    BY <1>1, <2>1, RecoveryAt DEF Recording
  <2> QED BY <1>1, <2>2, Unseen
<1>3. CASE EnterRecovery(p, op[p], snap)
  BY <1>1, <1>3, EntersRecovery, Unseen
<1> QED BY <1>2, <1>3 DEF Check

----------------------------------------------------------------------------
(* The target serves *)

LEMMA Serving ==
  ASSUME IInv, DataInv, NEW p \in Procs, pc[p] \in Recording
  PROVE  /\ Abstract!Serves(journal.target) /\ journal.phase \in Abstract!Starting
         /\ op[p].id = journal.id /\ op[p].prev = journal.prev /\ op[p].target = journal.target
         /\ pc[p] \in Locked
<1>1. /\ panel \in [image : Versions \cup {None}, running : BOOLEAN]
      /\ pc[p] \in Recording => panel.running = TRUE
  BY DEF IInv, TypeOK, DockerOK, PhaseInv, ProcPhase, Recording
<1> QED BY <1>1, RecordingKnows, SeenPhases DEF Abstract!Serves, HolderOp

LEMMA RecordPreviousSeen ==
  ASSUME IInv, DataInv, JournalInv, NEW p \in Procs, RecordPrevious(p)
  PROVE  Simulated /\ JournalAt(p)'
<1>1. /\ At(p, "record-previous") /\ pc[p] \in Recording /\ UNCHANGED <<journal, panel>>
      /\ previous' = op[p] /\ pc[p] \in Locked \ Untouched
  BY DEF RecordPrevious, At, Recording, Locked, Untouched
<1>2. Abstract!Record
  BY <1>1, Serving DEF Abstract!Record, Named
<1>3. pc'[p] = "record-active"
  BY DEF RecordPrevious, Goto, IInv, TypeOK, ProcsOK
<1>4. JournalAt(p)'
  BY <1>1, <1>3, RecoveryAt DEF Recording, JournalInv, JournalAt
<1> QED BY <1>2, <1>4 DEF Simulated, Abstract!Next

LEMMA RecordActiveSeen ==
  ASSUME IInv, DataInv, JournalInv, NEW p \in Procs, RecordActive(p)
  PROVE  Simulated /\ JournalAt(p)'
<1>1. /\ UNCHANGED <<journal, previous, panel>> /\ pc[p] \in Locked \ Untouched
  BY DEF RecordActive, At, Locked, Untouched
<1>2. pc'[p] = "record-success"
  BY DEF RecordActive, Goto, IInv, TypeOK, ProcsOK
<1>3. JournalAt(p)'
  BY <1>1, <1>2, RecoveryAt DEF Recording, JournalInv, JournalAt
<1> QED BY <1>1, <1>3, Unseen

LEMMA RecordSuccessSeen ==
  ASSUME IInv, DataInv, JournalInv, NEW p \in Procs, RecordSuccess(p)
  PROVE  Simulated /\ JournalAt(p)'
<1>1. /\ At(p, "record-success") /\ pc[p] \in Recording /\ UNCHANGED <<previous, panel>>
      /\ Finish(p, "success") /\ "success" \in Phases
  BY DEF RecordSuccess, At, Recording, Phases
<1>2. Entered("success")
  BY <1>1, HolderEnters, Serving
<1>3. journal.prev # None => previous.id = journal.id
  BY <1>1, RecordingKnows, Serving DEF Forward, At
<1>4. Abstract!Commit
  BY <1>1, <1>2, <1>3, Enters, Serving DEF Abstract!Commit, Abstract!None, None, Named
<1> QED BY <1>1, <1>4, ExitJournal DEF Simulated, Abstract!Next, Finish

----------------------------------------------------------------------------
(* The way back of a failed update *)

LEMMA PreviousServes ==
  ASSUME IInv, DataInv, NEW p \in Procs, pc[p] \in {"rec-done", "rb-done"}
  PROVE  Abstract!Serves(journal.prev) /\ pc[p] \in Locked \ Untouched
<1>1. /\ panel \in [image : Versions \cup {None}, running : BOOLEAN]
      /\ panel.running = TRUE /\ pc[p] \in Locked \ Untouched
  BY DEF IInv, TypeOK, DockerOK, PhaseInv, ProcPhase, Locked, Untouched
<1> QED BY <1>1, HolderKnown DEF Abstract!Serves, HolderOp, Backward

\* The previous release serves again.
LEMMA Recovers ==
  ASSUME IInv, DataInv, JournalInv, NEW p \in Procs, pc[p] \in {"rec-done", "rb-done"},
         Finish(p, "recovered"), UNCHANGED <<previous, panel>>
  PROVE  Simulated /\ JournalAt(p)'
<1>1. Entered("recovered")
  BY HolderEnters, PreviousServes DEF Phases
<1>2. journal.phase \in Touching
  BY PreviousServes, HolderTouches
<1>3. Abstract!Recover
  BY <1>1, <1>2, Enters, PreviousServes DEF Abstract!Recover, Touching
<1> QED BY <1>3, ExitJournal DEF Simulated, Abstract!Next, Finish

LEMMA RecoverySeen ==
  ASSUME IInv, DataInv, JournalInv, NEW p \in Procs, RecoveryStep(p)
  PROVE  Simulated /\ JournalAt(p)'
<1>1. /\ pc[p] \in Locked \ Untouched /\ journal.phase \in Touching
      /\ journal.phase # "recovery-required" /\ op[p].prev = journal.prev
  <2>1. pc[p] \in Locked \ Untouched
    BY DEF RecoveryStep, RecStop, RecRequired, RecUp, RecCheck, RecDone, AutoCheck, At, Locked,
           Untouched
  <2> QED BY <2>1, HolderTouches, HolderKnown DEF JournalInv, JournalAt, HolderOp
<1>2. ASSUME UNCHANGED <<journal, previous>>, Simulated, NEW label, Goto(p, label),
             label \in {"rec-up", "rec-required", "rec-check", "rec-done", "auto-check"}
      PROVE  Simulated /\ JournalAt(p)'
  <2>1. pc'[p] = label
    BY <1>2 DEF Goto, IInv, TypeOK, ProcsOK
  <2> QED BY <1>1, <1>2, <2>1, RecoveryAt
<1>3. CASE RecStop(p)
  <2>1. UNCHANGED <<journal, previous>> /\ (Stops \/ UNCHANGED panel)
    BY <1>3 DEF RecStop, files
  <2>2. Simulated
    BY <1>1, <2>1, Stopping
  <2> QED BY <1>2, <1>3, <2>1, <2>2 DEF RecStop, AfterTargetStopped
<1>4. CASE RecRequired(p)
  <2>1. Finish(p, "recovery-required") /\ UNCHANGED <<previous, panel>>
    BY <1>4 DEF RecRequired
  <2>2. Entered("recovery-required")
    BY <1>1, <2>1, HolderEnters DEF Phases
  <2>3. Abstract!GiveUp
    BY <1>1, <2>2, Enters DEF Abstract!GiveUp, Touching
  <2> QED BY <2>1, <2>3, ExitJournal DEF Simulated, Abstract!Next, Finish
<1>5. CASE RecUp(p)
  <2>1. UNCHANGED <<journal, previous>> /\ Opening(op[p].prev)
    BY <1>5 DEF RecUp, files, Opening
  <2>2. Simulated
    BY <1>1, <2>1, Starts
  <2> QED BY <1>2, <1>5, <2>1, <2>2 DEF RecUp
<1>6. CASE RecCheck(p)
  <2>1. UNCHANGED <<journal, previous, panel>>
    BY <1>6 DEF RecCheck, files
  <2> QED BY <1>2, <1>6, <2>1, Unseen DEF RecCheck
<1>7. CASE RecDone(p)
  BY <1>7, Recovers DEF RecDone, At
<1>8. CASE AutoCheck(p)
  <2>1. UNCHANGED <<previous, panel>> /\ At(p, "auto-check")
    BY <1>8 DEF AutoCheck
  <2>2. ASSUME NEW o, o = [Phase(op[p], "rolling-back") EXCEPT !.restoreData = TRUE],
               Write(o), Goto(p, "restore")
        PROVE  Simulated /\ JournalAt(p)'
    <3>1. op[p] \in Operation /\ "rolling-back" \in Phases
      BY Types2 DEF IInv, Phases
    <3>2. /\ o.phase = "rolling-back" /\ o.id = op[p].id /\ o.prev = op[p].prev
          /\ o.target = op[p].target
      BY <2>2, <3>1 DEF Phase, Operation
    <3>3. Entered("rolling-back")
      BY <1>1, <2>1, <2>2, <3>2, HolderKnown DEF Entered, Write, HolderOp
    <3>4. journal.prev # None
      BY <1>1, <2>1 DEF IInv, RecordInv, ProcComplete, NeedsPrevious, At
    <3>5. Abstract!RollBack
      BY <1>1, <3>3, <3>4, Enters DEF Abstract!RollBack, Touching, Abstract!None, None
    <3>6. pc'[p] = "restore"
      BY <2>2 DEF Goto, IInv, TypeOK, ProcsOK
    <3>7. JournalAt(p)'
      BY <3>3, <3>6 DEF JournalAt, At, Entered, Untouched
    <3> QED BY <3>5, <3>7 DEF Simulated, Abstract!Next
  <2>3. ASSUME Goto(p, "rec-required"), UNCHANGED journal
        PROVE  Simulated /\ JournalAt(p)'
    BY <1>2, <2>1, <2>3, Unseen
  <2> QED BY <1>8, <2>2, <2>3 DEF AutoCheck
<1> QED BY <1>3, <1>4, <1>5, <1>6, <1>7, <1>8 DEF RecoveryStep

----------------------------------------------------------------------------
(* The restore and the rollback *)

LEMMA RestoringSeen ==
  ASSUME IInv, DataInv, JournalInv, NEW p \in Procs, RestoreStart(p) \/ RestoreWait(p)
  PROVE  Simulated /\ JournalAt(p)'
<1>1. /\ UNCHANGED <<journal, previous, panel>> /\ pc[p] \in Locked \ Untouched
  BY DEF RestoreStart, RestoreWait, files, At, Locked, Untouched
<1>2. \/ Exit(p)
      \/ \E label \in {"restore-wait", "rec-required", "rb-up", "rec-up"} : Goto(p, label)
  BY DEF RestoreStart, RestoreWait, RestoreEnds
<1>3. ASSUME NEW label \in {"restore-wait", "rec-required", "rb-up", "rec-up"}, Goto(p, label)
      PROVE  JournalAt(p)'
  <2>1. pc'[p] = label
    BY <1>3 DEF Goto, IInv, TypeOK, ProcsOK
  <2> QED BY <1>1, <1>3, <2>1, RecoveryAt DEF RollbackAt, JournalInv, JournalAt
<1> QED BY <1>1, <1>2, <1>3, ExitJournal, Unseen

LEMMA RollbackSeen ==
  ASSUME IInv, DataInv, JournalInv, NEW p \in Procs, RollbackStep(p)
  PROVE  Simulated /\ JournalAt(p)'
<1>1. /\ pc[p] \in Locked \ Untouched /\ journal.phase \in Touching
      /\ journal.phase # "recovery-required" /\ op[p].prev = journal.prev
  <2>1. pc[p] \in Locked \ Untouched
    BY DEF RollbackStep, RbStop, RbUp, RbCheck, RbActive, RbDone, At, Locked, Untouched
  <2> QED BY <2>1, HolderTouches, HolderKnown DEF JournalInv, JournalAt, HolderOp
<1>2. ASSUME UNCHANGED <<journal, previous>>, Simulated,
             \/ Exit(p)
             \/ \E label \in {"restore"} \cup RollbackAt : Goto(p, label)
      PROVE  Simulated /\ JournalAt(p)'
  <2>1. ASSUME NEW label \in {"restore"} \cup RollbackAt, Goto(p, label) PROVE JournalAt(p)'
    <3>1. pc'[p] = label
      BY <2>1 DEF Goto, IInv, TypeOK, ProcsOK
    <3> QED BY <1>1, <1>2, <2>1, <3>1, RecoveryAt DEF RollbackAt
  <2> QED BY <1>2, <2>1, ExitJournal
<1>3. CASE RbStop(p)
  <2>1. UNCHANGED <<journal, previous>> /\ (Stops \/ UNCHANGED panel)
    BY <1>3 DEF RbStop, files
  <2>2. Simulated
    BY <1>1, <2>1, Stopping
  <2> QED BY <1>2, <1>3, <2>1, <2>2 DEF RbStop, RollbackAt
<1>4. CASE RbUp(p)
  <2>1. UNCHANGED <<journal, previous>> /\ Opening(op[p].prev)
    BY <1>4 DEF RbUp, files, Opening
  <2>2. Simulated
    BY <1>1, <2>1, Starts
  <2> QED BY <1>2, <1>4, <2>1, <2>2 DEF RbUp, RollbackAt
<1>5. CASE RbCheck(p) \/ RbActive(p)
  <2>1. UNCHANGED <<journal, previous, panel>>
    BY <1>5 DEF RbCheck, RbActive, files
  <2> QED BY <1>2, <1>5, <2>1, Unseen DEF RbCheck, RbActive, RollbackAt
<1>6. CASE RbDone(p)
  BY <1>6, Recovers DEF RbDone, At
<1> QED BY <1>3, <1>4, <1>5, <1>6 DEF RollbackStep

----------------------------------------------------------------------------
(* The commands *)

LEMMA UpdatePrepareSeen ==
  ASSUME IInv, DataInv, NEW p \in Procs, UpdatePrepare(p)
  PROVE  Simulated /\ JournalAt(p)'
<1>1. /\ journal'.id = nextId /\ journal'.phase = "prepared" /\ journal'.prev = panel.image
      /\ journal'.target = opt[p].to /\ opt[p].to \in Versions /\ nextId \in Ids
      /\ journal.phase \in Final \cup {"none"} /\ pc'[p] = "fetch"
      /\ UNCHANGED <<previous, panel>>
  BY UpdatePrepareKnows DEF UpdatePrepare
<1>2. nextId # journal.id /\ nextId # previous.id
  <2>1. journal.id < nextId /\ (previous.id # None => previous.id < nextId)
    BY DEF DataInv, GlobalInv, HistoryInv, PreviousInv
  <2>2. nextId \in Nat /\ None \notin Ids
    BY Types2 DEF IInv
  <2> QED BY <1>1, <2>1, <2>2
<1>3. panel.image # None => panel.running
  BY <1>1 DEF IInv, PhaseInv, PanelUp, Quiet
<1>4. Abstract!Begin
  BY <1>1, <1>2, <1>3, SeenPhases DEF Abstract!Begin, Abstract!None, None, Named
<1>5. JournalAt(p)'
  BY <1>1 DEF JournalAt, At, Untouched
<1> QED BY <1>4, <1>5 DEF Simulated, Abstract!Next

LEMMA RollbackMarkSeen ==
  ASSUME IInv, DataInv, NEW p \in Procs, RollbackMark(p)
  PROVE  Simulated /\ JournalAt(p)'
<1>1. /\ journal.phase \in {"prepared", "downloaded"} /\ Exit(p)
      /\ journal' = Phase(journal, "failed-before-cutover") /\ UNCHANGED <<previous, panel>>
      /\ journal \in Operation /\ "failed-before-cutover" \in Phases
  BY RollbackMarkKnows, Types2 DEF RollbackMark, IInv, Phases
<1>2. Entered("failed-before-cutover")
  BY <1>1, PhaseOf DEF Entered
<1>3. Abstract!Abandon
  BY <1>1, <1>2, Enters, SeenPhases DEF Abstract!Abandon
<1> QED BY <1>1, <1>3, ExitJournal DEF Simulated, Abstract!Next

\* A pending operation is rolled back, over a finished one the last success is undone.
LEMMA RollbackPrepareSeen ==
  ASSUME IInv, DataInv, NEW p \in Procs, RollbackPrepare(p)
  PROVE  Simulated /\ JournalAt(p)'
<1>1. /\ At(p, "rb-begin") /\ JournalUnchanged(p) /\ RollbackAllowed(op[p], opt[p].restore)
      /\ journal'.phase = "rolling-back" /\ journal'.id = op[p].id
      /\ journal'.prev = op[p].prev /\ journal'.target = op[p].target
      /\ pc'[p] = "rb-stop" /\ UNCHANGED <<previous, panel>>
  BY RollbackPrepareKnows
<1>2. ASSUME op[p] = journal, Pending PROVE Simulated
  <2>1. journal.phase \in Touching \cup {"recovery-required"} /\ journal.prev # None
    <3>1. journal.phase \in Phases
      BY Types2 DEF IInv, Operation
    <3> QED BY <1>1, <1>2, <3>1, SeenPhases DEF RollbackAllowed, Pending, Final, Phases
  <2>2. Entered("rolling-back")
    BY <1>1, <1>2 DEF Entered
  <2>3. Abstract!RollBack
    BY <2>1, <2>2, Enters DEF Abstract!RollBack, Touching, Abstract!None, None
  <2> QED BY <2>3 DEF Simulated, Abstract!Next
<1>3. ASSUME op[p] = previous, previous.id # None, journal.phase \in Final
      PROVE  Simulated
  <2>1. Abstract!Undo
    BY <1>1, <1>3, SeenPhases DEF Abstract!Undo, Abstract!None, None, Named
  <2> QED BY <2>1 DEF Simulated, Abstract!Next
<1>4. JournalAt(p)'
  BY <1>1 DEF JournalAt, At, Untouched
<1> QED BY <1>1, <1>2, <1>3, <1>4, RollbackOf

LEMMA ResumePrepareSeen ==
  ASSUME IInv, DataInv, NEW p \in Procs, ResumePrepare(p)
  PROVE  Simulated /\ JournalAt(p)'
<1>1. /\ journal.phase \in Resumable /\ Rewritten /\ journal'.phase = "starting-target"
      /\ pc'[p] = "up"
  BY ResumePrepareKnows
<1>2. Entered("starting-target")
  BY <1>1 DEF Entered, Rewritten
<1>3. Abstract!Resume
  BY <1>1, <1>2, Enters, SeenPhases DEF Abstract!Resume, Resumable
<1>4. JournalAt(p)'
  BY <1>1 DEF JournalAt, At, Untouched
<1> QED BY <1>3, <1>4 DEF Simulated, Abstract!Next

LEMMA InvocationSeen ==
  ASSUME IInv, DataInv, NEW p \in Procs, Invocation(p)
  PROVE  Simulated /\ JournalAt(p)'
<1>1. CASE UpdateBegin(p) \/ RollbackBegin(p) \/ ResumeBegin(p)
  <2>1. UNCHANGED <<journal, previous, panel>> /\ pc'[p] \in Unlocked
    BY <1>1 DEF UpdateBegin, RollbackBegin, ResumeBegin, Invoked, Goto, Unlocked, files,
                IInv, TypeOK, ProcsOK
  <2> QED BY <2>1, Unseen DEF JournalAt, At, Unlocked, Locked
<1>2. CASE Refuse(p)
  BY <1>2, ExitJournal, Unseen DEF Refuse, files
<1> QED BY <1>1, <1>2, UpdatePrepareSeen, RollbackMarkSeen, RollbackPrepareSeen,
           ResumePrepareSeen DEF Invocation

\* A process that is killed leaves the effect of its command, or none.
LEMMA DieSeen ==
  ASSUME IInv, DataInv, JournalInv, NEW p \in Procs, Die(p)
  PROVE  Simulated /\ JournalAt(p)'
<1>1. /\ pc[p] \in Locked /\ Exit(p) /\ UNCHANGED <<journal, previous>>
      /\ op[p].prev = journal.prev /\ op[p].target = journal.target
  BY HolderKnown DEF Die, files, HolderOp
<1>2. CASE UNCHANGED panel
  BY <1>1, <1>2, ExitJournal, Unseen
<1>3. CASE pc[p] \in {"stop", "rec-stop", "rb-stop"} /\ Stops
  <2>1. journal.phase \in Touching
    BY <1>1, <1>3, HolderTouches DEF Untouched
  <2> QED BY <1>1, <1>3, <2>1, Stopping, ExitJournal
<1>4. CASE At(p, "up") /\ UpFails(op[p].target)
  <2>1. journal.phase \in Abstract!Starting
    BY <1>4, SeenPhases DEF JournalInv, JournalAt, At, Starting
  <2> QED BY <1>1, <1>4, <2>1, Starts, ExitJournal DEF Opening
<1>5. CASE pc[p] \in {"rec-up", "rb-up"} /\ UpFails(op[p].prev)
  <2>1. journal.phase \in Touching
    BY <1>1, <1>5, HolderTouches DEF Untouched
  <2> QED BY <1>1, <1>5, <2>1, Starts, ExitJournal DEF Opening
<1> QED BY <1>2, <1>3, <1>4, <1>5 DEF Die

----------------------------------------------------------------------------
(* Every step *)

LEMMA OwnStepSeen ==
  ASSUME IInv, DataInv, JournalInv, NEW p \in Procs, Invocation(p) \/ LockedStep(p) \/ Die(p)
  PROVE  Simulated /\ JournalAt(p)'
<1>1. CASE UpdateStep(p)
  BY <1>1, FetchSeen, PreflightSeen, RecheckSeen, StopSeen, StoppedSeen, CopySeen, CopiedSeen,
     UpSeen, StartedSeen, CheckSeen, RecordPreviousSeen, RecordActiveSeen, RecordSuccessSeen
     DEF UpdateStep
<1> QED BY <1>1, InvocationSeen, DieSeen, RecoverySeen, RollbackSeen, RestoringSeen DEF LockedStep

\* While a process holds the locks, nobody else writes the journal.
LEMMA BystanderAt ==
  ASSUME IInv, JournalInv, NEW p \in Procs, Invocation(p) \/ LockedStep(p) \/ Die(p),
         NEW q \in Procs \ {p}
  PROVE  JournalAt(q)'
<1>1. pc'[q] = pc[q] /\ op'[q] = op[q]
  BY OthersKeep DEF IInv, TypeOK
<1>2. CASE pc[q] \in Locked
  <2>1. UNCHANGED journal
    BY <1>2, OthersRead DEF files
  <2> QED BY <1>1, <2>1 DEF JournalInv, JournalAt, At
<1>3. CASE pc[q] \notin Locked
  BY <1>1, <1>3 DEF JournalAt, At, Locked
<1> QED BY <1>2, <1>3

LEMMA JournalStep == IInv /\ DataInv /\ JournalInv /\ [Next]_vars => JournalInv' /\ Simulated
<1> SUFFICES ASSUME IInv, DataInv, JournalInv, [Next]_vars PROVE JournalInv' /\ Simulated
  OBVIOUS
<1>1. ASSUME NEW p \in Procs, Invocation(p) \/ LockedStep(p) \/ Die(p)
      PROVE  JournalInv' /\ Simulated
  BY <1>1, OwnStepSeen, BystanderAt DEF JournalInv
<1>2. CASE RestoreStep \/ RestoreFails \/ PanelWrites \/ UNCHANGED vars
  <2>1. UNCHANGED <<journal, previous, panel>> /\ UNCHANGED <<pc, op>>
    BY <1>2 DEF RestoreStep, RestoreCopy, RestoreRename, RestoreSwap, RestoreRemoved,
                RestoreFails, PanelWrites, vars, files, local
  <2>2. JournalInv'
    BY <2>1 DEF JournalInv, JournalAt, At
  <2> QED BY <2>1, <2>2, Unseen
<1> QED BY <1>1, <1>2 DEF Next

LEMMA InitSeen == Init => JournalInv /\ Abstract!Init
<1> SUFFICES ASSUME Init PROVE JournalInv /\ Abstract!Init
  OBVIOUS
<1>1. JournalInv
  BY DEF Init, JournalInv, JournalAt, At, Locked
<1>2. panel \in [image : {None}, running : {FALSE}] \cup [image : Versions, running : {TRUE}]
  <2>1. \/ panel = [image |-> None, running |-> FALSE]
        \/ \E v \in Versions : panel = [image |-> v, running |-> TRUE]
    BY DEF Init
  <2>2. [image |-> None, running |-> FALSE] \in [image : {None}, running : {FALSE}]
    OBVIOUS
  <2>3. \A v \in Versions :
          [image |-> v, running |-> TRUE] \in [image : Versions, running : {TRUE}]
    OBVIOUS
  <2> QED BY <2>1, <2>2, <2>3
<1> QED BY <1>1, <1>2 DEF Init, NoOperation, Abstract!Init, Abstract!None, None, Named

\* Whatever fails, is killed or is given twice, the readers of operation.json and of the
\* panel's container (docs/self-updates.md, panel-update-observer.ts) see an update that
\* moves by the phases of UpdatePhases.
THEOREM UpdaterImplementsPhases == Spec => ImplementsPhases
<1>1. Init => IInv /\ DataInv /\ JournalInv /\ Abstract!Init
  BY InitInv, InitData, InitSeen
<1>2. IInv /\ DataInv /\ JournalInv /\ [Next]_vars =>
        IInv' /\ DataInv' /\ JournalInv' /\ Simulated
  BY DataStep, JournalStep, TypeStep, LockStep, RecordStep, PhaseStep, RestoreInvStep DEF IInv
<1> QED BY <1>1, <1>2, PTL DEF Spec, ImplementsPhases, Abstract!Spec, Simulated
=============================================================================
