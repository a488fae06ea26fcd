------------------------------ MODULE Updater ------------------------------
(***************************************************************************)
(* The host-side updater of the panel, src/extra/updater (Go).             *)
(*                                                                         *)
(* One invocation of the binary is a process of Procs.  It moves the panel *)
(* container from one release to another under a journal (operation.json), *)
(* and every write of that journal, every docker command that changes the  *)
(* panel and every write of active.json / previous.json is a step of its   *)
(* own, so a process may be killed between any two of them.  The restore   *)
(* container belongs to the Docker daemon and outlives the process that    *)
(* started it.                                                             *)
(***************************************************************************)
EXTENDS Naturals, FiniteSets

CONSTANTS
    Procs,      \* invocations of the updater that may run at the same time
    NoProc,     \* nobody holds the project and data locks
    Versions,   \* releases, ordered by number as compareVersion orders them
    SchemaOf,   \* database schema of each release
    MaxOps,     \* bound on recorded operations (ids are time stamps)
    MaxWrites,  \* bound on what running panels write
    MaxFaults   \* bound on failures: commands, crashes, lost containers

ASSUME ProcsAssumption == NoProc \notin Procs
ASSUME VersionAssumption == Versions \subseteq (Nat \ {0})
ASSUME SchemaAssumption ==
    /\ SchemaOf \in [Versions -> Nat \ {0}]
    \* migrations are only ever added, so a later release has no older schema
    /\ \A v, w \in Versions : v <= w => SchemaOf[v] <= SchemaOf[w]
ASSUME BoundAssumption ==
    MaxOps \in Nat /\ MaxWrites \in Nat \ {0} /\ MaxFaults \in Nat

None == 0    \* no version, no operation id
Ids == 1..MaxOps

----------------------------------------------------------------------------
(* The journal *)

Phases == {"none", "prepared", "downloaded", "stopping", "backing-up",
           "starting-target", "checking-target", "rolling-back", "success",
           "failed-before-cutover", "recovered", "recovery-required"}

\* A finished operation: only over one of these may a new update start.
Final == {"success", "recovered", "failed-before-cutover"}

\* Phases in which the target cannot have been started yet.
BeforeStart == {"prepared", "downloaded", "stopping", "backing-up",
                "failed-before-cutover"}
MayHaveStartedMutant(phase) == phase \notin BeforeStart \cup {"starting-target"}
MayHaveStarted(phase) == phase \notin BeforeStart

Operation == [id : Ids \cup {None}, phase : Phases,
              prev : Versions \cup {None}, legacy : BOOLEAN,
              target : Versions \cup {None},
              verified : BOOLEAN, restoreData : BOOLEAN]

NoOperation == [id |-> None, phase |-> "none", prev |-> None, legacy |-> FALSE,
                target |-> None, verified |-> FALSE, restoreData |-> FALSE]

SchemaChanges(o) == SchemaOf[o.prev] # SchemaOf[o.target]

----------------------------------------------------------------------------
(* Directories: the panel data, its snapshots, and what a restore leaves    *)
(* beside it.  gen numbers the writes a directory contains, schema is what  *)
(* the database in it was migrated to.                                      *)

Dir == [kind : {"absent", "empty", "partial", "full"}, schema : Nat, gen : Nat]
Absent  == [kind |-> "absent",  schema |-> 0, gen |-> 0]
Empty   == [kind |-> "empty",   schema |-> 0, gen |-> 0]
Partial == [kind |-> "partial", schema |-> 0, gen |-> 0]
Exists(d) == d.kind # "absent"

\* Data a panel of version v can serve: a panel migrates older data, and
\* refuses (or breaks) data that a later schema already migrated.
Usable(d, v) ==
    \/ d.kind = "empty"
    \/ d.kind = "full" /\ d.schema <= SchemaOf[v]

\* Docker creates the source of a bind mount that does not exist.
Mounted(d) == IF Exists(d) THEN d ELSE Empty

\* What the data is once a panel of version v has opened it.
Opened(d, v) == [d EXCEPT !.kind = "full", !.schema = SchemaOf[v]]

----------------------------------------------------------------------------
VARIABLES
    journal,    \* operation.json
    active,     \* active.json: the recorded release
    previous,   \* previous.json: the last successful operation
    env,        \* whether .env exists
    panel,      \* the panel container: its image and whether it runs
    data,       \* the data directory
    snap,       \* operations/<id>/data-backup
    staged,     \* <data>.dockge-restore-<id>
    failed,     \* <data>.dockge-failed-<id>
    restore,    \* the restore container and the operation it serves
    lock,       \* the flocks of the project and of the data path
    pc, op, seen, opt,  \* per process: position, operation in memory,
                        \* files read before the lock, command line
    nextId, writes, faults  \* bounded counters

files == <<journal, active, previous, env>>
dirs  == <<data, snap, staged, failed>>
local == <<op, seen, opt>>
vars  == <<files, panel, dirs, restore, lock, pc, local, nextId, writes, faults>>

NoRestore == [id |-> None, step |-> "none"]
RestoreSteps == {"none", "copy", "rename", "swap", "ok", "failed"}

NoOptions == [kind |-> "none", to |-> None, restore |-> FALSE, auto |-> FALSE]
Options == [kind : {"none", "install", "update", "rollback", "resume"},
            to : Versions \cup {None},
            restore : BOOLEAN,   \* --restore-data
            auto : BOOLEAN]      \* --restore-on-failed-start

Unlocked == {"idle", "prepare", "rb-begin", "resume-begin"}
Locked == {"fetch", "preflight", "recheck", "stop", "stopped", "copy", "copied",
           "up", "started", "check", "record-previous", "record-active",
           "record-success", "rec-stop", "rec-required", "rec-up", "rec-check",
           "rec-done", "auto-check", "restore", "restore-wait",
           "rb-stop", "rb-up", "rb-check", "rb-active", "rb-done"}

FilesOK ==
    /\ journal \in Operation /\ previous \in Operation
    /\ active \in Versions \cup {None}
    /\ env \in BOOLEAN
DockerOK ==
    /\ panel \in [image : Versions \cup {None}, running : BOOLEAN]
    /\ restore \in [id : Ids \cup {None}, step : RestoreSteps]
DirsOK ==
    /\ data \in Dir
    /\ snap \in [Ids -> Dir] /\ staged \in [Ids -> Dir] /\ failed \in [Ids -> Dir]
ProcsOK ==
    /\ lock \in Procs \cup {NoProc}
    /\ pc \in [Procs -> Unlocked \cup Locked]
    /\ op \in [Procs -> Operation]
    /\ seen \in [Procs -> [journal : Operation, active : Versions \cup {None}]]
    /\ opt \in [Procs -> Options]
BoundsOK ==
    nextId \in 1..(MaxOps + 1) /\ writes \in 0..MaxWrites /\ faults \in 0..MaxFaults

\* What files, directories, containers, locks and processes may hold.
TypeOK == FilesOK /\ DockerOK /\ DirsOK /\ ProcsOK /\ BoundsOK

\* Nothing is installed, or a release runs: one the updater manages, or a
\* legacy one without .dockge2 state.
Init ==
    /\ journal = NoOperation /\ previous = NoOperation
    /\ \/ /\ panel = [image |-> None, running |-> FALSE]
          /\ data = Absent /\ active = None /\ env = FALSE /\ writes = 0
       \/ \E v \in Versions :
             /\ panel = [image |-> v, running |-> TRUE]
             /\ data = [kind |-> "full", schema |-> SchemaOf[v], gen |-> 1]
             /\ active \in {v, None}
             /\ env = TRUE /\ writes = 1
    /\ snap = [i \in Ids |-> Absent]
    /\ staged = [i \in Ids |-> Absent]
    /\ failed = [i \in Ids |-> Absent]
    /\ restore = NoRestore
    /\ lock = NoProc
    /\ pc = [p \in Procs |-> "idle"]
    /\ op = [p \in Procs |-> NoOperation]
    /\ seen = [p \in Procs |-> [journal |-> NoOperation, active |-> None]]
    /\ opt = [p \in Procs |-> NoOptions]
    /\ nextId = 1 /\ faults = 0

----------------------------------------------------------------------------
(* Building blocks of the steps *)

At(p, label) == pc[p] = label
Goto(p, label) == pc' = [pc EXCEPT ![p] = label]
Hold(p, o) == op' = [op EXCEPT ![p] = o]

\* A step that fails, out of MaxFaults of them.
Fault == faults < MaxFaults /\ faults' = faults + 1
NoFault == faults' = faults

\* A process starts with a command line and reads the state files.
Command(kind, to, withData, auto) ==
    [kind |-> kind, to |-> to, restore |-> withData, auto |-> auto]
Invoked(p, command, label) ==
    /\ opt' = [opt EXCEPT ![p] = command]
    /\ seen' = [seen EXCEPT ![p] = [journal |-> journal, active |-> active]]
    /\ Goto(p, label)

\* The process ends: the kernel drops its flocks.
Exit(p) ==
    /\ Goto(p, "idle")
    /\ lock' = IF lock = p THEN NoProc ELSE lock
    /\ op' = [op EXCEPT ![p] = NoOperation]
    /\ seen' = [seen EXCEPT ![p] = [journal |-> NoOperation, active |-> None]]
    /\ opt' = [opt EXCEPT ![p] = NoOptions]

\* writeJournal with a new phase: atomicWrite renames a flushed file.
Write(o) == journal' = o
Phase(o, phase) == [o EXCEPT !.phase = phase]

\* The operation ends with a last journal write.
Finish(p, phase) ==
    /\ Write(Phase(op[p], phase))
    /\ Exit(p)

\* save(phase) and go on.
Save(p, phase, label) ==
    /\ Write(Phase(op[p], phase))
    /\ Hold(p, Phase(op[p], phase))
    /\ Goto(p, label)
    /\ UNCHANGED <<lock, seen, opt>>

\* recoverFailure removes a copy that is not verified, if it can.
KeepsBackupMutant(o) == FALSE
KeepsBackup(o) == o.verified

\* recoverFailure is entered with the operation in memory, whose phase may be
\* one the journal never got; copies are the backups on disk at that moment.
\* Only a target that may have started is stopped first.
EnterRecovery(p, o, copies) ==
    /\ Hold(p, o)
    /\ \/ snap' = copies
       \/ ~KeepsBackup(o) /\ snap' = [copies EXCEPT ![o.id] = Absent]
    /\ Goto(p, IF MayHaveStarted(o.phase) THEN "rec-stop" ELSE "rec-up")
    /\ UNCHANGED <<lock, seen, opt>>

----------------------------------------------------------------------------
(* What the commands check once they hold the locks *)

\* Another invocation may have finished since this one read the journal.
JournalUnchangedMutant(p) == TRUE
JournalUnchanged(p) == journal = seen[p].journal

\* While the restore container runs, it has the parent of the data writable.
RestoreRuns == restore.step \in {"copy", "rename", "swap"}

\* otherWriters refuses when a running container has the data, or a directory
\* around it, writable.
OtherWritersMutant == FALSE
OtherWriters == RestoreRuns

\* The panel is the one the operation was about, or there is none.
PanelOf(o) == panel.image \in {None, o.prev, o.target}

\* An interrupted preparation that rollback only marks as failed.
MarkAllowed(o) ==
    /\ o.phase \in {"prepared", "downloaded"}
    /\ panel.image = o.prev

\* mustRestore: the previous release alone could not read the data.
RestoreDemanded(o) ==
    o.restoreData \/ (MayHaveStarted(o.phase) /\ SchemaChanges(o))

\* checkRestore: the snapshot is verified and still there.
SnapshotUsable(o) == o.verified /\ snap[o.id].kind = "full"

RollbackAllowedMutant(o, withData) ==
    /\ o.phase \notin {"prepared", "downloaded", "rolling-back"}
    /\ o.prev # None
    /\ ~OtherWriters
    /\ PanelOf(o)
    /\ RestoreDemanded(o) => withData
    /\ withData => SnapshotUsable(o)
RollbackAllowed(o, withData) ==
    /\ o.phase \notin {"prepared", "downloaded"}
    /\ o.prev # None
    /\ ~OtherWriters
    /\ PanelOf(o)
    /\ RestoreDemanded(o) => withData
    /\ withData => SnapshotUsable(o)

\* The target of an operation whose snapshot was (or began to be) restored is
\* never started again: the markers of the restore belong to the operation.
RestoreBegan(o) == o.restoreData \/ Exists(failed[o.id])

\* Checked before the locks are held ...
ResumeOffered(o) ==
    /\ o.phase \in {"downloaded", "starting-target", "checking-target",
                    "recovery-required"}
    /\ o.prev # None => ~RestoreBegan(o) /\ o.verified
    /\ env

\* ... and under them.
ResumeAllowed(o) ==
    /\ PanelOf(o)
    /\ ~OtherWriters
    /\ o.prev # None => SnapshotUsable(o)

----------------------------------------------------------------------------
(* docker compose stop / up of the panel *)

Stops == panel' = [panel EXCEPT !.running = FALSE]

\* up --wait came back: version v runs, healthy, so it has opened the data.
ComesUp(v) ==
    /\ Usable(Mounted(data), v)
    /\ panel' = [image |-> v, running |-> TRUE]
    /\ data' = Opened(Mounted(data), v)

\* up failed: before the container was replaced, or after it was, with the
\* new one running unhealthy or not at all, having opened the data or not.
UpFails(v) ==
    \/ UNCHANGED <<panel, data>>
    \/ /\ \E b \in BOOLEAN : panel' = [image |-> v, running |-> b]
       /\ \/ data' = Mounted(data)
          \/ Usable(Mounted(data), v) /\ data' = Opened(Mounted(data), v)

\* verifyRuntime: this image runs, answers with its version and stays healthy.
Healthy(v) == panel.running /\ panel.image = v
              /\ data.kind = "full" /\ data.schema = SchemaOf[v]

----------------------------------------------------------------------------
(* Update and first installation: execute *)

Interrupted ==
    /\ active = None /\ journal.phase = "failed-before-cutover"
    /\ journal.prev = None

\* Everything read before the lock: the journal and the active release.  The
\* operator runs the installer, or the updater of an existing installation.
UpdateBegin(p) ==
    /\ At(p, "idle")
    /\ journal.id = None \/ journal.phase \in Final
    /\ \E v \in Versions, auto \in BOOLEAN :
         \/ env /\ Invoked(p, Command("update", v, FALSE, auto), "prepare")
         \/ /\ active = None /\ (env => Interrupted)
            /\ Invoked(p, Command("install", v, FALSE, FALSE), "prepare")
    /\ UNCHANGED <<files, panel, dirs, restore, lock, op, nextId, writes, faults>>

\* The panel found by its Compose labels agrees with what is recorded.
IdentityHolds(p) ==
    IF opt[p].kind = "update"
    THEN /\ panel.image # None
         /\ IF active = None THEN panel.running ELSE active = panel.image
         /\ opt[p].to >= panel.image
    ELSE /\ panel.image = None
         /\ data.kind \in {"absent", "empty"}

\* Under the locks everything is read again; then the operation is recorded.
UpdatePrepare(p) ==
    /\ At(p, "prepare")
    /\ lock = NoProc
    /\ JournalUnchanged(p) /\ active = seen[p].active
    /\ IdentityHolds(p)
    /\ ~OtherWriters
    /\ nextId <= MaxOps
    /\ LET o == [id |-> nextId, phase |-> "prepared", prev |-> panel.image,
                 legacy |-> panel.image # None /\ active = None,
                 target |-> opt[p].to, verified |-> FALSE, restoreData |-> FALSE]
       IN Write(o) /\ Hold(p, o)
    /\ lock' = p
    /\ nextId' = nextId + 1
    /\ Goto(p, "fetch")
    /\ UNCHANGED <<active, previous, env, panel, dirs, restore, seen, opt,
                   writes, faults>>

\* Any refusal before an operation is recorded: a check, a busy lock, a dry
\* run, a "no".  Nothing was written.
Refuse(p) ==
    /\ pc[p] \in {"prepare", "rb-begin", "resume-begin"}
    /\ Exit(p)
    /\ UNCHANGED <<files, panel, dirs, restore, nextId, writes, faults>>

\* The image is tagged, pulled and checked.
Fetch(p) ==
    /\ At(p, "fetch")
    /\ \/ Save(p, "downloaded", "preflight") /\ NoFault /\ UNCHANGED active
       \/ \* the same image and configuration: only active.json is refreshed
          /\ active # None /\ op[p].target = op[p].prev
          /\ active' = op[p].target
          /\ Finish(p, "success") /\ NoFault
       \/ Finish(p, "failed-before-cutover") /\ Fault /\ UNCHANGED active
    /\ UNCHANGED <<previous, env, panel, dirs, restore, nextId, writes>>

\* A first installation makes its directories and writes .env.
Preflight(p) ==
    /\ At(p, "preflight")
    /\ LET made == IF opt[p].kind = "install" THEN Mounted(data) ELSE data
       IN \/ /\ data' = made /\ env' = (env \/ opt[p].kind = "install")
             /\ Goto(p, "recheck") /\ NoFault
             /\ UNCHANGED <<journal, lock, local>>
          \/ /\ data' \in {data, made} /\ UNCHANGED env
             /\ Finish(p, "failed-before-cutover") /\ Fault
    /\ UNCHANGED <<active, previous, panel, snap, staged, failed, restore, nextId,
                   writes>>

\* The last checks before the panel is touched.
Recheck(p) ==
    /\ At(p, "recheck")
    /\ \/ /\ ~OtherWriters /\ NoFault
          /\ Save(p, "stopping", IF op[p].prev = None THEN "copied" ELSE "stop")
       \/ Finish(p, "failed-before-cutover") /\ Fault
    /\ UNCHANGED <<active, previous, env, panel, dirs, restore, nextId, writes>>

Stop(p) ==
    /\ At(p, "stop")
    /\ \/ /\ Stops /\ Goto(p, "stopped") /\ NoFault
          /\ UNCHANGED <<lock, local, snap>>
       \/ /\ Stops \/ UNCHANGED panel
          /\ EnterRecovery(p, op[p], snap) /\ Fault
    /\ UNCHANGED <<files, data, staged, failed, restore, nextId, writes>>

\* The space check and save("backing-up").
Stopped(p) ==
    /\ At(p, "stopped")
    /\ \/ Save(p, "backing-up", "copy") /\ NoFault /\ UNCHANGED snap
       \/ \E phase \in {"stopping", "backing-up"} :
             /\ EnterRecovery(p, Phase(op[p], phase), snap) /\ Fault
             /\ UNCHANGED journal
    /\ UNCHANGED <<active, previous, env, panel, data, staged, failed, restore,
                   nextId, writes>>

\* copyTreeContext, checkSnapshot, recordSnapshot.  The verified flag is only
\* in memory until the next journal write.
Copy(p) ==
    /\ At(p, "copy")
    /\ \/ /\ snap' = [snap EXCEPT ![op[p].id] = data]
          /\ Hold(p, [op[p] EXCEPT !.verified = TRUE])
          /\ Goto(p, "copied") /\ NoFault /\ UNCHANGED <<lock, seen, opt>>
       \/ /\ EnterRecovery(p, op[p], [snap EXCEPT ![op[p].id] = Partial])
          /\ Fault
    /\ UNCHANGED <<files, panel, data, staged, failed, restore, nextId, writes>>

Copied(p) ==
    /\ At(p, "copied")
    /\ \/ Save(p, "starting-target", "up") /\ NoFault /\ UNCHANGED snap
       \/ /\ EnterRecovery(p, Phase(op[p], "starting-target"), snap) /\ Fault
          /\ UNCHANGED journal
    /\ UNCHANGED <<active, previous, env, panel, data, staged, failed, restore,
                   nextId, writes>>

\* compose up of the target, in an update and in a resume.
Up(p) ==
    /\ At(p, "up")
    /\ \/ /\ ComesUp(op[p].target) /\ NoFault
          /\ Goto(p, IF opt[p].kind = "resume" THEN "check" ELSE "started")
          /\ UNCHANGED <<lock, local, snap>>
       \/ UpFails(op[p].target) /\ EnterRecovery(p, op[p], snap) /\ Fault
    /\ UNCHANGED <<files, staged, failed, restore, nextId, writes>>

Started(p) ==
    /\ At(p, "started")
    /\ \/ Save(p, "checking-target", "check") /\ NoFault /\ UNCHANGED snap
       \/ /\ EnterRecovery(p, Phase(op[p], "checking-target"), snap) /\ Fault
          /\ UNCHANGED journal
    /\ UNCHANGED <<active, previous, env, panel, data, staged, failed, restore,
                   nextId, writes>>

Check(p) ==
    /\ At(p, "check")
    /\ \/ /\ Healthy(op[p].target) /\ NoFault
          /\ Goto(p, IF op[p].prev = None THEN "record-active" ELSE "record-previous")
          /\ UNCHANGED <<lock, local, snap>>
       \/ EnterRecovery(p, op[p], snap) /\ Fault
    /\ UNCHANGED <<files, panel, data, staged, failed, restore, nextId, writes>>

RecordPrevious(p) ==
    /\ At(p, "record-previous")
    /\ previous' = op[p]
    /\ Goto(p, "record-active")
    /\ UNCHANGED <<journal, active, env, panel, dirs, restore, lock, local,
                   nextId, writes, faults>>

RecordActive(p) ==
    /\ At(p, "record-active")
    /\ active' = op[p].target
    /\ Goto(p, "record-success")
    /\ UNCHANGED <<journal, previous, env, panel, dirs, restore, lock, local,
                   nextId, writes, faults>>

RecordSuccess(p) ==
    /\ At(p, "record-success")
    /\ Finish(p, "success")
    /\ UNCHANGED <<active, previous, env, panel, dirs, restore, nextId, writes, faults>>

----------------------------------------------------------------------------
(* Automatic recovery of a failed update or resume: recoverFailure and      *)
(* restoreAfterFailedStart                                                  *)

\* With the target stopped: the data copy, the operator, or the previous
\* release as it is.
AfterTargetStopped(p) ==
    IF op[p].prev = None THEN "rec-required"
    ELSE IF ~SchemaChanges(op[p]) THEN "rec-up"
    ELSE IF opt[p].auto THEN "auto-check" ELSE "rec-required"

RecStop(p) ==
    /\ At(p, "rec-stop")
    /\ \/ Stops /\ Goto(p, AfterTargetStopped(p)) /\ NoFault
       \/ (Stops \/ UNCHANGED panel) /\ Goto(p, "rec-required") /\ Fault
    /\ UNCHANGED <<files, dirs, restore, lock, local, nextId, writes>>

RecRequiredMutant(p) ==
    /\ At(p, "rec-required")
    /\ Finish(p, "failed")
    /\ UNCHANGED <<active, previous, env, panel, dirs, restore, nextId, writes, faults>>
RecRequired(p) ==
    /\ At(p, "rec-required")
    /\ Finish(p, "recovery-required")
    /\ UNCHANGED <<active, previous, env, panel, dirs, restore, nextId, writes, faults>>

RecUp(p) ==
    /\ At(p, "rec-up")
    /\ \/ ComesUp(op[p].prev) /\ Goto(p, "rec-check") /\ NoFault
       \/ UpFails(op[p].prev) /\ Goto(p, "rec-required") /\ Fault
    /\ UNCHANGED <<files, snap, staged, failed, restore, lock, local, nextId, writes>>

RecCheck(p) ==
    /\ At(p, "rec-check")
    /\ \/ Healthy(op[p].prev) /\ Goto(p, "rec-done") /\ NoFault
       \/ Goto(p, "rec-required") /\ Fault
    /\ UNCHANGED <<files, panel, dirs, restore, lock, local, nextId, writes>>

\* active.json is not written here: it still names what it named before.
RecDone(p) ==
    /\ At(p, "rec-done")
    /\ Finish(p, "recovered")
    /\ UNCHANGED <<active, previous, env, panel, dirs, restore, nextId, writes, faults>>

\* checkRestore, then the intent to restore is journaled before it begins.  The
\* flag stays in memory when that journal write fails.
AutoCheck(p) ==
    /\ At(p, "auto-check")
    /\ \/ LET o == [Phase(op[p], "rolling-back") EXCEPT !.restoreData = TRUE]
          IN /\ SnapshotUsable(op[p]) /\ NoFault
             /\ Write(o) /\ Hold(p, o) /\ Goto(p, "restore")
       \/ \E b \in BOOLEAN :
             /\ Hold(p, [op[p] EXCEPT !.restoreData = b]) /\ Fault
             /\ Goto(p, "rec-required") /\ UNCHANGED journal
    /\ UNCHANGED <<active, previous, env, panel, dirs, restore, lock, seen, opt,
                   nextId, writes>>

----------------------------------------------------------------------------
(* The restore container *)

\* A failed restore: an update needs recovery, a rollback just ends.
RestoreEnds(p) ==
    IF opt[p].kind = "rollback"
    THEN Exit(p)
    ELSE Goto(p, "rec-required") /\ UNCHANGED <<lock, local>>

\* docker run of the restore under its fixed name.
RestoreStart(p) ==
    /\ At(p, "restore")
    /\ \/ /\ restore.step = "none" /\ NoFault
          /\ restore' = [id |-> op[p].id, step |-> "copy"]
          /\ Goto(p, "restore-wait") /\ UNCHANGED <<lock, local>>
       \/ \* the daemon still removes the container of an earlier restore
          restore.id = op[p].id /\ RestoreEnds(p) /\ NoFault /\ UNCHANGED restore
       \/ RestoreEnds(p) /\ Fault /\ UNCHANGED restore
    /\ UNCHANGED <<files, panel, dirs, nextId, writes>>

\* The data of this operation was already moved aside by an earlier attempt.
MovedAsideMutant(i) == FALSE
MovedAside(i) == Exists(failed[i])

\* In the container: copy the snapshot beside the data ...
RestoreCopy ==
    /\ restore.step = "copy"
    /\ IF MovedAside(restore.id)
       THEN /\ restore' = [restore EXCEPT !.step = "swap"]
            /\ UNCHANGED staged
       ELSE /\ restore' = [restore EXCEPT !.step = "rename"]
            /\ staged' = [staged EXCEPT ![restore.id] = snap[restore.id]]
    /\ UNCHANGED <<files, panel, data, snap, failed, lock, pc, local, nextId,
                   writes, faults>>

\* ... move the data aside ...
RestoreRename ==
    /\ restore.step = "rename"
    /\ Exists(data)
    /\ failed' = [failed EXCEPT ![restore.id] = data]
    /\ data' = Absent
    /\ restore' = [restore EXCEPT !.step = "swap"]
    /\ UNCHANGED <<files, panel, snap, staged, lock, pc, local, nextId, writes,
                   faults>>

\* ... and put the copy in its place, if nothing is there.
RestoreSwap ==
    /\ restore.step = "swap"
    /\ restore' = [restore EXCEPT !.step = "ok"]
    /\ IF Exists(data)
       THEN UNCHANGED <<data, staged>>
       ELSE /\ data' = staged[restore.id]
            /\ staged' = [staged EXCEPT ![restore.id] = Absent]
    /\ UNCHANGED <<files, panel, snap, failed, lock, pc, local, nextId, writes, faults>>

\* What an interrupted container leaves: a copy may be incomplete.
Interrupts ==
    staged' \in {staged} \cup
        (IF restore.step = "copy" /\ ~MovedAside(restore.id)
         THEN {[staged EXCEPT ![restore.id] = Partial]} ELSE {})

\* The container fails, or the host does.
RestoreFails ==
    /\ RestoreRuns
    /\ Interrupts /\ Fault
    /\ restore' = [restore EXCEPT !.step = "failed"]
    /\ UNCHANGED <<files, panel, data, snap, failed, lock, pc, local, nextId, writes>>

\* Nobody waits any more for a finished container: --rm removes it.
RestoreRemoved ==
    /\ restore.step \in {"ok", "failed"}
    /\ \A p \in Procs : ~At(p, "restore-wait")
    /\ restore' = NoRestore
    /\ UNCHANGED <<files, panel, dirs, lock, pc, local, nextId, writes, faults>>

\* runAttended: the container ended; or the deadline passed and it was removed
\* by force; or that could not be confirmed and it may go on writing.
RestoreWaitMutant(p) ==
    /\ At(p, "restore-wait")
    /\ \/ /\ restore.step = "ok" /\ NoFault /\ restore' = NoRestore
          /\ Goto(p, IF opt[p].kind = "rollback" THEN "rb-up" ELSE "rec-up")
          /\ UNCHANGED <<lock, local, staged>>
       \/ /\ RestoreRuns /\ Fault /\ restore' = NoRestore
          /\ RestoreEnds(p) /\ Interrupts
       \/ /\ RestoreRuns /\ Fault /\ Exit(p) /\ UNCHANGED <<restore, staged>>
    /\ UNCHANGED <<files, panel, data, snap, failed, nextId, writes>>
RestoreWait(p) ==
    /\ At(p, "restore-wait")
    /\ \/ /\ restore.step = "ok" /\ NoFault /\ restore' = NoRestore
          /\ Goto(p, IF opt[p].kind = "rollback" THEN "rb-up" ELSE "rec-up")
          /\ UNCHANGED <<lock, local, staged>>
       \/ /\ restore.step = "failed" /\ NoFault /\ restore' = NoRestore
          /\ RestoreEnds(p) /\ UNCHANGED staged
       \/ /\ RestoreRuns /\ Fault /\ restore' = NoRestore
          /\ RestoreEnds(p) /\ Interrupts
       \/ /\ RestoreRuns /\ Fault /\ Exit(p) /\ UNCHANGED <<restore, staged>>
    /\ UNCHANGED <<files, panel, data, snap, failed, nextId, writes>>

----------------------------------------------------------------------------
(* rollback *)

\* Over a finished operation it is the last successful one that is undone.
RollbackBeginMutant(p) ==
    /\ At(p, "idle")
    /\ journal.id # None
    /\ Hold(p, journal)
    /\ \E withData \in BOOLEAN :
         Invoked(p, Command("rollback", None, withData, FALSE), "rb-begin")
    /\ UNCHANGED <<files, panel, dirs, restore, lock, nextId, writes, faults>>
RollbackBegin(p) ==
    /\ At(p, "idle")
    /\ journal.id # None
    /\ LET o == IF journal.phase \in Final THEN previous ELSE journal
       IN o.id # None /\ Hold(p, o)
    /\ \E withData \in BOOLEAN :
         Invoked(p, Command("rollback", None, withData, FALSE), "rb-begin")
    /\ UNCHANGED <<files, panel, dirs, restore, lock, nextId, writes, faults>>

\* An operation that never touched the panel is only marked as failed.
RollbackMark(p) ==
    /\ At(p, "rb-begin")
    /\ lock = NoProc
    /\ JournalUnchanged(p)
    /\ MarkAllowed(op[p])
    /\ Finish(p, "failed-before-cutover")
    /\ UNCHANGED <<active, previous, env, panel, dirs, restore, nextId, writes, faults>>

RollbackPrepare(p) ==
    /\ At(p, "rb-begin")
    /\ lock = NoProc
    /\ JournalUnchanged(p)
    /\ RollbackAllowed(op[p], opt[p].restore)
    /\ LET o == [Phase(op[p], "rolling-back") EXCEPT !.restoreData = opt[p].restore]
       IN Write(o) /\ Hold(p, o)
    /\ lock' = p
    /\ Goto(p, "rb-stop")
    /\ UNCHANGED <<active, previous, env, panel, dirs, restore, seen, opt, nextId,
                   writes, faults>>

RbStop(p) ==
    /\ At(p, "rb-stop")
    /\ \/ /\ Stops /\ NoFault
          /\ Goto(p, IF opt[p].restore THEN "restore" ELSE "rb-up")
          /\ UNCHANGED <<lock, local>>
       \/ (Stops \/ UNCHANGED panel) /\ Exit(p) /\ Fault
    /\ UNCHANGED <<files, dirs, restore, nextId, writes>>

RbUp(p) ==
    /\ At(p, "rb-up")
    /\ \/ ComesUp(op[p].prev) /\ Goto(p, "rb-check") /\ NoFault /\ UNCHANGED <<lock, local>>
       \/ UpFails(op[p].prev) /\ Exit(p) /\ Fault
    /\ UNCHANGED <<files, snap, staged, failed, restore, nextId, writes>>

RbCheck(p) ==
    /\ At(p, "rb-check")
    /\ \/ Healthy(op[p].prev) /\ Goto(p, "rb-active") /\ NoFault /\ UNCHANGED <<lock, local>>
       \/ Exit(p) /\ Fault
    /\ UNCHANGED <<files, panel, dirs, restore, nextId, writes>>

\* A legacy release has no active.json to go back to.
RbActive(p) ==
    /\ At(p, "rb-active")
    /\ active' = IF op[p].legacy THEN None ELSE op[p].prev
    /\ Goto(p, "rb-done")
    /\ UNCHANGED <<journal, previous, env, panel, dirs, restore, lock, local,
                   nextId, writes, faults>>

RbDone(p) ==
    /\ At(p, "rb-done")
    /\ Finish(p, "recovered")
    /\ UNCHANGED <<active, previous, env, panel, dirs, restore, nextId, writes, faults>>

----------------------------------------------------------------------------
(* resumeOperation *)

ResumeBegin(p) ==
    /\ At(p, "idle")
    /\ journal.id # None /\ ResumeOffered(journal)
    /\ Hold(p, journal)
    /\ Invoked(p, Command("resume", None, FALSE, FALSE), "resume-begin")
    /\ UNCHANGED <<files, panel, dirs, restore, lock, nextId, writes, faults>>

ResumePrepare(p) ==
    /\ At(p, "resume-begin")
    /\ lock = NoProc
    /\ JournalUnchanged(p)
    /\ ResumeAllowed(op[p])
    /\ lock' = p
    /\ Write(Phase(op[p], "starting-target"))
    /\ Hold(p, Phase(op[p], "starting-target"))
    /\ Goto(p, "up")
    /\ UNCHANGED <<active, previous, env, panel, dirs, restore, seen, opt, nextId,
                   writes, faults>>

----------------------------------------------------------------------------
(* The environment *)

\* The process ends between two steps, or in the middle of one: a kill, a
\* power loss, or an error the code only returns.  A docker command it ran has
\* its effect or not; a copy stays incomplete.
Die(p) ==
    /\ pc[p] \in Locked
    /\ Exit(p) /\ Fault
    /\ \/ UNCHANGED <<panel, data, snap>>
       \/ /\ At(p, "copy")
          /\ snap' = [snap EXCEPT ![op[p].id] = Partial]
          /\ UNCHANGED <<panel, data>>
       \/ /\ pc[p] \in {"stop", "rec-stop", "rb-stop"}
          /\ Stops /\ UNCHANGED <<data, snap>>
       \/ /\ At(p, "up") /\ UpFails(op[p].target) /\ UNCHANGED snap
       \/ /\ pc[p] \in {"rec-up", "rb-up"}
          /\ UpFails(op[p].prev) /\ UNCHANGED snap
    /\ UNCHANGED <<files, staged, failed, restore, nextId, writes>>

\* A running panel writes its data; a later release migrates it first.
PanelWrites ==
    /\ panel.running
    /\ Usable(data, panel.image)
    /\ writes < MaxWrites
    /\ writes' = writes + 1
    /\ data' = [Opened(data, panel.image) EXCEPT !.gen = writes + 1]
    /\ UNCHANGED <<files, panel, snap, staged, failed, restore, lock, pc, local,
                   nextId, faults>>

----------------------------------------------------------------------------
UpdateStep(p) ==
    \/ Fetch(p) \/ Preflight(p) \/ Recheck(p) \/ Stop(p) \/ Stopped(p)
    \/ Copy(p) \/ Copied(p) \/ Up(p) \/ Started(p) \/ Check(p)
    \/ RecordPrevious(p) \/ RecordActive(p) \/ RecordSuccess(p)
RecoveryStep(p) ==
    RecStop(p) \/ RecRequired(p) \/ RecUp(p) \/ RecCheck(p) \/ RecDone(p) \/ AutoCheck(p)
RollbackStep(p) == RbStop(p) \/ RbUp(p) \/ RbCheck(p) \/ RbActive(p) \/ RbDone(p)

\* What a process does once it holds the locks.
LockedStep(p) ==
    \/ UpdateStep(p) \/ RecoveryStep(p) \/ RollbackStep(p)
    \/ RestoreStart(p) \/ RestoreWait(p)

\* What the operator starts, and what happens before the locks are held.
Invocation(p) ==
    \/ UpdateBegin(p) \/ UpdatePrepare(p) \/ Refuse(p)
    \/ RollbackBegin(p) \/ RollbackMark(p) \/ RollbackPrepare(p)
    \/ ResumeBegin(p) \/ ResumePrepare(p)

RestoreStep == RestoreCopy \/ RestoreRename \/ RestoreSwap \/ RestoreRemoved

Next ==
    \/ \E p \in Procs : Invocation(p) \/ LockedStep(p) \/ Die(p)
    \/ RestoreStep \/ RestoreFails
    \/ PanelWrites

Spec == Init /\ [][Next]_vars

\* Commands have deadlines and the daemon runs a container to its end, so a
\* process that holds the locks and a restore container go on.
Progress ==
    /\ \A p \in Procs : WF_vars(LockedStep(p))
    /\ WF_vars(RestoreStep)

\* An operator who gives `--rollback --restore-data` until it is accepted.
RollbackWithData(p) ==
    RollbackBegin(p) /\ opt'[p].restore /\ journal.phase \notin Final
Insists ==
    \A p \in Procs :
        /\ WF_vars(UpdatePrepare(p) \/ RollbackMark(p) \/ ResumePrepare(p) \/ Refuse(p))
        /\ SF_vars(RollbackWithData(p))
        /\ SF_vars(RollbackPrepare(p) /\ opt[p].restore)

FairSpec == Spec /\ Progress
InsistentSpec == FairSpec /\ Insists

----------------------------------------------------------------------------
(* Properties *)

\* One process holds the locks, and only a process that holds them is past the
\* checks.
LockInv == \A p \in Procs : pc[p] \in Locked <=> lock = p

\* What a step may rely on: the operation in memory is complete where it is
\* used, and every record on disk that names an operation is complete too.
Complete(o) == o.id \in Ids /\ o.target \in Versions
FilesComplete ==
    /\ journal.id # None => Complete(journal)
    /\ journal.id = None <=> journal.phase = "none"
    /\ previous.id # None => Complete(previous)
DockerComplete ==
    /\ restore.step # "none" => restore.id \in Ids
    /\ panel.running => panel.image # None
NeedsPrevious ==
    {"stop", "stopped", "copy", "record-previous", "rec-up", "rec-check", "rec-done",
     "auto-check", "restore", "restore-wait", "rb-stop", "rb-up", "rb-check",
     "rb-active", "rb-done"}
ProcComplete(p) ==
    /\ pc[p] \in Locked \cup {"rb-begin", "resume-begin"} => Complete(op[p])
    /\ pc[p] \in NeedsPrevious => op[p].prev # None
    /\ At(p, "prepare") => opt[p].to \in Versions
    /\ pc[p] \in {"up", "started", "check", "rec-stop"} => MayHaveStarted(op[p].phase)
RecordInv == FilesComplete /\ DockerComplete /\ \A p \in Procs : ProcComplete(p)

\* The phases over which the panel may be down are the ones between stopping
\* it and checking what was started.
Quiet == Final \cup {"none", "prepared", "downloaded"}
PanelUp == panel.image = None \/ panel.running
Untouched == {"fetch", "preflight", "recheck"}
ProcPhase(p) ==
    /\ At(p, "rb-begin") =>
         op[p] = seen[p].journal \/ seen[p].journal.phase \in Final
    /\ At(p, "prepare") => seen[p].journal.phase \in Final \cup {"none"}
    /\ pc[p] \in Untouched => PanelUp
    /\ pc[p] \in Locked \ Untouched => journal.phase \notin Quiet
    /\ pc[p] \in {"record-previous", "record-active", "record-success",
                  "rec-done", "rb-active", "rb-done"} => panel.running
PhaseInv == (journal.phase \in Quiet => PanelUp) /\ \A p \in Procs : ProcPhase(p)

\* The restore container is started over a stopped panel, and its starter waits.
ProcRestore(p) ==
    /\ pc[p] \in {"auto-check", "restore"} => ~panel.running
    /\ RestoreRuns /\ pc[p] \in Locked => At(p, "restore-wait")
RestoreInv ==
    (RestoreRuns => ~panel.running) /\ \A p \in Procs : ProcRestore(p)

\* The inductive invariant of the proofs.
IInv == TypeOK /\ LockInv /\ RecordInv /\ PhaseInv /\ RestoreInv

\* A release is only ever started on the installation's own data, and never on
\* data a later schema has migrated: not by the update, not by its recovery,
\* not by a rollback, whatever failed or was killed before.
StartsOnItsData ==
    \A p \in Procs :
        /\ At(p, "up") =>
             /\ op[p].prev # None => data.kind = "full"
             /\ Usable(data, op[p].target)
        /\ pc[p] \in {"rec-up", "rb-up"} =>
             data.kind = "full" /\ Usable(data, op[p].prev)

\* Nobody else writes the data while the restore container may: neither a
\* running panel nor a second process, also when the process that started the
\* restore is dead and another command has been given.
NoWriterDuringRestore ==
    RestoreRuns =>
        /\ ~panel.running
        /\ \A p \in Procs : pc[p] \in Locked => At(p, "restore-wait")

\* While the data directory does not exist, between the two renames of a
\* restore, the moved data and the complete copy do.
NothingLostBetweenRenames ==
    (panel.image # None /\ ~Exists(data)) =>
        \E i \in Ids : failed[i].kind = "full" /\ staged[i].kind = "full"

\* The panel is only ever down under a journal that says so: a finished phase
\* means that a panel runs.
JournalTellsDowntime ==
    (panel.image # None /\ ~panel.running) =>
        journal.phase \notin Final \cup {"none"}

Idle == \A p \in Procs : At(p, "idle")

\* Once a cutover has a verified snapshot, no sequence of failures, kills and
\* repeated commands leaves it without a way back: when nothing runs any more,
\* rollback with the data is accepted, what it needs is on disk, and its data
\* suits the previous release.
CutoverRecoverable ==
    (Idle /\ ~RestoreRuns /\ journal.verified /\ journal.phase \notin Final) =>
        /\ RollbackAllowed(journal, TRUE)
        /\ Usable(snap[journal.id], journal.prev)
        /\ Exists(data) \/ staged[journal.id] = snap[journal.id]

\* What the panel wrote leaves the data directory only into a directory kept
\* beside it, such a directory is never overwritten or removed, and between the two
\* renames of a restore both the old data and the new are complete.
KeepsWrites ==
    /\ data.kind = "full" =>
         \/ /\ data'.kind = "full"
            /\ data'.gen >= data.gen /\ data'.schema >= data.schema
         \/ \E i \in Ids : failed'[i] = data
    /\ \A i \in Ids : Exists(failed[i]) => failed'[i] = failed[i]
NoSilentDataLoss == [](TypeOK /\ NothingLostBetweenRenames) /\ [][KeepsWrites]_vars

\* The locks are never held for ever: every process that took them ends, with
\* a failing, a hanging or an orphaned restore container too.
LockReleased == \A p \in Procs : (lock = p) ~> (lock # p)

\* A cutover with a verified snapshot comes to an end, with a panel running, if
\* failures stop and the operator insists on the rollback.
RecoveryEnds ==
    (journal.verified /\ journal.phase \notin Final) ~>
        (journal.phase \in Final /\ panel.running)

----------------------------------------------------------------------------
(* What the documentation says and the code does not do                     *)

SomeCommandAccepted ==
    \/ MarkAllowed(journal)
    \/ \E withData \in BOOLEAN : RollbackAllowed(journal, withData)
    \/ ResumeOffered(journal) /\ ResumeAllowed(journal)

LeftPending == Idle /\ restore.step = "none" /\ journal.id # None
                /\ journal.phase \notin Final

\* docs/self-updates.md:169: "Before target startup, the previous panel can be
\* recovered independently of the target schema."  The target is only started
\* over a verified snapshot.
BeforeTargetStartRecoverable ==
    (LeftPending /\ journal.prev # None /\ ~journal.verified) =>
        SomeCommandAccepted

\* docs/self-updates.md:205-206: a failed first installation is retried with
\* --resume "when the initial configuration was written".
FirstInstallRetryable ==
    (LeftPending /\ journal.prev = None /\ env) => SomeCommandAccepted

\* docs/self-updates.md:126: active.json is the "Installed release, actual
\* image ID", whenever no operation is pending.
ActiveMatchesPanel ==
    (journal.phase \in Final /\ lock = NoProc /\ active # None) =>
        active = panel.image
====
