--------------------------- MODULE UpdaterProofs ---------------------------
(***************************************************************************)
(* Proofs about Updater, for any number of processes, releases, schemas,   *)
(* operations, writes and failures.                                        *)
(***************************************************************************)
EXTENDS Updater, TLAPS

----------------------------------------------------------------------------
(* Types of the building blocks                                             *)

LEMMA Types ==
    /\ NoOperation \in Operation
    /\ Absent \in Dir /\ Empty \in Dir /\ Partial \in Dir
    /\ NoRestore \in [id : Ids \cup {None}, step : RestoreSteps]
    /\ NoOptions \in Options
  BY DEF NoOperation, Operation, Phases, Absent, Empty, Partial, Dir, NoRestore,
         RestoreSteps, NoOptions, Options

LEMMA PhaseType ==
  ASSUME NEW o \in Operation, NEW phase \in Phases
  PROVE  /\ Phase(o, phase) \in Operation
         /\ Phase(o, phase).phase = phase
         /\ Phase(o, phase).id = o.id
         /\ Phase(o, phase).prev = o.prev
         /\ Phase(o, phase).target = o.target
  BY DEF Phase, Operation

LEMMA CommandType ==
  ASSUME NEW kind \in {"none", "install", "update", "rollback", "resume"},
         NEW to \in Versions \cup {None},
         NEW withData \in BOOLEAN, NEW auto \in BOOLEAN
  PROVE  /\ Command(kind, to, withData, auto) \in Options
         /\ Command(kind, to, withData, auto).to = to
  BY DEF Options, Command

LEMMA OpenedType ==
  ASSUME NEW d \in Dir, NEW v \in Versions
  PROVE  Mounted(d) \in Dir /\ Opened(Mounted(d), v) \in Dir
  BY Types, SchemaAssumption DEF Mounted, Opened, Dir

Labels == Unlocked \cup Locked

LEMMA InvokedType ==
  ASSUME FilesOK, ProcsOK, NEW p \in Procs, NEW command \in Options,
         NEW label \in Labels, Invoked(p, command, label),
         UNCHANGED lock, op' \in [Procs -> Operation]
  PROVE  ProcsOK'
<1>1. seen' \in [Procs -> [journal : Operation, active : Versions \cup {None}]]
  BY DEF FilesOK, ProcsOK, Invoked
<1>. QED
  BY <1>1 DEF ProcsOK, Invoked, Goto, Labels

LEMMA ExitType ==
  ASSUME ProcsOK, NEW p \in Procs, Exit(p)
  PROVE  ProcsOK'
<1>1. lock' \in Procs \cup {NoProc}
  BY DEF ProcsOK, Exit
<1>2. pc' \in [Procs -> Labels]
  BY DEF ProcsOK, Exit, Goto, Unlocked, Labels
<1>3. op' \in [Procs -> Operation] /\ opt' \in [Procs -> Options]
  BY Types DEF ProcsOK, Exit
<1>4. seen' \in [Procs -> [journal : Operation, active : Versions \cup {None}]]
  BY Types DEF ProcsOK, Exit
<1>. QED BY <1>1, <1>2, <1>3, <1>4 DEF ProcsOK, Labels

LEMMA GotoType ==
  ASSUME ProcsOK, NEW p \in Procs, NEW label \in Labels, Goto(p, label),
         op' \in [Procs -> Operation], UNCHANGED <<seen, opt>>,
         lock' \in Procs \cup {NoProc}
  PROVE  ProcsOK'
  BY DEF ProcsOK, Goto, Labels

LEMMA SaveType ==
  ASSUME ProcsOK, NEW p \in Procs, NEW phase \in Phases, NEW label \in Labels,
         Save(p, phase, label)
  PROVE  ProcsOK' /\ journal' \in Operation
  BY PhaseType DEF ProcsOK, Save, Write, Hold, Goto, Labels

LEMMA FinishType ==
  ASSUME ProcsOK, NEW p \in Procs, NEW phase \in Phases, Finish(p, phase)
  PROVE  ProcsOK' /\ journal' \in Operation
  BY PhaseType, ExitType DEF ProcsOK, Finish, Write

LEMMA EnterRecoveryType ==
  ASSUME ProcsOK, NEW p \in Procs, NEW o \in Operation,
         NEW copies \in [Ids -> Dir], EnterRecovery(p, o, copies)
  PROVE  ProcsOK' /\ snap' \in [Ids -> Dir]
<1>1. snap' \in [Ids -> Dir]
  BY Types DEF EnterRecovery
<1>2. ProcsOK'
  BY DEF ProcsOK, EnterRecovery, Hold, Goto, Labels, Locked
<1>. QED BY <1>1, <1>2

LEMMA StopsType ==
  ASSUME DockerOK, Stops \/ UNCHANGED panel
  PROVE  panel' \in [image : Versions \cup {None}, running : BOOLEAN]
  BY DEF DockerOK, Stops

LEMMA UpType ==
  ASSUME DockerOK, DirsOK, NEW v \in Versions, ComesUp(v) \/ UpFails(v)
  PROVE  /\ panel' \in [image : Versions \cup {None}, running : BOOLEAN]
         /\ data' \in Dir
<1>1. data' \in Dir
  BY OpenedType DEF DirsOK, ComesUp, UpFails
<1>2. panel' \in [image : Versions \cup {None}, running : BOOLEAN]
  <2>1. \A b \in BOOLEAN : [image |-> v, running |-> b]
                               \in [image : Versions \cup {None}, running : BOOLEAN]
    OBVIOUS
  <2>2. panel' = panel \/ \E b \in BOOLEAN : panel' = [image |-> v, running |-> b]
    BY Zenon DEF ComesUp, UpFails
  <2>. QED BY <2>1, <2>2 DEF DockerOK
<1>. QED BY <1>1, <1>2

LEMMA FaultType ==
  ASSUME BoundsOK, Fault \/ NoFault
  PROVE  faults' \in 0..MaxFaults
  BY BoundAssumption DEF BoundsOK, Fault, NoFault

LEMMA RestoreEndsType ==
  ASSUME ProcsOK, NEW p \in Procs, RestoreEnds(p)
  PROVE  ProcsOK'
<1>1. CASE Exit(p)
  BY <1>1, ExitType
<1>2. CASE Goto(p, "rec-required") /\ UNCHANGED <<lock, local>>
  BY <1>2 DEF ProcsOK, Goto, local, Locked
<1>. QED BY <1>1, <1>2 DEF RestoreEnds

----------------------------------------------------------------------------
LEMMA InitInv == Init => IInv
<1>. SUFFICES ASSUME Init PROVE IInv
  OBVIOUS
<1>. USE ProcsAssumption, VersionAssumption, SchemaAssumption, BoundAssumption, Types
<1>1. FilesOK
  <2>1. journal \in Operation /\ previous \in Operation
    BY DEF Init
  <2>2. active \in Versions \cup {None} /\ env \in BOOLEAN
    BY Zenon DEF Init
  <2>. QED BY <2>1, <2>2 DEF FilesOK
<1>2. DockerOK
  <2>1. \E v \in Versions \cup {None}, b \in BOOLEAN :
          panel = [image |-> v, running |-> b]
    BY Zenon DEF Init
  <2>2. panel \in [image : Versions \cup {None}, running : BOOLEAN]
    BY <2>1
  <2>. QED BY <2>2 DEF Init, DockerOK
<1>3. DirsOK
  <2>1. \A v \in Versions : [kind |-> "full", schema |-> SchemaOf[v], gen |-> 1] \in Dir
    BY DEF Dir
  <2>2. data = Absent \/ \E v \in Versions :
          data = [kind |-> "full", schema |-> SchemaOf[v], gen |-> 1]
    BY Zenon DEF Init
  <2>3. data \in Dir
    BY <2>1, <2>2
  <2>. QED BY <2>3 DEF Init, DirsOK
<1>4. ProcsOK
  BY DEF Init, ProcsOK, Unlocked
<1>5. BoundsOK
  BY DEF Init, BoundsOK
<1>6. LockInv
  BY DEF Init, LockInv, Locked
<1>7. RecordInv
  BY DEF Init, RecordInv, FilesComplete, DockerComplete, ProcComplete, NoOperation,
         NoRestore, NeedsPrevious, Locked, None, At
<1>8. PhaseInv
  BY DEF Init, PhaseInv, ProcPhase, PanelUp, Untouched, Locked, None, At
<1>9. RestoreInv
  BY DEF Init, RestoreInv, ProcRestore, RestoreRuns, NoRestore, Locked, At
<1>. QED
  BY <1>1, <1>2, <1>3, <1>4, <1>5, <1>6, <1>7, <1>8, <1>9 DEF IInv, TypeOK

----------------------------------------------------------------------------
(* Types: one step per action                                               *)

LEMMA UpdateTypes ==
  ASSUME IInv, NEW p \in Procs, UpdateStep(p)
  PROVE  TypeOK'
<1>. USE DEF Labels, Locked, Unlocked, Phases, files, dirs, local
<1>a. FilesOK /\ DockerOK /\ DirsOK /\ ProcsOK /\ BoundsOK
  BY DEF IInv, TypeOK
<1>b. op[p] \in Operation /\ data \in Dir /\ snap \in [Ids -> Dir]
  BY <1>a DEF ProcsOK, DirsOK
<1>c. pc[p] \in Locked => op[p].id \in Ids /\ op[p].target \in Versions
  BY DEF IInv, RecordInv, ProcComplete, Complete
<1>1. CASE Fetch(p)
  <2>1. ProcsOK' /\ journal' \in Operation
    BY <1>1, <1>a, SaveType, FinishType DEF Fetch
  <2>2. active' \in Versions \cup {None}
    BY <1>1, <1>a, <1>c DEF Fetch, FilesOK, At
  <2>3. BoundsOK'
    BY <1>1, <1>a, FaultType DEF Fetch, BoundsOK
  <2>. QED BY <1>1, <1>a, <2>1, <2>2, <2>3
        DEF Fetch, TypeOK, FilesOK, DockerOK, DirsOK
<1>2. CASE Preflight(p)
  <2>1. ProcsOK' /\ journal' \in Operation
    BY <1>2, <1>a, GotoType, FinishType DEF Preflight, ProcsOK, FilesOK
  <2>2. data' \in Dir
    BY <1>2, <1>b, Types DEF Preflight, Mounted
  <2>3. env' \in BOOLEAN
    BY <1>2, <1>a, Zenon DEF Preflight, FilesOK
  <2>4. BoundsOK'
    BY <1>2, <1>a, FaultType DEF Preflight, BoundsOK
  <2>. QED BY <1>2, <1>a, <2>1, <2>2, <2>3, <2>4
        DEF Preflight, TypeOK, FilesOK, DockerOK, DirsOK
<1>3. CASE Recheck(p)
  <2>1. ProcsOK' /\ journal' \in Operation
    BY <1>3, <1>a, SaveType, FinishType DEF Recheck
  <2>2. BoundsOK'
    BY <1>3, <1>a, FaultType DEF Recheck, BoundsOK
  <2>. QED BY <1>3, <1>a, <2>1, <2>2
        DEF Recheck, TypeOK, FilesOK, DockerOK, DirsOK
<1>4. CASE Stop(p)
  <2>1. ProcsOK' /\ snap' \in [Ids -> Dir]
    BY <1>4, <1>a, <1>b, GotoType, EnterRecoveryType DEF Stop, ProcsOK
  <2>2. DockerOK'
    BY <1>4, <1>a, StopsType DEF Stop, DockerOK
  <2>3. BoundsOK'
    BY <1>4, <1>a, FaultType DEF Stop, BoundsOK
  <2>. QED BY <1>4, <1>a, <2>1, <2>2, <2>3
        DEF Stop, TypeOK, FilesOK, DirsOK
<1>5. CASE Stopped(p)
  <2>1. ProcsOK' /\ journal' \in Operation /\ snap' \in [Ids -> Dir]
    BY <1>5, <1>a, <1>b, PhaseType, SaveType, EnterRecoveryType DEF Stopped, FilesOK
  <2>2. BoundsOK'
    BY <1>5, <1>a, FaultType DEF Stopped, BoundsOK
  <2>. QED BY <1>5, <1>a, <2>1, <2>2
        DEF Stopped, TypeOK, FilesOK, DockerOK, DirsOK
<1>6. CASE Copy(p)
  <2>1. [op[p] EXCEPT !.verified = TRUE] \in Operation
    BY <1>b DEF Operation
  <2>2. [snap EXCEPT ![op[p].id] = Partial] \in [Ids -> Dir]
    BY <1>b, Types
  <2>3. ProcsOK' /\ snap' \in [Ids -> Dir]
    BY <1>6, <1>a, <1>b, <2>1, <2>2, EnterRecoveryType
       DEF Copy, ProcsOK, Hold, Goto
  <2>4. BoundsOK'
    BY <1>6, <1>a, FaultType DEF Copy, BoundsOK
  <2>. QED BY <1>6, <1>a, <2>3, <2>4
        DEF Copy, TypeOK, FilesOK, DockerOK, DirsOK
<1>7. CASE Copied(p)
  <2>1. ProcsOK' /\ journal' \in Operation /\ snap' \in [Ids -> Dir]
    BY <1>7, <1>a, <1>b, PhaseType, SaveType, EnterRecoveryType DEF Copied, FilesOK
  <2>2. BoundsOK'
    BY <1>7, <1>a, FaultType DEF Copied, BoundsOK
  <2>. QED BY <1>7, <1>a, <2>1, <2>2
        DEF Copied, TypeOK, FilesOK, DockerOK, DirsOK
<1>8. CASE Up(p)
  <2>1. ProcsOK' /\ snap' \in [Ids -> Dir]
    BY <1>8, <1>a, <1>b, GotoType, EnterRecoveryType DEF Up, ProcsOK
  <2>2. DockerOK' /\ data' \in Dir
    BY <1>8, <1>a, <1>c, UpType DEF Up, DockerOK, At
  <2>3. BoundsOK'
    BY <1>8, <1>a, FaultType DEF Up, BoundsOK
  <2>. QED BY <1>8, <1>a, <2>1, <2>2, <2>3
        DEF Up, TypeOK, FilesOK, DirsOK
<1>9. CASE Started(p)
  <2>1. ProcsOK' /\ journal' \in Operation /\ snap' \in [Ids -> Dir]
    BY <1>9, <1>a, <1>b, PhaseType, SaveType, EnterRecoveryType DEF Started, FilesOK
  <2>2. BoundsOK'
    BY <1>9, <1>a, FaultType DEF Started, BoundsOK
  <2>. QED BY <1>9, <1>a, <2>1, <2>2
        DEF Started, TypeOK, FilesOK, DockerOK, DirsOK
<1>10. CASE Check(p)
  <2>1. ProcsOK' /\ snap' \in [Ids -> Dir]
    BY <1>10, <1>a, <1>b, GotoType, EnterRecoveryType DEF Check, ProcsOK
  <2>2. BoundsOK'
    BY <1>10, <1>a, FaultType DEF Check, BoundsOK
  <2>. QED BY <1>10, <1>a, <2>1, <2>2
        DEF Check, TypeOK, FilesOK, DockerOK, DirsOK
<1>11. CASE RecordPrevious(p)
  <2>1. ProcsOK'
    BY <1>11, <1>a, GotoType DEF RecordPrevious, ProcsOK
  <2>. QED BY <1>11, <1>a, <1>b, <2>1
        DEF RecordPrevious, TypeOK, FilesOK, DockerOK, DirsOK, BoundsOK
<1>12. CASE RecordActive(p)
  <2>1. ProcsOK'
    BY <1>12, <1>a, GotoType DEF RecordActive, ProcsOK
  <2>. QED BY <1>12, <1>a, <1>c, <2>1
        DEF RecordActive, TypeOK, FilesOK, DockerOK, DirsOK, BoundsOK, At
<1>13. CASE RecordSuccess(p)
  <2>1. ProcsOK' /\ journal' \in Operation
    BY <1>13, <1>a, FinishType DEF RecordSuccess
  <2>. QED BY <1>13, <1>a, <2>1
        DEF RecordSuccess, TypeOK, FilesOK, DockerOK, DirsOK, BoundsOK
<1>. QED
  BY <1>1, <1>2, <1>3, <1>4, <1>5, <1>6, <1>7, <1>8, <1>9, <1>10, <1>11, <1>12,
     <1>13 DEF UpdateStep

LEMMA RecoveryTypes ==
  ASSUME IInv, NEW p \in Procs, RecoveryStep(p)
  PROVE  TypeOK'
<1>. USE DEF Labels, Locked, Unlocked, Phases, files, dirs, local
<1>a. FilesOK /\ DockerOK /\ DirsOK /\ ProcsOK /\ BoundsOK
  BY DEF IInv, TypeOK
<1>b. op[p] \in Operation
  BY <1>a DEF ProcsOK
<1>c. pc[p] \in NeedsPrevious => op[p].prev \in Versions
  BY <1>b DEF IInv, RecordInv, ProcComplete, Operation
<1>1. CASE RecStop(p)
  <2>1. ProcsOK'
    BY <1>1, <1>a, GotoType DEF RecStop, AfterTargetStopped, ProcsOK
  <2>2. DockerOK'
    BY <1>1, <1>a, StopsType DEF RecStop, DockerOK
  <2>3. BoundsOK'
    BY <1>1, <1>a, FaultType DEF RecStop, BoundsOK
  <2>. QED BY <1>1, <1>a, <2>1, <2>2, <2>3 DEF RecStop, TypeOK, FilesOK, DirsOK
<1>2. CASE RecRequired(p)
  <2>1. ProcsOK' /\ journal' \in Operation
    BY <1>2, <1>a, FinishType DEF RecRequired
  <2>. QED BY <1>2, <1>a, <2>1
        DEF RecRequired, TypeOK, FilesOK, DockerOK, DirsOK, BoundsOK
<1>3. CASE RecUp(p)
  <2>1. ProcsOK'
    BY <1>3, <1>a, GotoType DEF RecUp, ProcsOK
  <2>2. DockerOK' /\ data' \in Dir
    BY <1>3, <1>a, <1>c, UpType DEF RecUp, DockerOK, At, NeedsPrevious
  <2>3. BoundsOK'
    BY <1>3, <1>a, FaultType DEF RecUp, BoundsOK
  <2>. QED BY <1>3, <1>a, <2>1, <2>2, <2>3 DEF RecUp, TypeOK, FilesOK, DirsOK
<1>4. CASE RecCheck(p)
  <2>1. ProcsOK'
    BY <1>4, <1>a, GotoType DEF RecCheck, ProcsOK
  <2>2. BoundsOK'
    BY <1>4, <1>a, FaultType DEF RecCheck, BoundsOK
  <2>. QED BY <1>4, <1>a, <2>1, <2>2 DEF RecCheck, TypeOK, FilesOK, DockerOK, DirsOK
<1>5. CASE RecDone(p)
  <2>1. ProcsOK' /\ journal' \in Operation
    BY <1>5, <1>a, FinishType DEF RecDone
  <2>. QED BY <1>5, <1>a, <2>1
        DEF RecDone, TypeOK, FilesOK, DockerOK, DirsOK, BoundsOK
<1>6. CASE AutoCheck(p)
  <2>1. [Phase(op[p], "rolling-back") EXCEPT !.restoreData = TRUE] \in Operation
    BY <1>b DEF Phase, Operation
  <2>2. \A b \in BOOLEAN : [op[p] EXCEPT !.restoreData = b] \in Operation
    BY <1>b DEF Operation
  <2>3. ProcsOK' /\ journal' \in Operation
    BY <1>6, <1>a, <2>1, <2>2 DEF AutoCheck, ProcsOK, FilesOK, Hold, Goto, Write
  <2>4. BoundsOK'
    BY <1>6, <1>a, FaultType DEF AutoCheck, BoundsOK
  <2>. QED BY <1>6, <1>a, <2>3, <2>4 DEF AutoCheck, TypeOK, FilesOK, DockerOK, DirsOK
<1>. QED
  BY <1>1, <1>2, <1>3, <1>4, <1>5, <1>6 DEF RecoveryStep

LEMMA RollbackTypes ==
  ASSUME IInv, NEW p \in Procs, RollbackStep(p)
  PROVE  TypeOK'
<1>. USE DEF Labels, Locked, Unlocked, Phases, files, dirs, local
<1>a. FilesOK /\ DockerOK /\ DirsOK /\ ProcsOK /\ BoundsOK
  BY DEF IInv, TypeOK
<1>b. op[p] \in Operation
  BY <1>a DEF ProcsOK
<1>c. pc[p] \in NeedsPrevious => op[p].prev \in Versions
  BY <1>b DEF IInv, RecordInv, ProcComplete, Operation
<1>1. CASE RbStop(p)
  <2>1. ProcsOK'
    BY <1>1, <1>a, GotoType, ExitType DEF RbStop, ProcsOK
  <2>2. DockerOK'
    BY <1>1, <1>a, StopsType DEF RbStop, DockerOK
  <2>3. BoundsOK'
    BY <1>1, <1>a, FaultType DEF RbStop, BoundsOK
  <2>. QED BY <1>1, <1>a, <2>1, <2>2, <2>3 DEF RbStop, TypeOK, FilesOK, DirsOK
<1>2. CASE RbUp(p)
  <2>1. ProcsOK'
    BY <1>2, <1>a, GotoType, ExitType DEF RbUp, ProcsOK
  <2>2. DockerOK' /\ data' \in Dir
    BY <1>2, <1>a, <1>c, UpType DEF RbUp, DockerOK, At, NeedsPrevious
  <2>3. BoundsOK'
    BY <1>2, <1>a, FaultType DEF RbUp, BoundsOK
  <2>. QED BY <1>2, <1>a, <2>1, <2>2, <2>3 DEF RbUp, TypeOK, FilesOK, DirsOK
<1>3. CASE RbCheck(p)
  <2>1. ProcsOK'
    BY <1>3, <1>a, GotoType, ExitType DEF RbCheck, ProcsOK
  <2>2. BoundsOK'
    BY <1>3, <1>a, FaultType DEF RbCheck, BoundsOK
  <2>. QED BY <1>3, <1>a, <2>1, <2>2 DEF RbCheck, TypeOK, FilesOK, DockerOK, DirsOK
<1>4. CASE RbActive(p)
  <2>1. ProcsOK'
    BY <1>4, <1>a, GotoType DEF RbActive, ProcsOK
  <2>2. active' \in Versions \cup {None}
    BY <1>4, <1>c DEF RbActive, At, NeedsPrevious
  <2>. QED BY <1>4, <1>a, <2>1, <2>2
        DEF RbActive, TypeOK, FilesOK, DockerOK, DirsOK, BoundsOK
<1>5. CASE RbDone(p)
  <2>1. ProcsOK' /\ journal' \in Operation
    BY <1>5, <1>a, FinishType DEF RbDone
  <2>. QED BY <1>5, <1>a, <2>1
        DEF RbDone, TypeOK, FilesOK, DockerOK, DirsOK, BoundsOK
<1>. QED
  BY <1>1, <1>2, <1>3, <1>4, <1>5 DEF RollbackStep

LEMMA InterruptsType ==
  ASSUME DirsOK, Interrupts
  PROVE  staged' \in [Ids -> Dir]
  BY Types DEF DirsOK, Interrupts

LEMMA RestoreTypes ==
  ASSUME IInv, RestoreStep \/ RestoreFails
               \/ \E p \in Procs : RestoreStart(p) \/ RestoreWait(p)
  PROVE  TypeOK'
<1>. USE DEF Labels, Locked, Unlocked, RestoreSteps, files, dirs, local
<1>a. FilesOK /\ DockerOK /\ DirsOK /\ ProcsOK /\ BoundsOK
  BY DEF IInv, TypeOK
<1>b. restore.step # "none" => restore.id \in Ids
  BY DEF IInv, RecordInv, DockerComplete
<1>1. CASE RestoreCopy
  <2>1. staged' \in [Ids -> Dir]
    BY <1>1, <1>a, <1>b DEF RestoreCopy, DirsOK
  <2>2. DockerOK'
    BY <1>1, <1>a DEF RestoreCopy, DockerOK
  <2>. QED BY <1>1, <1>a, <2>1, <2>2
        DEF RestoreCopy, TypeOK, FilesOK, DirsOK, ProcsOK, BoundsOK
<1>2. CASE RestoreRename
  <2>1. failed' \in [Ids -> Dir] /\ data' \in Dir
    BY <1>2, <1>a, Types DEF RestoreRename, DirsOK
  <2>2. DockerOK'
    BY <1>2, <1>a DEF RestoreRename, DockerOK
  <2>. QED BY <1>2, <1>a, <2>1, <2>2
        DEF RestoreRename, TypeOK, FilesOK, DirsOK, ProcsOK, BoundsOK
<1>3. CASE RestoreSwap
  <2>1. staged' \in [Ids -> Dir] /\ data' \in Dir
    BY <1>3, <1>a, <1>b, Types DEF RestoreSwap, DirsOK
  <2>2. DockerOK'
    BY <1>3, <1>a DEF RestoreSwap, DockerOK
  <2>. QED BY <1>3, <1>a, <2>1, <2>2
        DEF RestoreSwap, TypeOK, FilesOK, DirsOK, ProcsOK, BoundsOK
<1>4. CASE RestoreRemoved
  BY <1>4, <1>a, Types
     DEF RestoreRemoved, TypeOK, FilesOK, DockerOK, DirsOK, ProcsOK, BoundsOK
<1>5. CASE RestoreFails
  <2>1. DirsOK'
    BY <1>5, <1>a, InterruptsType DEF RestoreFails, DirsOK
  <2>2. DockerOK'
    BY <1>5, <1>a DEF RestoreFails, DockerOK
  <2>3. BoundsOK'
    BY <1>5, <1>a, FaultType DEF RestoreFails, BoundsOK
  <2>. QED BY <1>5, <1>a, <2>1, <2>2, <2>3
        DEF RestoreFails, TypeOK, FilesOK, ProcsOK
<1>6. ASSUME NEW p \in Procs, RestoreStart(p) PROVE TypeOK'
  <2>1. ProcsOK'
    BY <1>6, <1>a, GotoType, RestoreEndsType DEF RestoreStart, ProcsOK
  <2>2. op[p].id \in Ids
    BY <1>6 DEF IInv, RecordInv, ProcComplete, Complete, RestoreStart, At
  <2>3. DockerOK'
    BY <1>6, <1>a, <2>2 DEF RestoreStart, DockerOK
  <2>4. BoundsOK'
    BY <1>6, <1>a, FaultType DEF RestoreStart, BoundsOK
  <2>. QED BY <1>6, <1>a, <2>1, <2>3, <2>4
        DEF RestoreStart, TypeOK, FilesOK, DirsOK
<1>7. ASSUME NEW p \in Procs, RestoreWait(p) PROVE TypeOK'
  <2>1. ProcsOK'
    BY <1>7, <1>a, GotoType, ExitType, RestoreEndsType DEF RestoreWait, ProcsOK
  <2>2. DirsOK'
    BY <1>7, <1>a, InterruptsType DEF RestoreWait, DirsOK
  <2>3. DockerOK'
    BY <1>7, <1>a, Types DEF RestoreWait, DockerOK
  <2>4. BoundsOK'
    BY <1>7, <1>a, FaultType DEF RestoreWait, BoundsOK
  <2>. QED BY <1>7, <1>a, <2>1, <2>2, <2>3, <2>4 DEF RestoreWait, TypeOK, FilesOK
<1>. QED
  BY <1>1, <1>2, <1>3, <1>4, <1>5, <1>6, <1>7 DEF RestoreStep

LEMMA InvocationTypes ==
  ASSUME IInv, NEW p \in Procs, Invocation(p)
  PROVE  TypeOK'
<1>. USE DEF Labels, Locked, Unlocked, Phases, files, dirs, local
<1>a. FilesOK /\ DockerOK /\ DirsOK /\ ProcsOK /\ BoundsOK
  BY DEF IInv, TypeOK
<1>b. op[p] \in Operation
  BY <1>a DEF ProcsOK
<1>1. CASE UpdateBegin(p)
  <2>1. ProcsOK'
    BY <1>1, <1>a, InvokedType, CommandType DEF UpdateBegin, ProcsOK
  <2>. QED BY <1>1, <1>a, <2>1
        DEF UpdateBegin, TypeOK, FilesOK, DockerOK, DirsOK, BoundsOK
<1>2. CASE UpdatePrepare(p)
  <2>1. PICK o : /\ o = [id |-> nextId, phase |-> "prepared", prev |-> panel.image,
                         legacy |-> panel.image # None /\ active = None,
                         target |-> opt[p].to, verified |-> FALSE, restoreData |-> FALSE]
                 /\ Write(o) /\ Hold(p, o)
    BY <1>2 DEF UpdatePrepare
  <2>2. nextId \in Ids /\ nextId' \in 1..(MaxOps + 1)
    BY <1>2, <1>a, BoundAssumption DEF UpdatePrepare, Ids, BoundsOK
  <2>3. (panel.image # None /\ active = None) \in BOOLEAN
    OBVIOUS
  <2>4. panel.image \in Versions \cup {None} /\ opt[p].to \in Versions \cup {None}
    BY <1>a DEF DockerOK, ProcsOK, Options
  <2>5. o \in Operation
    BY <2>1, <2>2, <2>3, <2>4 DEF Operation
  <2>6. ProcsOK' /\ journal' \in Operation
    BY <1>2, <1>a, <2>1, <2>5, GotoType DEF UpdatePrepare, Write, Hold, ProcsOK
  <2>. QED BY <1>2, <1>a, <2>2, <2>6
        DEF UpdatePrepare, TypeOK, FilesOK, DockerOK, DirsOK, BoundsOK
<1>3. CASE Refuse(p)
  <2>1. ProcsOK'
    BY <1>3, <1>a, ExitType DEF Refuse
  <2>. QED BY <1>3, <1>a, <2>1
        DEF Refuse, TypeOK, FilesOK, DockerOK, DirsOK, BoundsOK
<1>4. CASE RollbackBegin(p)
  <2>1. op' \in [Procs -> Operation]
    BY <1>4, <1>a DEF RollbackBegin, Hold, ProcsOK, FilesOK
  <2>2. ProcsOK'
    BY <1>4, <1>a, <2>1, InvokedType, CommandType DEF RollbackBegin
  <2>. QED BY <1>4, <1>a, <2>2
        DEF RollbackBegin, TypeOK, FilesOK, DockerOK, DirsOK, BoundsOK
<1>5. CASE RollbackMark(p)
  <2>1. ProcsOK' /\ journal' \in Operation
    BY <1>5, <1>a, FinishType DEF RollbackMark
  <2>. QED BY <1>5, <1>a, <2>1
        DEF RollbackMark, TypeOK, FilesOK, DockerOK, DirsOK, BoundsOK
<1>6. CASE RollbackPrepare(p)
  <2>1. PICK o : /\ o = [Phase(op[p], "rolling-back") EXCEPT !.restoreData = opt[p].restore]
                 /\ Write(o) /\ Hold(p, o)
    BY <1>6 DEF RollbackPrepare
  <2>2. opt[p].restore \in BOOLEAN
    BY <1>a DEF ProcsOK, Options
  <2>3. o \in Operation
    BY <1>b, <2>1, <2>2 DEF Phase, Operation
  <2>4. ProcsOK' /\ journal' \in Operation
    BY <1>6, <1>a, <2>1, <2>3, GotoType DEF RollbackPrepare, Write, Hold, ProcsOK
  <2>. QED BY <1>6, <1>a, <2>4
        DEF RollbackPrepare, TypeOK, FilesOK, DockerOK, DirsOK, BoundsOK
<1>7. CASE ResumeBegin(p)
  <2>1. op' \in [Procs -> Operation]
    BY <1>7, <1>a DEF ResumeBegin, Hold, ProcsOK, FilesOK
  <2>2. ProcsOK'
    BY <1>7, <1>a, <2>1, InvokedType, CommandType DEF ResumeBegin
  <2>. QED BY <1>7, <1>a, <2>2
        DEF ResumeBegin, TypeOK, FilesOK, DockerOK, DirsOK, BoundsOK
<1>8. CASE ResumePrepare(p)
  <2>1. Phase(op[p], "starting-target") \in Operation
    BY <1>b, PhaseType
  <2>2. ProcsOK' /\ journal' \in Operation
    BY <1>8, <1>a, <2>1, GotoType DEF ResumePrepare, Write, Hold, ProcsOK
  <2>. QED BY <1>8, <1>a, <2>2
        DEF ResumePrepare, TypeOK, FilesOK, DockerOK, DirsOK, BoundsOK
<1>. QED
  BY <1>1, <1>2, <1>3, <1>4, <1>5, <1>6, <1>7, <1>8 DEF Invocation

LEMMA DieTypes ==
  ASSUME IInv, NEW p \in Procs, Die(p)
  PROVE  TypeOK'
<1>. USE DEF Locked, files, dirs
<1>a. FilesOK /\ DockerOK /\ DirsOK /\ ProcsOK /\ BoundsOK
  BY DEF IInv, TypeOK
<1>b. op[p] \in Operation
  BY <1>a DEF ProcsOK
<1>c. Complete(op[p]) /\ (pc[p] \in NeedsPrevious => op[p].prev \in Versions)
  BY <1>b DEF IInv, RecordInv, ProcComplete, Operation, Die
<1>1. ProcsOK'
  BY <1>a, ExitType DEF Die
<1>2. panel' \in [image : Versions \cup {None}, running : BOOLEAN] /\ data' \in Dir
  <2>1. CASE UNCHANGED <<panel, data>>
    BY <2>1, <1>a DEF DockerOK, DirsOK
  <2>2. CASE Stops /\ UNCHANGED data
    BY <2>2, <1>a, StopsType DEF DirsOK
  <2>3. CASE UpFails(op[p].target)
    BY <2>3, <1>a, <1>c, UpType DEF Complete
  <2>4. CASE pc[p] \in {"rec-up", "rb-up"} /\ UpFails(op[p].prev)
    BY <2>4, <1>a, <1>c, UpType DEF NeedsPrevious
  <2>. QED BY <2>1, <2>2, <2>3, <2>4 DEF Die
<1>3. snap' \in [Ids -> Dir]
  BY <1>a, Types DEF Die, DirsOK
<1>4. BoundsOK'
  BY <1>a, FaultType DEF Die, BoundsOK
<1>. QED BY <1>a, <1>1, <1>2, <1>3, <1>4 DEF Die, TypeOK, FilesOK, DockerOK, DirsOK

LEMMA PanelTypes ==
  ASSUME IInv, PanelWrites
  PROVE  TypeOK'
<1>. USE DEF files, local
<1>a. FilesOK /\ DockerOK /\ DirsOK /\ ProcsOK /\ BoundsOK
  BY DEF IInv, TypeOK
<1>1. panel.image \in Versions
  BY <1>a DEF PanelWrites, IInv, RecordInv, DockerComplete, DockerOK
<1>2. writes' \in 0..MaxWrites /\ writes + 1 \in Nat
  BY <1>a, BoundAssumption DEF PanelWrites, BoundsOK
<1>3. data' \in Dir
  BY <1>a, <1>1, <1>2, SchemaAssumption DEF PanelWrites, DirsOK, Opened, Dir
<1>. QED BY <1>a, <1>2, <1>3
      DEF PanelWrites, TypeOK, FilesOK, DockerOK, DirsOK, ProcsOK, BoundsOK

LEMMA TypeStep == IInv /\ [Next]_vars => TypeOK'
<1>. SUFFICES ASSUME IInv, [Next]_vars PROVE TypeOK'
  OBVIOUS
<1>1. ASSUME NEW p \in Procs, Invocation(p) PROVE TypeOK'
  BY <1>1, InvocationTypes
<1>2. ASSUME NEW p \in Procs, LockedStep(p) PROVE TypeOK'
  BY <1>2, UpdateTypes, RecoveryTypes, RollbackTypes, RestoreTypes DEF LockedStep
<1>3. ASSUME NEW p \in Procs, Die(p) PROVE TypeOK'
  BY <1>3, DieTypes
<1>4. CASE RestoreStep \/ RestoreFails
  BY <1>4, RestoreTypes
<1>5. CASE PanelWrites
  BY <1>5, PanelTypes
<1>6. CASE UNCHANGED vars
  BY <1>6 DEF IInv, TypeOK, FilesOK, DockerOK, DirsOK, ProcsOK, BoundsOK, vars,
              files, dirs, local
<1>. QED BY <1>1, <1>2, <1>3, <1>4, <1>5, <1>6 DEF Next

----------------------------------------------------------------------------
(* What a step of one process leaves alone, and where it goes               *)

LEMMA OthersKeep ==
  ASSUME ProcsOK, NEW p \in Procs, Invocation(p) \/ LockedStep(p) \/ Die(p),
         NEW q \in Procs \ {p}
  PROVE  pc'[q] = pc[q] /\ op'[q] = op[q] /\ opt'[q] = opt[q] /\ seen'[q] = seen[q]
<1>. USE DEF ProcsOK, Goto, Hold, Exit, Invoked, Save, Finish, EnterRecovery, local
<1>1. CASE Invocation(p)
  BY <1>1 DEF Invocation, UpdateBegin, UpdatePrepare, Refuse, RollbackBegin,
     RollbackMark, RollbackPrepare, ResumeBegin, ResumePrepare
<1>2. CASE UpdateStep(p)
  BY <1>2 DEF UpdateStep, Fetch, Preflight, Recheck, Stop, Stopped, Copy, Copied,
     Up, Started, Check, RecordPrevious, RecordActive, RecordSuccess
<1>3. CASE RecoveryStep(p)
  BY <1>3 DEF RecoveryStep, RecStop, RecRequired, RecUp, RecCheck, RecDone, AutoCheck
<1>4. CASE RollbackStep(p)
  BY <1>4 DEF RollbackStep, RbStop, RbUp, RbCheck, RbActive, RbDone
<1>5. CASE RestoreStart(p) \/ RestoreWait(p)
  BY <1>5 DEF RestoreStart, RestoreWait, RestoreEnds
<1>6. CASE Die(p)
  BY <1>6 DEF Die
<1>. QED BY <1>1, <1>2, <1>3, <1>4, <1>5, <1>6 DEF LockedStep

LEMMA LockedMoves ==
  ASSUME ProcsOK, NEW p \in Procs, LockedStep(p)
  PROVE  /\ pc[p] \in Locked
         /\ Exit(p) \/ (pc'[p] \in Locked /\ UNCHANGED <<lock, seen, opt>>)
<1>. USE DEF ProcsOK, At, Goto, Locked, Save, Finish, EnterRecovery, local
<1>2. CASE UpdateStep(p)
  BY <1>2 DEF UpdateStep, Fetch, Preflight, Recheck, Stop, Stopped, Copy, Copied,
     Up, Started, Check, RecordPrevious, RecordActive, RecordSuccess
<1>3. CASE RecoveryStep(p)
  BY <1>3 DEF RecoveryStep, RecStop, RecRequired, RecUp, RecCheck, RecDone, AutoCheck,
     AfterTargetStopped
<1>4. CASE RollbackStep(p)
  BY <1>4 DEF RollbackStep, RbStop, RbUp, RbCheck, RbActive, RbDone
<1>5. CASE RestoreStart(p) \/ RestoreWait(p)
  BY <1>5 DEF RestoreStart, RestoreWait, RestoreEnds
<1>. QED BY <1>2, <1>3, <1>4, <1>5 DEF LockedStep

\* Before it holds the locks a process only takes them, when they are free, or
\* stays without them.
LEMMA InvocationMoves ==
  ASSUME ProcsOK, LockInv, NEW p \in Procs, Invocation(p)
  PROVE  \/ pc'[p] \in Locked /\ lock = NoProc /\ lock' = p
         \/ pc[p] \notin Locked /\ pc'[p] \notin Locked /\ lock' = lock
<1>. USE DEF ProcsOK, LockInv, At, Goto, Exit, Invoked, Finish, Locked
<1>1. CASE UpdateBegin(p) \/ RollbackBegin(p) \/ ResumeBegin(p)
  BY <1>1 DEF UpdateBegin, RollbackBegin, ResumeBegin
<1>2. CASE UpdatePrepare(p) \/ RollbackPrepare(p) \/ ResumePrepare(p)
  BY <1>2 DEF UpdatePrepare, RollbackPrepare, ResumePrepare
<1>3. CASE Refuse(p) \/ RollbackMark(p)
  BY <1>3, ProcsAssumption DEF Refuse, RollbackMark
<1>. QED BY <1>1, <1>2, <1>3 DEF Invocation

LEMMA LockStep == IInv /\ [Next]_vars => LockInv'
<1>. SUFFICES ASSUME IInv, [Next]_vars PROVE LockInv'
  OBVIOUS
<1>a. ProcsOK /\ LockInv
  BY DEF IInv, TypeOK
<1>b. \A p \in Procs : p # NoProc
  BY ProcsAssumption
<1>1. ASSUME NEW p \in Procs, Invocation(p) PROVE LockInv'
  BY <1>1, <1>a, <1>b, InvocationMoves, OthersKeep DEF LockInv
<1>2. ASSUME NEW p \in Procs, LockedStep(p) PROVE LockInv'
  <2>1. \A q \in Procs \ {p} : pc'[q] = pc[q]
    BY <1>2, <1>a, OthersKeep
  <2>2. CASE Exit(p)
    BY <2>1, <2>2, <1>2, <1>a, <1>b, LockedMoves
       DEF LockInv, Exit, Goto, ProcsOK, Locked
  <2>3. CASE pc'[p] \in Locked /\ lock' = lock
    BY <2>1, <2>3, <1>2, <1>a, LockedMoves DEF LockInv
  <2>. QED BY <2>2, <2>3, <1>2, <1>a, LockedMoves
<1>3. ASSUME NEW p \in Procs, Die(p) PROVE LockInv'
  <2>1. \A q \in Procs \ {p} : pc'[q] = pc[q]
    BY <1>3, <1>a, OthersKeep
  <2>. QED BY <2>1, <1>3, <1>a, <1>b DEF LockInv, Die, Exit, Goto, ProcsOK, Locked
<1>4. CASE RestoreStep \/ RestoreFails \/ PanelWrites
  BY <1>4, <1>a DEF RestoreStep, RestoreCopy, RestoreRename, RestoreSwap,
     RestoreRemoved, RestoreFails, PanelWrites, LockInv
<1>5. CASE UNCHANGED vars
  BY <1>5, <1>a DEF LockInv, vars
<1>. QED BY <1>1, <1>2, <1>3, <1>4, <1>5 DEF Next

----------------------------------------------------------------------------
(* Records: what a step uses of an operation is there                       *)

LEMMA OthersComplete ==
  ASSUME IInv, NEW p \in Procs, Invocation(p) \/ LockedStep(p) \/ Die(p)
  PROVE  \A q \in Procs \ {p} : ProcComplete(q)'
<1>1. ProcsOK /\ \A q \in Procs : ProcComplete(q)
  BY DEF IInv, TypeOK, RecordInv
<1>. QED BY <1>1, OthersKeep DEF ProcComplete, At

LEMMA IdleComplete ==
  ASSUME ProcsOK, NEW p \in Procs, Exit(p)
  PROVE  ProcComplete(p)'
  BY DEF ProcsOK, ProcComplete, Exit, Goto, At, Locked, NeedsPrevious

LEMMA CompletePhase ==
  ASSUME NEW o \in Operation, NEW phase \in Phases \ {"none"}, Complete(o)
  PROVE  /\ Complete(Phase(o, phase)) /\ Phase(o, phase).prev = o.prev
         /\ Phase(o, phase).id # None /\ Phase(o, phase).phase = phase
         /\ Phase(o, phase) \in Operation
  BY PhaseType DEF Complete, Ids, None

\* recoverFailure only starts the previous release without stopping the target
\* when there is a previous release.
LEMMA EnterComplete ==
  ASSUME ProcsOK, NEW p \in Procs, NEW o \in Operation, NEW copies,
         EnterRecovery(p, o, copies), Complete(o),
         MayHaveStarted(o.phase) \/ o.prev # None
  PROVE  ProcComplete(p)'
  BY DEF ProcsOK, ProcComplete, EnterRecovery, Hold, Goto, At, Locked, NeedsPrevious

LEMMA StartedPhases ==
  /\ MayHaveStarted("starting-target") /\ MayHaveStarted("checking-target")
  /\ None \notin Ids /\ None \notin Versions
  BY VersionAssumption, BoundAssumption DEF MayHaveStarted, BeforeStart, None, Ids

LEMMA SaveComplete ==
  ASSUME FilesComplete, ProcsOK, NEW p \in Procs, NEW phase \in Phases \ {"none"},
         NEW label, Complete(op[p]), Save(p, phase, label), previous' = previous
  PROVE  /\ FilesComplete'
         /\ op'[p] = Phase(op[p], phase) /\ pc'[p] = label
         /\ Complete(op'[p]) /\ op'[p].prev = op[p].prev /\ op'[p].phase = phase
<1>1. op[p] \in Operation
  BY DEF ProcsOK
<1>2. op'[p] = Phase(op[p], phase) /\ pc'[p] = label
  BY DEF ProcsOK, Save, Hold, Goto
<1>. QED BY <1>1, <1>2, CompletePhase DEF FilesComplete, Save, Write

LEMMA FinishComplete ==
  ASSUME FilesComplete, ProcsOK, NEW p \in Procs, NEW phase \in Phases \ {"none"},
         Complete(op[p]), Finish(p, phase), previous' = previous
  PROVE  FilesComplete' /\ ProcComplete(p)'
<1>1. op[p] \in Operation
  BY DEF ProcsOK
<1>2. FilesComplete'
  BY <1>1, CompletePhase DEF FilesComplete, Finish, Write
<1>. QED BY <1>2, IdleComplete DEF Finish

LEMMA StopsComplete ==
  ASSUME IInv, Stops \/ UNCHANGED panel, UNCHANGED restore
  PROVE  DockerComplete'
<1>1. DockerOK /\ DockerComplete
  BY DEF IInv, TypeOK, RecordInv
<1>. QED BY <1>1 DEF Stops, DockerComplete, DockerOK

LEMMA UpdateRecords ==
  ASSUME IInv, NEW p \in Procs, UpdateStep(p)
  PROVE  FilesComplete' /\ DockerComplete' /\ ProcComplete(p)'
<1>. USE DEF Phases, files, dirs, local
<1>a. ProcsOK /\ FilesComplete /\ DockerComplete /\ ProcComplete(p)
  BY DEF IInv, TypeOK, RecordInv
<1>b. op[p] \in Operation
  BY <1>a DEF ProcsOK
<1>c. pc[p] \in Locked => Complete(op[p]) /\ op[p].id # None /\ op[p].target # None
  BY <1>a, StartedPhases DEF ProcComplete, Complete
<1>1. CASE Fetch(p)
  <2>1. Complete(op[p])
    BY <1>1, <1>c DEF Fetch, At, Locked
  <2>2. FilesComplete' /\ ProcComplete(p)'
    BY <1>1, <1>a, <2>1, SaveComplete, FinishComplete
       DEF Fetch, ProcComplete, At, NeedsPrevious
  <2>. QED BY <1>1, <1>a, <2>2 DEF Fetch, DockerComplete
<1>2. CASE Preflight(p)
  <2>1. Complete(op[p])
    BY <1>2, <1>c DEF Preflight, At, Locked
  <2>2. FilesComplete' /\ ProcComplete(p)'
    BY <1>2, <1>a, <2>1, FinishComplete
       DEF Preflight, FilesComplete, ProcComplete, ProcsOK, Goto, At, NeedsPrevious
  <2>. QED BY <1>2, <1>a, <2>2 DEF Preflight, DockerComplete
<1>3. CASE Recheck(p)
  <2>1. Complete(op[p])
    BY <1>3, <1>c DEF Recheck, At, Locked
  <2>2. FilesComplete' /\ ProcComplete(p)'
    BY <1>3, <1>a, <2>1, SaveComplete, FinishComplete
       DEF Recheck, ProcComplete, At, NeedsPrevious
  <2>. QED BY <1>3, <1>a, <2>2 DEF Recheck, DockerComplete
<1>4. CASE Stop(p)
  <2>1. Complete(op[p]) /\ op[p].prev # None
    BY <1>4, <1>a, <1>c DEF Stop, At, Locked, ProcComplete, NeedsPrevious
  <2>2. ProcComplete(p)'
    BY <1>4, <1>a, <1>b, <2>1, EnterComplete
       DEF Stop, ProcComplete, ProcsOK, Goto, At, NeedsPrevious
  <2>3. DockerComplete'
    BY <1>4, <1>a, StopsComplete DEF Stop
  <2>. QED BY <1>4, <1>a, <2>2, <2>3 DEF Stop, FilesComplete
<1>5. CASE Stopped(p)
  <2>1. Complete(op[p]) /\ op[p].prev # None
    BY <1>5, <1>a, <1>c DEF Stopped, At, Locked, ProcComplete, NeedsPrevious
  <2>2. FilesComplete' /\ ProcComplete(p)'
    <3>1. CASE Save(p, "backing-up", "copy") /\ UNCHANGED previous
      BY <3>1, <1>a, <2>1, SaveComplete DEF ProcComplete, At, NeedsPrevious
    <3>2. ASSUME NEW phase \in {"stopping", "backing-up"}, UNCHANGED <<journal, previous>>,
                 EnterRecovery(p, Phase(op[p], phase), snap)
          PROVE  FilesComplete' /\ ProcComplete(p)'
      BY <3>2, <1>a, <1>b, <2>1, CompletePhase, EnterComplete DEF FilesComplete
    <3>. QED BY <3>1, <3>2, <1>5 DEF Stopped
  <2>. QED BY <1>5, <1>a, <2>2 DEF Stopped, DockerComplete
<1>6. CASE Copy(p)
  <2>1. Complete(op[p]) /\ op[p].prev # None
    BY <1>6, <1>a, <1>c DEF Copy, At, Locked, ProcComplete, NeedsPrevious
  <2>2. Complete([op[p] EXCEPT !.verified = TRUE])
    BY <1>b, <2>1 DEF Complete, Operation
  <2>3. ProcComplete(p)'
    BY <1>6, <1>a, <1>b, <2>1, <2>2, EnterComplete
       DEF Copy, ProcComplete, ProcsOK, Hold, Goto, At, NeedsPrevious
  <2>. QED BY <1>6, <1>a, <2>3 DEF Copy, FilesComplete, DockerComplete
<1>7. CASE Copied(p)
  <2>1. Complete(op[p])
    BY <1>7, <1>a, <1>c DEF Copied, At, Locked
  <2>2. FilesComplete' /\ ProcComplete(p)'
    <3>1. CASE Save(p, "starting-target", "up") /\ UNCHANGED previous
      BY <3>1, <1>a, <2>1, SaveComplete, StartedPhases DEF ProcComplete, At, NeedsPrevious
    <3>2. CASE /\ EnterRecovery(p, Phase(op[p], "starting-target"), snap)
               /\ UNCHANGED <<journal, previous>>
      BY <3>2, <1>a, <1>b, <2>1, CompletePhase, EnterComplete, StartedPhases
         DEF FilesComplete
    <3>. QED BY <3>1, <3>2, <1>7 DEF Copied
  <2>. QED BY <1>7, <1>a, <2>2 DEF Copied, DockerComplete
<1>8. CASE Up(p)
  <2>1. Complete(op[p]) /\ MayHaveStarted(op[p].phase)
    BY <1>8, <1>a, <1>c DEF Up, At, Locked, ProcComplete
  <2>2. ProcComplete(p)'
    BY <1>8, <1>a, <1>b, <2>1, EnterComplete
       DEF Up, ProcComplete, ProcsOK, Goto, At, NeedsPrevious
  <2>3. DockerComplete'
    BY <1>8, <1>a, <2>1, StartedPhases DEF Up, ComesUp, UpFails, DockerComplete, Complete
  <2>. QED BY <1>8, <1>a, <2>2, <2>3 DEF Up, FilesComplete
<1>9. CASE Started(p)
  <2>1. Complete(op[p])
    BY <1>9, <1>a, <1>c DEF Started, At, Locked
  <2>2. FilesComplete' /\ ProcComplete(p)'
    <3>1. CASE Save(p, "checking-target", "check") /\ UNCHANGED previous
      BY <3>1, <1>a, <2>1, SaveComplete, StartedPhases DEF ProcComplete, At, NeedsPrevious
    <3>2. CASE /\ EnterRecovery(p, Phase(op[p], "checking-target"), snap)
               /\ UNCHANGED <<journal, previous>>
      BY <3>2, <1>a, <1>b, <2>1, CompletePhase, EnterComplete, StartedPhases
         DEF FilesComplete
    <3>. QED BY <3>1, <3>2, <1>9 DEF Started
  <2>. QED BY <1>9, <1>a, <2>2 DEF Started, DockerComplete
<1>10. CASE Check(p)
  <2>1. Complete(op[p]) /\ MayHaveStarted(op[p].phase)
    BY <1>10, <1>a, <1>c DEF Check, At, Locked, ProcComplete
  <2>2. ProcComplete(p)'
    BY <1>10, <1>a, <1>b, <2>1, EnterComplete
       DEF Check, ProcComplete, ProcsOK, Goto, At, NeedsPrevious
  <2>. QED BY <1>10, <1>a, <2>2 DEF Check, FilesComplete, DockerComplete
<1>11. CASE RecordPrevious(p)
  BY <1>11, <1>a, <1>c
     DEF RecordPrevious, FilesComplete, DockerComplete, ProcComplete, ProcsOK, Goto, At,
         Locked, NeedsPrevious
<1>12. CASE RecordActive(p)
  BY <1>12, <1>a, <1>c
     DEF RecordActive, FilesComplete, DockerComplete, ProcComplete, ProcsOK, Goto, At,
         Locked, NeedsPrevious
<1>13. CASE RecordSuccess(p)
  <2>1. Complete(op[p])
    BY <1>13, <1>c DEF RecordSuccess, At, Locked
  <2>. QED BY <1>13, <1>a, <2>1, FinishComplete DEF RecordSuccess, DockerComplete
<1>. QED
  BY <1>1, <1>2, <1>3, <1>4, <1>5, <1>6, <1>7, <1>8, <1>9, <1>10, <1>11, <1>12,
     <1>13 DEF UpdateStep

LEMMA RecoveryRecords ==
  ASSUME IInv, NEW p \in Procs, RecoveryStep(p)
  PROVE  FilesComplete' /\ DockerComplete' /\ ProcComplete(p)'
<1>. USE DEF Phases, files, dirs, local
<1>a. ProcsOK /\ FilesComplete /\ DockerComplete /\ ProcComplete(p)
  BY DEF IInv, TypeOK, RecordInv
<1>b. op[p] \in Operation
  BY <1>a DEF ProcsOK
<1>c. pc[p] \in Locked => Complete(op[p])
  BY <1>a DEF ProcComplete
<1>1. CASE RecStop(p)
  <2>1. ProcComplete(p)'
    BY <1>1, <1>a, <1>c
       DEF RecStop, AfterTargetStopped, ProcComplete, ProcsOK, Goto, At, Locked, NeedsPrevious
  <2>2. DockerComplete'
    BY <1>1, StopsComplete DEF RecStop
  <2>. QED BY <1>1, <1>a, <2>1, <2>2 DEF RecStop, FilesComplete
<1>2. CASE RecRequired(p)
  <2>1. Complete(op[p])
    BY <1>2, <1>c DEF RecRequired, At, Locked
  <2>. QED BY <1>2, <1>a, <2>1, FinishComplete DEF RecRequired, DockerComplete
<1>3. CASE RecUp(p)
  <2>1. ProcComplete(p)' /\ op[p].prev # None
    BY <1>3, <1>a, <1>c
       DEF RecUp, ProcComplete, ProcsOK, Goto, At, Locked, NeedsPrevious
  <2>2. DockerComplete'
    BY <1>3, <1>a, <2>1 DEF RecUp, ComesUp, UpFails, DockerComplete
  <2>. QED BY <1>3, <1>a, <2>1, <2>2 DEF RecUp, FilesComplete
<1>4. CASE RecCheck(p)
  <2>1. ProcComplete(p)'
    BY <1>4, <1>a, <1>c
       DEF RecCheck, ProcComplete, ProcsOK, Goto, At, Locked, NeedsPrevious
  <2>. QED BY <1>4, <1>a, <2>1 DEF RecCheck, FilesComplete, DockerComplete
<1>5. CASE RecDone(p)
  <2>1. Complete(op[p])
    BY <1>5, <1>c DEF RecDone, At, Locked
  <2>. QED BY <1>5, <1>a, <2>1, FinishComplete DEF RecDone, DockerComplete
<1>6. CASE AutoCheck(p)
  <2>1. Complete(op[p]) /\ op[p].prev # None
    BY <1>6, <1>a, <1>c DEF AutoCheck, At, Locked, ProcComplete, NeedsPrevious
  <2>2. CASE LET o == [Phase(op[p], "rolling-back") EXCEPT !.restoreData = TRUE]
             IN Write(o) /\ Hold(p, o) /\ Goto(p, "restore")
    <3>1. PICK o : /\ o = [Phase(op[p], "rolling-back") EXCEPT !.restoreData = TRUE]
                   /\ Write(o) /\ Hold(p, o) /\ Goto(p, "restore")
      BY <2>2
    <3>2. Complete(o) /\ o.id # None /\ o.prev # None /\ o.phase = "rolling-back"
      BY <3>1, <2>1, <1>b, StartedPhases DEF Complete, Phase, Operation
    <3>. QED BY <3>1, <3>2, <1>6, <1>a
          DEF AutoCheck, FilesComplete, DockerComplete, ProcComplete, ProcsOK, Write, Hold,
              Goto, At, NeedsPrevious
  <2>3. ASSUME NEW b \in BOOLEAN, Hold(p, [op[p] EXCEPT !.restoreData = b]),
               Goto(p, "rec-required"), UNCHANGED journal
        PROVE  FilesComplete' /\ DockerComplete' /\ ProcComplete(p)'
    <3>1. Complete([op[p] EXCEPT !.restoreData = b])
      BY <2>1, <1>b DEF Complete, Operation
    <3>. QED BY <2>3, <3>1, <1>6, <1>a
          DEF AutoCheck, FilesComplete, DockerComplete, ProcComplete, ProcsOK, Hold,
              Goto, At, NeedsPrevious
  <2>. QED BY <2>2, <2>3, <1>6 DEF AutoCheck
<1>. QED
  BY <1>1, <1>2, <1>3, <1>4, <1>5, <1>6 DEF RecoveryStep

LEMMA RollbackRecords ==
  ASSUME IInv, NEW p \in Procs, RollbackStep(p) \/ RestoreStart(p) \/ RestoreWait(p)
  PROVE  FilesComplete' /\ DockerComplete' /\ ProcComplete(p)'
<1>. USE DEF Phases, files, dirs, local
<1>a. ProcsOK /\ FilesComplete /\ DockerComplete /\ ProcComplete(p)
  BY DEF IInv, TypeOK, RecordInv
<1>b. pc[p] \in Locked => Complete(op[p])
  BY <1>a DEF ProcComplete
<1>1. CASE RbStop(p)
  <2>1. ProcComplete(p)'
    BY <1>1, <1>a, <1>b, IdleComplete
       DEF RbStop, ProcComplete, ProcsOK, Goto, At, Locked, NeedsPrevious
  <2>2. DockerComplete'
    BY <1>1, StopsComplete DEF RbStop
  <2>. QED BY <1>1, <1>a, <2>1, <2>2 DEF RbStop, FilesComplete
<1>2. CASE RbUp(p)
  <2>1. ProcComplete(p)' /\ op[p].prev # None
    BY <1>2, <1>a, <1>b, IdleComplete
       DEF RbUp, ProcComplete, ProcsOK, Goto, At, Locked, NeedsPrevious
  <2>2. DockerComplete'
    BY <1>2, <1>a, <2>1 DEF RbUp, ComesUp, UpFails, DockerComplete
  <2>. QED BY <1>2, <1>a, <2>1, <2>2 DEF RbUp, FilesComplete
<1>3. CASE RbCheck(p)
  <2>1. ProcComplete(p)'
    BY <1>3, <1>a, <1>b, IdleComplete
       DEF RbCheck, ProcComplete, ProcsOK, Goto, At, Locked, NeedsPrevious
  <2>. QED BY <1>3, <1>a, <2>1 DEF RbCheck, FilesComplete, DockerComplete
<1>4. CASE RbActive(p)
  BY <1>4, <1>a, <1>b
     DEF RbActive, FilesComplete, DockerComplete, ProcComplete, ProcsOK, Goto, At,
         Locked, NeedsPrevious
<1>5. CASE RbDone(p)
  <2>1. Complete(op[p])
    BY <1>5, <1>b DEF RbDone, At, Locked
  <2>. QED BY <1>5, <1>a, <2>1, FinishComplete DEF RbDone, DockerComplete
<1>6. CASE RestoreStart(p)
  <2>1. ProcComplete(p)'
    BY <1>6, <1>a, <1>b, IdleComplete
       DEF RestoreStart, RestoreEnds, ProcComplete, ProcsOK, Goto, At, Locked, NeedsPrevious
  <2>2. op[p].id \in Ids
    BY <1>6, <1>b DEF RestoreStart, At, Locked, Complete
  <2>. QED BY <1>6, <1>a, <2>1, <2>2 DEF RestoreStart, FilesComplete, DockerComplete
<1>7. CASE RestoreWait(p)
  <2>1. ProcComplete(p)'
    BY <1>7, <1>a, <1>b, IdleComplete
       DEF RestoreWait, RestoreEnds, ProcComplete, ProcsOK, Goto, At, Locked, NeedsPrevious
  <2>. QED BY <1>7, <1>a, <2>1
        DEF RestoreWait, NoRestore, FilesComplete, DockerComplete
<1>. QED
  BY <1>1, <1>2, <1>3, <1>4, <1>5, <1>6, <1>7 DEF RollbackStep

LEMMA InvocationRecords ==
  ASSUME IInv, NEW p \in Procs, Invocation(p)
  PROVE  FilesComplete' /\ DockerComplete' /\ ProcComplete(p)'
<1>. USE DEF Phases, files, dirs, local
<1>a. ProcsOK /\ FilesOK /\ FilesComplete /\ DockerComplete /\ ProcComplete(p)
  BY DEF IInv, TypeOK, RecordInv
<1>b. op[p] \in Operation
  BY <1>a DEF ProcsOK
<1>1. CASE UpdateBegin(p)
  <2>1. \A v \in Versions, a \in BOOLEAN : Command("update", v, FALSE, a).to = v
                                     /\ Command("install", v, FALSE, FALSE).to = v
    BY DEF Command
  <2>2. PICK c : c.to \in Versions /\ Invoked(p, c, "prepare")
    BY <1>1, <2>1, Zenon DEF UpdateBegin
  <2>3. opt'[p] = c /\ pc'[p] = "prepare"
    BY <1>a, <2>2 DEF Invoked, Goto, ProcsOK
  <2>4. ProcComplete(p)'
    BY <2>2, <2>3 DEF ProcComplete, At, Locked, NeedsPrevious
  <2>. QED BY <1>1, <1>a, <2>4 DEF UpdateBegin, FilesComplete, DockerComplete
<1>2. CASE UpdatePrepare(p)
  <2>1. PICK o : /\ o = [id |-> nextId, phase |-> "prepared", prev |-> panel.image,
                         legacy |-> panel.image # None /\ active = None,
                         target |-> opt[p].to, verified |-> FALSE, restoreData |-> FALSE]
                 /\ Write(o) /\ Hold(p, o)
    BY <1>2 DEF UpdatePrepare
  <2>2. nextId \in Ids
    BY <1>2, BoundAssumption DEF UpdatePrepare, Ids, BoundsOK, IInv, TypeOK
  <2>3. Complete(o) /\ o.id # None /\ o.phase = "prepared"
    BY <1>2, <1>a, <2>1, <2>2, StartedPhases DEF UpdatePrepare, Complete, ProcComplete, At
  <2>. QED BY <1>2, <1>a, <2>1, <2>3
        DEF UpdatePrepare, FilesComplete, DockerComplete, ProcComplete, ProcsOK, Write, Hold,
            Goto, At, NeedsPrevious
<1>3. CASE Refuse(p)
  BY <1>3, <1>a, IdleComplete DEF Refuse, FilesComplete, DockerComplete
<1>4. CASE RollbackBegin(p)
  <2>1. ProcComplete(p)'
    BY <1>4, <1>a
       DEF RollbackBegin, Invoked, Hold, FilesComplete, ProcComplete, ProcsOK, Goto, At,
           Locked, NeedsPrevious
  <2>. QED BY <1>4, <1>a, <2>1 DEF RollbackBegin, FilesComplete, DockerComplete
<1>5. CASE RollbackMark(p)
  <2>1. Complete(op[p])
    BY <1>5, <1>a DEF RollbackMark, ProcComplete, At
  <2>. QED BY <1>5, <1>a, <2>1, FinishComplete DEF RollbackMark, DockerComplete
<1>6. CASE RollbackPrepare(p)
  <2>1. PICK o : /\ o = [Phase(op[p], "rolling-back") EXCEPT !.restoreData = opt[p].restore]
                 /\ Write(o) /\ Hold(p, o)
    BY <1>6 DEF RollbackPrepare
  <2>2. Complete(op[p]) /\ op[p].prev # None
    BY <1>6, <1>a DEF RollbackPrepare, RollbackAllowed, ProcComplete, At
  <2>3. Complete(o) /\ o.id # None /\ o.prev # None /\ o.phase = "rolling-back"
    BY <2>1, <2>2, <1>b, StartedPhases DEF Complete, Phase, Operation
  <2>. QED BY <1>6, <1>a, <2>1, <2>3
        DEF RollbackPrepare, FilesComplete, DockerComplete, ProcComplete, ProcsOK, Write,
            Hold, Goto, At, NeedsPrevious
<1>7. CASE ResumeBegin(p)
  <2>1. ProcComplete(p)'
    BY <1>7, <1>a
       DEF ResumeBegin, Invoked, Hold, FilesComplete, ProcComplete, ProcsOK, Goto, At,
           Locked, NeedsPrevious
  <2>. QED BY <1>7, <1>a, <2>1 DEF ResumeBegin, FilesComplete, DockerComplete
<1>8. CASE ResumePrepare(p)
  <2>1. Complete(op[p])
    BY <1>8, <1>a DEF ResumePrepare, ProcComplete, At
  <2>. QED BY <1>8, <1>a, <1>b, <2>1, CompletePhase, StartedPhases
        DEF ResumePrepare, FilesComplete, DockerComplete, ProcComplete, ProcsOK, Write,
            Hold, Goto, At, NeedsPrevious
<1>. QED
  BY <1>1, <1>2, <1>3, <1>4, <1>5, <1>6, <1>7, <1>8 DEF Invocation

LEMMA RecordStep == IInv /\ [Next]_vars => RecordInv'
<1>. SUFFICES ASSUME IInv, [Next]_vars PROVE RecordInv'
  OBVIOUS
<1>a. ProcsOK /\ DockerOK /\ FilesComplete /\ DockerComplete /\ \A p \in Procs : ProcComplete(p)
  BY DEF IInv, TypeOK, RecordInv
<1>1. ASSUME NEW p \in Procs, Invocation(p) \/ LockedStep(p) PROVE RecordInv'
  <2>1. FilesComplete' /\ DockerComplete' /\ ProcComplete(p)'
    BY <1>1, InvocationRecords, UpdateRecords, RecoveryRecords, RollbackRecords
       DEF LockedStep
  <2>2. \A q \in Procs \ {p} : ProcComplete(q)'
    BY <1>1, OthersComplete
  <2>. QED BY <2>1, <2>2 DEF RecordInv
<1>2. ASSUME NEW p \in Procs, Die(p) PROVE RecordInv'
  <2>1. FilesComplete' /\ restore' = restore
    BY <1>2, <1>a DEF Die, FilesComplete, files
  <2>2. ProcComplete(p)'
    BY <1>2, <1>a, IdleComplete DEF Die
  <2>3. pc[p] \in {"rec-up", "rb-up"} => op[p].prev # None
    BY <1>a DEF ProcComplete, NeedsPrevious
  <2>4. op[p].target # None
    BY <1>2, <1>a, StartedPhases DEF Die, ProcComplete, Complete
  <2>5. DockerComplete'
    BY <1>2, <1>a, <2>1, <2>3, <2>4 DEF Die, Stops, UpFails, DockerComplete, DockerOK
  <2>6. \A q \in Procs \ {p} : ProcComplete(q)'
    BY <1>2, OthersComplete
  <2>. QED BY <2>1, <2>2, <2>5, <2>6 DEF RecordInv
<1>3. CASE RestoreStep \/ RestoreFails \/ PanelWrites
  <2>1. UNCHANGED <<journal, previous, pc, op, opt, panel>>
    BY <1>3 DEF RestoreStep, RestoreCopy, RestoreRename, RestoreSwap, RestoreRemoved,
       RestoreFails, PanelWrites, files, local
  <2>2. restore'.step # "none" => restore'.id \in Ids
    BY <1>3, <1>a DEF RestoreStep, RestoreCopy, RestoreRename, RestoreSwap,
       RestoreRemoved, RestoreFails, RestoreRuns, PanelWrites, NoRestore, DockerComplete,
       DockerOK
  <2>. QED BY <1>a, <2>1, <2>2
        DEF RecordInv, FilesComplete, DockerComplete, ProcComplete, At
<1>4. CASE UNCHANGED vars
  BY <1>4, <1>a DEF RecordInv, FilesComplete, DockerComplete, ProcComplete, At, vars,
     files, local
<1>. QED BY <1>1, <1>2, <1>3, <1>4 DEF Next

----------------------------------------------------------------------------
(* Phases: the journal tells when the panel may be down                     *)

LEMMA HolderUndisturbed ==
  ASSUME IInv, NEW p \in Procs, Invocation(p) \/ LockedStep(p) \/ Die(p),
         NEW q \in Procs \ {p}, pc[q] \in Locked
  PROVE  UNCHANGED <<journal, panel, restore>>
<1>1. ProcsOK /\ lock = q /\ q # NoProc /\ pc[p] \notin Locked
  BY ProcsAssumption DEF IInv, TypeOK, LockInv
<1>2. Invocation(p)
  BY <1>1, LockedMoves DEF Die
<1>. QED BY <1>1, <1>2 DEF Invocation, UpdateBegin, UpdatePrepare, Refuse, RollbackBegin,
      RollbackMark, RollbackPrepare, ResumeBegin, ResumePrepare, files

LEMMA OthersPhase ==
  ASSUME IInv, NEW p \in Procs, Invocation(p) \/ LockedStep(p) \/ Die(p),
         NEW q \in Procs \ {p}
  PROVE  ProcPhase(q)' /\ (ProcRestore(q) => ProcRestore(q)')
<1>1. ProcsOK /\ ProcPhase(q)
  BY DEF IInv, TypeOK, PhaseInv
<1>2. pc'[q] = pc[q] /\ op'[q] = op[q] /\ seen'[q] = seen[q]
  BY <1>1, OthersKeep
<1>3. CASE pc[q] \in Locked
  BY <1>1, <1>2, <1>3, HolderUndisturbed
     DEF ProcPhase, ProcRestore, RestoreRuns, PanelUp, At, Locked, Untouched
<1>4. CASE pc[q] \notin Locked
  BY <1>1, <1>2, <1>4 DEF ProcPhase, ProcRestore, At, Locked, Untouched
<1>. QED BY <1>3, <1>4

LEMMA IdlePhase ==
  ASSUME ProcsOK, NEW p \in Procs, Exit(p)
  PROVE  ProcPhase(p)' /\ ProcRestore(p)'
  BY DEF ProcsOK, ProcPhase, ProcRestore, Exit, Goto, At, Locked, Untouched

LEMMA JournalPhase ==
  ASSUME ProcsOK, NEW p \in Procs, NEW phase \in Phases
  PROVE  /\ Finish(p, phase) => journal'.phase = phase /\ Exit(p)
         /\ \A label : Save(p, phase, label) =>
              journal'.phase = phase /\ pc'[p] = label
<1>1. op[p] \in Operation
  BY DEF ProcsOK
<1>. QED BY <1>1, PhaseType DEF Finish, Save, Write, Goto, ProcsOK

EnteredRecovery == {"rec-stop", "rec-up"}
LEMMA EnterPhase ==
  ASSUME ProcsOK, NEW p \in Procs, NEW o, NEW copies, EnterRecovery(p, o, copies)
  PROVE  pc'[p] \in EnteredRecovery
  BY DEF ProcsOK, EnterRecovery, Goto, EnteredRecovery

QuietUp == journal.phase \in Quiet => PanelUp

LEMMA UpdatePhase ==
  ASSUME IInv, NEW p \in Procs, UpdateStep(p)
  PROVE  QuietUp' /\ ProcPhase(p)'
<1>. USE DEF Phases, Final, Quiet, Untouched, QuietUp, PanelUp, EnteredRecovery
<1>a. ProcsOK /\ DockerOK /\ ProcPhase(p) /\ QuietUp
  BY DEF IInv, TypeOK, PhaseInv
<1>1. CASE Fetch(p)
  <2>1. PanelUp /\ UNCHANGED panel
    BY <1>1, <1>a DEF Fetch, ProcPhase, At
  <2>2. CASE Save(p, "downloaded", "preflight")
    BY <2>1, <2>2, <1>a, JournalPhase DEF ProcPhase, At, Locked
  <2>3. CASE Finish(p, "success") \/ Finish(p, "failed-before-cutover")
    BY <2>1, <2>3, <1>a, JournalPhase, IdlePhase
  <2>. QED BY <2>2, <2>3, <1>1 DEF Fetch
<1>2. CASE Preflight(p)
  <2>1. PanelUp /\ UNCHANGED panel
    BY <1>2, <1>a DEF Preflight, ProcPhase, At
  <2>2. CASE Goto(p, "recheck") /\ UNCHANGED journal
    BY <2>1, <2>2, <1>a DEF ProcPhase, ProcsOK, Goto, At, Locked
  <2>3. CASE Finish(p, "failed-before-cutover")
    BY <2>1, <2>3, <1>a, JournalPhase, IdlePhase
  <2>. QED BY <2>2, <2>3, <1>2 DEF Preflight
<1>3. CASE Recheck(p)
  <2>1. PanelUp /\ UNCHANGED panel
    BY <1>3, <1>a DEF Recheck, ProcPhase, At
  <2>2. CASE \E label \in {"copied", "stop"} : Save(p, "stopping", label)
    BY <2>1, <2>2, <1>a, JournalPhase DEF ProcPhase, At, Locked
  <2>3. CASE Finish(p, "failed-before-cutover")
    BY <2>1, <2>3, <1>a, JournalPhase, IdlePhase
  <2>. QED BY <2>2, <2>3, <1>3 DEF Recheck
<1>b. pc[p] \in Locked \ Untouched => journal.phase \notin Quiet
  BY <1>a DEF ProcPhase
<1>4. CASE Stop(p)
  BY <1>4, <1>a, <1>b, EnterPhase DEF Stop, files, ProcPhase, ProcsOK, Goto, At, Locked
<1>5. CASE Stopped(p)
  <2>1. CASE Save(p, "backing-up", "copy")
    BY <2>1, <1>a, JournalPhase DEF ProcPhase, At, Locked
  <2>2. CASE UNCHANGED journal /\ pc'[p] \in EnteredRecovery
    BY <2>2, <1>5, <1>a, <1>b DEF Stopped, ProcPhase, At, Locked
  <2>. QED BY <2>1, <2>2, <1>5, <1>a, EnterPhase DEF Stopped
<1>6. CASE Copy(p)
  BY <1>6, <1>a, <1>b, EnterPhase DEF Copy, files, ProcPhase, ProcsOK, Goto, At, Locked
<1>7. CASE Copied(p)
  <2>1. CASE Save(p, "starting-target", "up")
    BY <2>1, <1>a, JournalPhase DEF ProcPhase, At, Locked
  <2>2. CASE UNCHANGED journal /\ pc'[p] \in EnteredRecovery
    BY <2>2, <1>7, <1>a, <1>b DEF Copied, ProcPhase, At, Locked
  <2>. QED BY <2>1, <2>2, <1>7, <1>a, EnterPhase DEF Copied
<1>8. CASE Up(p)
  BY <1>8, <1>a, <1>b, EnterPhase DEF Up, files, ProcPhase, ProcsOK, Goto, At, Locked
<1>9. CASE Started(p)
  <2>1. CASE Save(p, "checking-target", "check")
    BY <2>1, <1>a, JournalPhase DEF ProcPhase, At, Locked
  <2>2. CASE UNCHANGED journal /\ pc'[p] \in EnteredRecovery
    BY <2>2, <1>9, <1>a, <1>b DEF Started, ProcPhase, At, Locked
  <2>. QED BY <2>1, <2>2, <1>9, <1>a, EnterPhase DEF Started
<1>10. CASE Check(p)
  BY <1>10, <1>a, <1>b, EnterPhase
     DEF Check, Healthy, files, ProcPhase, ProcsOK, Goto, At, Locked
<1>11. CASE RecordPrevious(p)
  BY <1>11, <1>a, <1>b DEF RecordPrevious, ProcPhase, ProcsOK, Goto, At, Locked
<1>12. CASE RecordActive(p)
  BY <1>12, <1>a, <1>b DEF RecordActive, ProcPhase, ProcsOK, Goto, At, Locked
<1>13. CASE RecordSuccess(p)
  BY <1>13, <1>a, JournalPhase, IdlePhase DEF RecordSuccess, ProcPhase, At
<1>. QED
  BY <1>1, <1>2, <1>3, <1>4, <1>5, <1>6, <1>7, <1>8, <1>9, <1>10, <1>11, <1>12,
     <1>13 DEF UpdateStep

LEMMA RecoveryPhase ==
  ASSUME IInv, NEW p \in Procs, RecoveryStep(p)
  PROVE  QuietUp' /\ ProcPhase(p)'
<1>. USE DEF Phases, Final, Quiet, Untouched, QuietUp, PanelUp
<1>a. ProcsOK /\ DockerOK /\ ProcPhase(p) /\ QuietUp
  BY DEF IInv, TypeOK, PhaseInv
<1>b. pc[p] \in Locked \ Untouched => journal.phase \notin Quiet
  BY <1>a DEF ProcPhase
<1>1. CASE RecStop(p)
  BY <1>1, <1>a, <1>b
     DEF RecStop, AfterTargetStopped, files, local, ProcPhase, ProcsOK, Goto, At, Locked
<1>2. CASE RecRequired(p)
  BY <1>2, <1>a, JournalPhase, IdlePhase DEF RecRequired
<1>3. CASE RecUp(p)
  BY <1>3, <1>a, <1>b DEF RecUp, files, local, ProcPhase, ProcsOK, Goto, At, Locked
<1>4. CASE RecCheck(p)
  BY <1>4, <1>a, <1>b DEF RecCheck, Healthy, files, local, ProcPhase, ProcsOK, Goto, At, Locked
<1>5. CASE RecDone(p)
  BY <1>5, <1>a, JournalPhase, IdlePhase DEF RecDone, ProcPhase, At
<1>6. CASE AutoCheck(p)
  <2>1. pc'[p] \in {"restore", "rec-required"}
    BY <1>6, <1>a DEF AutoCheck, ProcsOK, Goto
  <2>2. journal'.phase = "rolling-back" \/ journal' = journal
    <3>1. op[p] \in Operation
      BY <1>a DEF ProcsOK
    <3>2. [Phase(op[p], "rolling-back") EXCEPT !.restoreData = TRUE].phase = "rolling-back"
      BY <3>1 DEF Phase, Operation
    <3>. QED BY <3>2, <1>6 DEF AutoCheck, Write
  <2>. QED BY <1>6, <1>b, <2>1, <2>2 DEF AutoCheck, ProcPhase, At, Locked
<1>. QED
  BY <1>1, <1>2, <1>3, <1>4, <1>5, <1>6 DEF RecoveryStep

LEMMA RollbackPhase ==
  ASSUME IInv, NEW p \in Procs, RollbackStep(p) \/ RestoreStart(p) \/ RestoreWait(p)
  PROVE  QuietUp' /\ ProcPhase(p)'
<1>. USE DEF Phases, Final, Quiet, Untouched, QuietUp, PanelUp
<1>a. ProcsOK /\ DockerOK /\ ProcPhase(p) /\ QuietUp
  BY DEF IInv, TypeOK, PhaseInv
<1>b. pc[p] \in Locked \ Untouched => journal.phase \notin Quiet
  BY <1>a DEF ProcPhase
<1>1. CASE RbStop(p)
  BY <1>1, <1>a, <1>b, IdlePhase
     DEF RbStop, files, ProcPhase, ProcsOK, Goto, At, Locked
<1>2. CASE RbUp(p)
  BY <1>2, <1>a, <1>b, IdlePhase
     DEF RbUp, files, ProcPhase, ProcsOK, Goto, At, Locked
<1>3. CASE RbCheck(p)
  BY <1>3, <1>a, <1>b, IdlePhase
     DEF RbCheck, Healthy, files, ProcPhase, ProcsOK, Goto, At, Locked
<1>4. CASE RbActive(p)
  BY <1>4, <1>a, <1>b DEF RbActive, ProcPhase, ProcsOK, Goto, At, Locked
<1>5. CASE RbDone(p)
  BY <1>5, <1>a, JournalPhase, IdlePhase DEF RbDone, ProcPhase, At
<1>6. CASE RestoreStart(p)
  BY <1>6, <1>a, <1>b, IdlePhase
     DEF RestoreStart, RestoreEnds, files, ProcPhase, ProcsOK, Goto, At, Locked
<1>7. CASE RestoreWait(p)
  BY <1>7, <1>a, <1>b, IdlePhase
     DEF RestoreWait, RestoreEnds, files, ProcPhase, ProcsOK, Goto, At, Locked
<1>. QED
  BY <1>1, <1>2, <1>3, <1>4, <1>5, <1>6, <1>7 DEF RollbackStep

LEMMA InvokedPhase ==
  ASSUME ProcsOK, NEW p \in Procs, NEW command, NEW label, Invoked(p, command, label)
  PROVE  pc'[p] = label /\ seen'[p].journal = journal
  BY DEF ProcsOK, Invoked, Goto

\* A rollback that only marks an operation as failed relies on the journal it
\* read: either that is the operation, or the journal was already finished.
LEMMA InvocationPhase ==
  ASSUME IInv, NEW p \in Procs, Invocation(p)
  PROVE  QuietUp' /\ ProcPhase(p)'
<1>. USE DEF Phases, Final, Quiet, Untouched, QuietUp, PanelUp
<1>a. ProcsOK /\ FilesOK /\ DockerOK /\ FilesComplete /\ DockerComplete /\ ProcPhase(p) /\ QuietUp
  BY DEF IInv, TypeOK, RecordInv, PhaseInv
<1>1. CASE UpdateBegin(p)
  <2>1. pc'[p] = "prepare" /\ seen'[p].journal = journal
    BY <1>1, <1>a, InvokedPhase DEF UpdateBegin
  <2>2. journal.phase \in Final \cup {"none"}
    BY <1>1, <1>a DEF UpdateBegin, FilesComplete
  <2>. QED
    BY <1>1, <1>a, <2>1, <2>2 DEF UpdateBegin, files, ProcPhase, At, Locked
<1>2. CASE UpdatePrepare(p)
  <2>1. journal'.phase = "prepared" /\ pc'[p] = "fetch"
    BY <1>2, <1>a DEF UpdatePrepare, Write, ProcsOK, Goto
  <2>2. journal.phase \in Quiet
    BY <1>2, <1>a DEF UpdatePrepare, JournalUnchanged, ProcPhase
  <2>3. PanelUp'
    BY <1>2, <1>a, <2>2 DEF UpdatePrepare
  <2>. QED BY <2>1, <2>3 DEF ProcPhase, At, Locked
<1>3. CASE Refuse(p)
  BY <1>3, <1>a, IdlePhase DEF Refuse, files
<1>4. CASE RollbackBegin(p)
  <2>1. pc'[p] = "rb-begin" /\ seen'[p].journal = journal
    BY <1>4, <1>a DEF RollbackBegin, Invoked, ProcsOK, Goto
  <2>2. op'[p] = journal \/ journal.phase \in Final
    BY <1>4, <1>a DEF RollbackBegin, Hold, ProcsOK
  <2>. QED BY <1>4, <1>a, <2>1, <2>2 DEF RollbackBegin, files, ProcPhase, At, Locked
<1>5. CASE RollbackMark(p)
  <2>1. op[p] = journal \/ journal.phase \in Final
    BY <1>5, <1>a DEF RollbackMark, JournalUnchanged, ProcPhase
  <2>2. PanelUp
    BY <1>5, <1>a, <2>1 DEF RollbackMark, MarkAllowed
  <2>. QED BY <1>5, <1>a, <2>2, JournalPhase, IdlePhase DEF RollbackMark
<1>6. CASE RollbackPrepare(p)
  <2>1. pc'[p] = "rb-stop"
    BY <1>6, <1>a DEF RollbackPrepare, ProcsOK, Goto
  <2>2. op[p] \in Operation
    BY <1>a DEF ProcsOK
  <2>3. journal'.phase = "rolling-back"
    BY <1>6, <2>2 DEF RollbackPrepare, Write, Phase, Operation
  <2>. QED BY <2>1, <2>3 DEF ProcPhase, At, Locked
<1>7. CASE ResumeBegin(p)
  BY <1>7, <1>a DEF ResumeBegin, Invoked, files, ProcPhase, ProcsOK, Goto, At, Locked
<1>8. CASE ResumePrepare(p)
  <2>1. pc'[p] = "up" /\ op[p] \in Operation
    BY <1>8, <1>a DEF ResumePrepare, ProcsOK, Goto
  <2>2. journal'.phase = "starting-target"
    BY <1>8, <2>1, PhaseType DEF ResumePrepare, Write
  <2>. QED BY <2>1, <2>2 DEF ProcPhase, At, Locked
<1>. QED
  BY <1>1, <1>2, <1>3, <1>4, <1>5, <1>6, <1>7, <1>8 DEF Invocation

\* Only the steps that stop or start a container touch the panel, and the
\* journal already says so.
LEMMA DiePhase ==
  ASSUME IInv, NEW p \in Procs, Die(p)
  PROVE  QuietUp' /\ ProcPhase(p)'
<1>a. ProcsOK /\ ProcPhase(p) /\ QuietUp
  BY DEF IInv, TypeOK, PhaseInv, QuietUp
<1>1. UNCHANGED panel \/ pc[p] \in Locked \ Untouched
  BY DEF Die, At, Locked, Untouched
<1>2. QuietUp'
  BY <1>1, <1>a DEF Die, files, QuietUp, PanelUp, ProcPhase
<1>. QED BY <1>2, <1>a, IdlePhase DEF Die

LEMMA PhaseStep == IInv /\ [Next]_vars => PhaseInv'
<1>. SUFFICES ASSUME IInv, [Next]_vars PROVE PhaseInv'
  OBVIOUS
<1>a. PhaseInv
  BY DEF IInv
<1>1. ASSUME NEW p \in Procs, Invocation(p) \/ LockedStep(p) \/ Die(p)
      PROVE  PhaseInv'
  <2>1. QuietUp' /\ ProcPhase(p)'
    BY <1>1, InvocationPhase, UpdatePhase, RecoveryPhase, RollbackPhase, DiePhase
       DEF LockedStep
  <2>2. \A q \in Procs \ {p} : ProcPhase(q)'
    BY <1>1, OthersPhase
  <2>. QED BY <2>1, <2>2 DEF PhaseInv, QuietUp
<1>2. CASE RestoreStep \/ RestoreFails \/ PanelWrites
  <2>1. UNCHANGED <<journal, pc, op, seen, panel>>
    BY <1>2 DEF RestoreStep, RestoreCopy, RestoreRename, RestoreSwap, RestoreRemoved,
       RestoreFails, PanelWrites, files, local
  <2>. QED BY <1>a, <2>1 DEF PhaseInv, ProcPhase, PanelUp, At
<1>3. CASE UNCHANGED vars
  BY <1>3, <1>a DEF PhaseInv, ProcPhase, PanelUp, At, vars, files, local
<1>. QED BY <1>1, <1>2, <1>3 DEF Next

----------------------------------------------------------------------------
(* The restore container runs over a stopped panel                          *)

RestoreAlonePart == RestoreRuns => ~panel.running

\* Away from the steps that start, wait for or precede a restore nothing about
\* it changes for the process that moves.
LEMMA UpdateRestore ==
  ASSUME IInv, NEW p \in Procs, UpdateStep(p)
  PROVE  RestoreAlonePart' /\ ProcRestore(p)'
<1>a. ProcsOK /\ ProcRestore(p) /\ RestoreAlonePart
  BY DEF IInv, TypeOK, RestoreInv, RestoreAlonePart
<1>1. pc[p] \in Locked /\ ~At(p, "restore-wait") /\ UNCHANGED restore
  BY <1>a DEF UpdateStep, Fetch, Preflight, Recheck, Stop, Stopped, Copy, Copied, Up,
     Started, Check, RecordPrevious, RecordActive, RecordSuccess, At, Locked
<1>2. ~RestoreRuns'
  BY <1>1, <1>a DEF ProcRestore, RestoreRuns
<1>3. pc'[p] \notin {"auto-check", "restore"}
  BY <1>a DEF UpdateStep, Fetch, Preflight, Recheck, Stop, Stopped, Copy, Copied, Up,
     Started, Check, RecordPrevious, RecordActive, RecordSuccess, Save, Finish, Exit,
     EnterRecovery, Goto, ProcsOK, At
<1>. QED BY <1>2, <1>3 DEF ProcRestore, RestoreAlonePart

LEMMA RecoveryRestore ==
  ASSUME IInv, NEW p \in Procs, RecoveryStep(p)
  PROVE  RestoreAlonePart' /\ ProcRestore(p)'
<1>a. ProcsOK /\ DockerOK /\ ProcRestore(p) /\ RestoreAlonePart
  BY DEF IInv, TypeOK, RestoreInv, RestoreAlonePart
<1>1. pc[p] \in Locked /\ ~At(p, "restore-wait") /\ UNCHANGED restore
  BY <1>a DEF RecoveryStep, RecStop, RecRequired, RecUp, RecCheck, RecDone, AutoCheck,
     At, Locked
<1>2. ~RestoreRuns'
  BY <1>1, <1>a DEF ProcRestore, RestoreRuns
<1>3. pc'[p] \in {"auto-check", "restore"} => ~panel'.running
  <2>1. CASE RecStop(p)
    BY <2>1, <1>a DEF RecStop, Stops, Goto, ProcsOK, DockerOK
  <2>2. CASE RecRequired(p) \/ RecDone(p)
    BY <2>2, <1>a DEF RecRequired, RecDone, Finish, Exit, Goto, ProcsOK
  <2>3. CASE RecUp(p) \/ RecCheck(p)
    BY <2>3, <1>a DEF RecUp, RecCheck, Goto, ProcsOK
  <2>4. CASE AutoCheck(p)
    BY <2>4, <1>a DEF AutoCheck, Goto, ProcsOK, ProcRestore, At
  <2>. QED BY <2>1, <2>2, <2>3, <2>4 DEF RecoveryStep
<1>. QED BY <1>2, <1>3 DEF ProcRestore, RestoreAlonePart
------------------------------------------------------------------------

LEMMA RollbackRestore ==
  ASSUME IInv, NEW p \in Procs,
         RollbackStep(p) \/ RestoreStart(p) \/ RestoreWait(p)
  PROVE  RestoreAlonePart' /\ ProcRestore(p)'
<1>a. ProcsOK /\ DockerOK /\ ProcRestore(p) /\ RestoreAlonePart
  BY DEF IInv, TypeOK, RestoreInv, RestoreAlonePart
<1>1. CASE RollbackStep(p)
  <2>1. pc[p] \in Locked /\ ~At(p, "restore-wait") /\ UNCHANGED restore
    BY <1>1, <1>a DEF RollbackStep, RbStop, RbUp, RbCheck, RbActive, RbDone, At, Locked
  <2>2. ~RestoreRuns'
    BY <2>1, <1>a DEF ProcRestore, RestoreRuns
  <2>3. pc'[p] \in {"auto-check", "restore"} => ~panel'.running
    <3>1. CASE RbStop(p)
      BY <3>1, <1>a DEF RbStop, Stops, Exit, Goto, ProcsOK, DockerOK
    <3>2. CASE RbUp(p) \/ RbCheck(p) \/ RbActive(p) \/ RbDone(p)
      BY <3>2, <1>a DEF RbUp, RbCheck, RbActive, RbDone, Finish, Exit, Goto, ProcsOK
    <3>. QED BY <3>1, <3>2, <1>1 DEF RollbackStep
  <2>. QED BY <2>2, <2>3 DEF ProcRestore, RestoreAlonePart
<1>2. CASE RestoreStart(p)
  <2>1. ~panel.running /\ UNCHANGED panel
    BY <1>2, <1>a DEF RestoreStart, ProcRestore, At
  <2>2. CASE restore'.step = "copy" /\ Goto(p, "restore-wait")
    BY <2>1, <2>2, <1>a DEF ProcRestore, RestoreAlonePart, RestoreRuns, Goto, At, ProcsOK
  <2>3. CASE RestoreEnds(p) /\ UNCHANGED restore
    <3>1. ~RestoreRuns'
      BY <2>3, <1>2, <1>a DEF RestoreStart, ProcRestore, RestoreRuns, At, Locked
    <3>. QED BY <2>1, <3>1 DEF ProcRestore, RestoreAlonePart
  <2>. QED BY <2>2, <2>3, <1>2, <1>a DEF RestoreStart, DockerOK
<1>3. CASE RestoreWait(p)
  <2>1. UNCHANGED panel
    BY <1>3 DEF RestoreWait
  <2>2. CASE restore' = NoRestore /\ pc'[p] \notin {"auto-check", "restore"}
    BY <2>2 DEF ProcRestore, RestoreAlonePart, RestoreRuns, NoRestore, At
  <2>3. CASE Exit(p) /\ UNCHANGED restore
    BY <2>1, <2>3, <1>a, IdlePhase DEF RestoreAlonePart, RestoreRuns
  <2>. QED BY <2>2, <2>3, <1>3, <1>a
           DEF RestoreWait, RestoreEnds, Goto, Exit, ProcsOK
<1>. QED BY <1>1, <1>2, <1>3

\* otherWriters is checked under the locks: they are not taken while a restore
\* container runs.
LEMMA InvocationRestore ==
  ASSUME IInv, NEW p \in Procs, Invocation(p) \/ Die(p)
  PROVE  RestoreAlonePart' /\ ProcRestore(p)'
<1>a. ProcsOK /\ DockerOK /\ ProcRestore(p) /\ RestoreAlonePart
  BY DEF IInv, TypeOK, RestoreInv, RestoreAlonePart
<1>1. CASE Invocation(p)
  <2>1. UNCHANGED <<panel, restore>>
    BY <1>1 DEF Invocation, UpdateBegin, UpdatePrepare, Refuse, RollbackBegin,
       RollbackMark, RollbackPrepare, ResumeBegin, ResumePrepare
  <2>2. CASE UpdatePrepare(p) \/ RollbackPrepare(p) \/ ResumePrepare(p)
    <3>1. ~RestoreRuns'
      BY <2>1, <2>2 DEF UpdatePrepare, RollbackPrepare, ResumePrepare, RollbackAllowed,
         ResumeAllowed, OtherWriters, RestoreRuns
    <3>2. pc'[p] \in {"fetch", "rb-stop", "up"}
      BY <2>2, <1>a DEF UpdatePrepare, RollbackPrepare, ResumePrepare, Goto, ProcsOK
    <3>. QED BY <3>1, <3>2 DEF ProcRestore, RestoreAlonePart
  <2>3. CASE pc'[p] \in Unlocked
    BY <2>1, <2>3, <1>a
       DEF ProcRestore, RestoreAlonePart, RestoreRuns, Unlocked, Locked, At
  <2>4. CASE UpdateBegin(p) \/ RollbackBegin(p) \/ ResumeBegin(p)
    <3>1. pc'[p] \in Unlocked
      BY <2>4, <1>a, InvokedPhase DEF UpdateBegin, RollbackBegin, ResumeBegin, Unlocked
    <3>. QED BY <3>1, <2>3
  <2>5. CASE Refuse(p) \/ RollbackMark(p)
    <3>1. pc'[p] \in Unlocked
      BY <2>5, <1>a DEF Refuse, RollbackMark, Finish, Exit, Goto, ProcsOK, Unlocked
    <3>. QED BY <3>1, <2>3
  <2>. QED BY <1>1, <2>2, <2>4, <2>5 DEF Invocation
<1>2. CASE Die(p)
  <2>1. pc[p] \in Locked /\ Exit(p) /\ UNCHANGED restore
    BY <1>2 DEF Die
  <2>2. RestoreRuns => UNCHANGED panel
    BY <1>2, <1>a, <2>1 DEF Die, ProcRestore, At
  <2>. QED BY <2>1, <2>2, <1>a, IdlePhase DEF RestoreAlonePart, RestoreRuns
<1>. QED BY <1>1, <1>2

LEMMA RestoreInvStep == IInv /\ [Next]_vars => RestoreInv'
<1>. SUFFICES ASSUME IInv, [Next]_vars PROVE RestoreInv'
  OBVIOUS
<1>a. RestoreInv /\ DockerOK
  BY DEF IInv, TypeOK
<1>1. ASSUME NEW p \in Procs, Invocation(p) \/ LockedStep(p) \/ Die(p)
      PROVE  RestoreInv'
  <2>1. RestoreAlonePart' /\ ProcRestore(p)'
    BY <1>1, InvocationRestore, UpdateRestore, RecoveryRestore, RollbackRestore
       DEF LockedStep
  <2>2. \A q \in Procs \ {p} : ProcRestore(q)'
    BY <1>1, <1>a, OthersPhase DEF RestoreInv
  <2>. QED BY <2>1, <2>2 DEF RestoreInv, RestoreAlonePart
<1>2. CASE RestoreStep \/ RestoreFails \/ PanelWrites
  <2>1. UNCHANGED <<pc, panel>>
    BY <1>2 DEF RestoreStep, RestoreCopy, RestoreRename, RestoreSwap, RestoreRemoved,
       RestoreFails, PanelWrites
  <2>2. RestoreRuns' => RestoreRuns
    BY <1>2, <1>a DEF RestoreStep, RestoreCopy, RestoreRename, RestoreSwap,
       RestoreRemoved, RestoreFails, PanelWrites, RestoreRuns, NoRestore, DockerOK
  <2>. QED BY <1>a, <2>1, <2>2 DEF RestoreInv, ProcRestore, At
<1>3. CASE UNCHANGED vars
  BY <1>3, <1>a DEF RestoreInv, ProcRestore, RestoreRuns, At, vars
<1>. QED BY <1>1, <1>2, <1>3 DEF Next

----------------------------------------------------------------------------
(* Results                                                                  *)

\* IInv holds in every state the updater can reach.
THEOREM Invariance == Spec => []IInv
<1>1. IInv /\ [Next]_vars => IInv'
  BY TypeStep, LockStep, RecordStep, PhaseStep, RestoreInvStep DEF IInv
<1>. QED BY InitInv, <1>1, PTL DEF Spec

\* Every file, container and process state the updater (execute, rollback,
\* resumeOperation and their helpers) produces is one of the declared ones: no
\* phase outside the journal's list is ever written, whatever fails.
THEOREM TypeCorrect == Spec => []TypeOK
<1>1. IInv => TypeOK
  BY DEF IInv
<1>. QED BY Invariance, <1>1, PTL

\* A finished or absent journal means that an installed panel runs, also after
\* any kill: operation.json is written before the panel is stopped (main.go) and
\* finished only after verifyRuntime.
THEOREM DowntimeTold == Spec => []JournalTellsDowntime
<1>1. IInv => JournalTellsDowntime
  BY DEF IInv, PhaseInv, JournalTellsDowntime, Quiet, PanelUp
<1>. QED BY Invariance, <1>1, PTL

\* While the restore container of restoreData runs, alone or orphaned, no panel
\* runs and no second process got past otherWriters.
THEOREM RestoreAlone == Spec => []NoWriterDuringRestore
<1>1. IInv => NoWriterDuringRestore
  BY DEF IInv, RestoreInv, ProcRestore, NoWriterDuringRestore
<1>. QED BY Invariance, <1>1, PTL
============================================================================
