----------------------------- MODULE StackWrite -----------------------------
(***************************************************************************)
(* The file transaction of one stack: src/backend/stack-write.ts, with the *)
(* callers of stack.ts and the queue of stack-lock.ts.                     *)
(*                                                                         *)
(* A save replaces the compose file and the active env file, and may adopt *)
(* the env file into the stored selection.  A journal directory holds both *)
(* versions of every file; the process may die, an operation may fail and  *)
(* somebody outside the panel may edit a file between any two steps.  At   *)
(* the next start every journal is finished or undone.                     *)
(***************************************************************************)
EXTENDS Naturals, Sequences, FiniteSets

CONSTANTS
    Savers,     \* requests being served: browser tabs, MCP clients
    Compose,    \* the compose file
    EnvFiles,   \* env files of the stack
    Texts,      \* what a file may contain
    Blank,      \* the empty text
    Missing,    \* the file does not exist
    Unknown,    \* the answers given so far do not tell
    MaxSaves,   \* bound on requests
    MaxEdits,   \* bound on edits from outside the panel
    MaxRaces,   \* bound on edits between a file's last check and its rename
    MaxFaults,  \* bound on failed operations and crashes
    MaxTorn,    \* bound on removals of a journal that stop half way
    MaxCuts     \* bound on power cuts

Files == {Compose} \cup EnvFiles

ASSUME FileAssumption == Compose \notin EnvFiles /\ EnvFiles # {}
ASSUME TextAssumption ==
    /\ Blank \in Texts /\ Missing \notin Texts /\ Unknown \notin Texts \cup {Missing}
ASSUME BoundAssumption ==
    /\ MaxSaves \in Nat /\ MaxEdits \in Nat /\ MaxRaces \in Nat
    /\ MaxFaults \in Nat /\ MaxTorn \in Nat /\ MaxCuts \in Nat

Ids == 1..MaxSaves
NoId == 0
Content == Texts \cup {Missing}

\* The stored selection: the env file the editor works with, and the ones
\* compose interpolates.
Selection == [name : EnvFiles, listed : SUBSET EnvFiles]

\* What a transaction is about: the manifest of its journal.
Plan == [files : SUBSET Files, from : [Files -> Content], to : [Files -> Content],
         adopts : BOOLEAN, selFrom : Selection, selTo : Selection]

----------------------------------------------------------------------------
VARIABLES
    disk, sel,      \* the stack directory and the stored selection
    journals,       \* stack-writes/<id>
    up,             \* the server: "down", "recovering" or "up"
    queue, pc, req, \* the lock's queue; what each saver waits for
    tx,             \* the transaction of the saver that holds the lock
    rec,            \* the recovery at startup
    asked, edits, races, faults, torn, cuts,    \* bounded counters
    told,           \* what the answers and the edits so far say there is
    touched,        \* files edited from outside since the transaction checked them
    kept            \* a journal was left behind by a server that went on

stored == <<disk, sel, journals>>
counters == <<asked, edits, races, faults, torn, cuts>>
ghosts == <<told, touched, kept>>
memory == <<queue, pc, req, tx, rec>>
vars == <<stored, up, memory, counters, ghosts>>

\* A journal without a readable manifest is "open"; the copies of a file's two
\* versions are intact, gone, or empty.
Journal == [state : {"none", "open", "ready", "unresolved"}, committed : BOOLEAN,
            copies : [Files -> {"intact", "gone", "empty"}], plan : Plan]

AnySelection == CHOOSE x \in Selection : TRUE
NoPlan == [files |-> {}, from |-> [f \in Files |-> Missing],
           to |-> [f \in Files |-> Missing], adopts |-> FALSE,
           selFrom |-> AnySelection, selTo |-> AnySelection]
NoJournal == [state |-> "none", committed |-> FALSE,
              copies |-> [f \in Files |-> "intact"], plan |-> NoPlan]

\* A request: save (with the baseline its editor read), write (one file, no
\* baseline), create (an env file from its example), select (setFileConfig).
Request == [kind : {"none", "save", "write", "create", "select"}, file : EnvFiles,
            base : [compose : Content, env : Content],
            want : [compose : Texts, env : Texts], listed : SUBSET EnvFiles]
NoBase == [compose |-> Missing, env |-> Missing]
NoWant == [compose |-> Blank, env |-> Blank]
NoRequest == [kind |-> "none", file |-> AnySelection.name, base |-> NoBase, want |-> NoWant,
              listed |-> {}]

Steps == {"none", "journal", "check", "replace", "verify", "select", "commit",
          "clean", "revert", "undo", "put-back", "undone"}
Transaction == [at : Steps, id : Ids \cup {NoId}, plan : Plan,
                todo : Seq(Files), written : Seq(Files), applied : BOOLEAN]
NoTx == [at |-> "none", id |-> NoId, plan |-> NoPlan, todo |-> <<>>,
         written |-> <<>>, applied |-> FALSE]

NoRec == [ids |-> {}, id |-> NoId, files |-> {}, bad |-> FALSE, selected |-> FALSE]

\* What each part may hold: in particular a file never gets a text that no
\* request, no editor and no journal copy had.
TypeOK ==
    /\ disk \in [Files -> Content] /\ sel \in Selection
    /\ journals \in [Ids -> Journal]
    /\ up \in {"down", "recovering", "up"}
    /\ queue \in Seq(Savers)
    /\ pc \in [Savers -> {"idle", "editing", "queued"}]
    /\ req \in [Savers -> Request]
    /\ tx \in Transaction
    /\ rec \in [ids : SUBSET Ids, id : Ids \cup {NoId}, files : SUBSET Files,
                bad : BOOLEAN, selected : BOOLEAN]
    /\ asked \in 0..MaxSaves /\ edits \in 0..MaxEdits /\ races \in 0..MaxRaces
    /\ faults \in 0..MaxFaults /\ torn \in 0..MaxTorn /\ cuts \in 0..MaxCuts
    /\ told \in [files : [Files -> Content \cup {Unknown}], sel : Selection \cup {Unknown}]
    /\ touched \in SUBSET Files
    /\ kept \in BOOLEAN

\* A running panel over a stack with a compose file, with or without an env file.
Init ==
    /\ \E t \in Texts, e \in [EnvFiles -> Content] :
         disk = [f \in Files |-> IF f = Compose THEN t ELSE e[f]]
    /\ sel \in Selection
    /\ journals = [i \in Ids |-> NoJournal]
    /\ up = "up"
    /\ queue = <<>>
    /\ pc = [s \in Savers |-> "idle"]
    /\ req = [s \in Savers |-> NoRequest]
    /\ tx = NoTx /\ rec = NoRec
    /\ asked = 0 /\ edits = 0 /\ races = 0 /\ faults = 0 /\ torn = 0 /\ cuts = 0
    /\ told = [files |-> disk, sel |-> sel]
    /\ touched = {} /\ kept = FALSE

----------------------------------------------------------------------------
(* Building blocks *)

Fault == faults < MaxFaults /\ faults' = faults + 1
NoFault == faults' = faults

Holder == Head(queue)
Holds(step) == up = "up" /\ tx.at = step
Goto(step) == tx' = [tx EXCEPT !.at = step]

\* Versions an unfinished save has of a file: by its hash alone an edit that
\* brings one of them cannot be told from what the save did.
Live(i) == journals[i].state \in {"open", "ready"}
Unfinished == {tx.plan} \cup {journals[i].plan : i \in {j \in Ids : Live(j)}}
VersionsOf(f) ==
    UNION {{plan.from[f], plan.to[f]} : plan \in {p \in Unfinished : f \in p.files}}

\* The answers say nothing any more about what a plan covers.
Doubt(plan) ==
    [files |-> [f \in Files |-> IF f \in plan.files THEN Unknown ELSE told.files[f]],
     sel |-> IF plan.adopts THEN Unknown ELSE told.sel]

\* withStackLock: the holder leaves and the next one in the queue runs.
ReleaseMutant ==
    /\ queue' = <<>>
    /\ pc' = [pc EXCEPT ![Holder] = "idle"]
    /\ req' = [req EXCEPT ![Holder] = NoRequest]
    /\ tx' = NoTx
    /\ touched' = {}
Release ==
    /\ queue' = Tail(queue)
    /\ pc' = [pc EXCEPT ![Holder] = "idle"]
    /\ req' = [req EXCEPT ![Holder] = NoRequest]
    /\ tx' = NoTx
    /\ touched' = {}

\* StackWriteRecoveryError, or a removal that fails: the journal stays, and
\* the server goes on.
LeaveJournal ==
    /\ Release
    /\ kept' = TRUE
    /\ told' = Doubt(tx.plan)

\* What a removal of a journal may leave when it stops half way.
TornRemoval(j) ==
    {NoJournal} \cup
    {t \in [state : {"open", j.state}, committed : {FALSE, j.committed},
            copies : [Files -> {"intact", "gone", "empty"}], plan : {j.plan}] :
        \A f \in Files : t.copies[f] # j.copies[f] => f \in j.plan.files /\ t.copies[f] = "gone"}

----------------------------------------------------------------------------
(* Requests *)

\* An editor reads the files it shows.
Open(s) ==
    /\ up = "up" /\ pc[s] = "idle"
    /\ asked < MaxSaves /\ asked' = asked + 1
    /\ pc' = [pc EXCEPT ![s] = "editing"]
    /\ req' = [req EXCEPT ![s] = [NoRequest EXCEPT !.kind = "save", !.file = sel.name,
                 !.base = [compose |-> disk[Compose], env |-> disk[sel.name]]]]
    /\ UNCHANGED <<stored, up, queue, tx, rec, edits, races, faults, torn, cuts, ghosts>>

\* The save arrives and queues for the lock of the stack directory.
Save(s) ==
    /\ up = "up" /\ pc[s] = "editing"
    /\ \E compose, env \in Texts :
         req' = [req EXCEPT ![s].want = [compose |-> compose, env |-> env]]
    /\ pc' = [pc EXCEPT ![s] = "queued"]
    /\ queue' = Append(queue, s)
    /\ UNCHANGED <<stored, up, tx, rec, counters, ghosts>>

\* Requests that come without a baseline of both files.
Ask(s) ==
    /\ up = "up" /\ pc[s] = "idle"
    /\ asked < MaxSaves /\ asked' = asked + 1
    /\ \E kind \in {"write", "create", "select"}, f \in EnvFiles, t \in Texts,
          listed \in SUBSET EnvFiles :
         req' = [req EXCEPT ![s] = [NoRequest EXCEPT !.kind = kind, !.file = f,
                   !.want.env = IF kind = "select" THEN Blank ELSE t,
                   !.listed = IF kind = "select" THEN listed ELSE {}]]
    /\ pc' = [pc EXCEPT ![s] = "queued"]
    /\ queue' = Append(queue, s)
    /\ UNCHANGED <<stored, up, tx, rec, edits, races, faults, torn, cuts, ghosts>>

\* The env file is written when it is there, or when there is something to write.
WritesEnv(r) == disk[sel.name] # Missing \/ r.want.env # Blank
Targets(r) ==
    IF r.kind = "save"
    THEN {Compose} \cup (IF WritesEnv(r) THEN {sel.name} ELSE {})
    ELSE {r.file}
Expected(r, f) ==
    IF r.kind = "save" THEN (IF f = Compose THEN r.base.compose ELSE r.base.env)
    ELSE IF r.kind = "create" THEN Missing ELSE Unknown
Wanted(r, f) == IF f = Compose THEN r.want.compose ELSE r.want.env

\* Somebody changed a file, or the selection, since the editor read them.
ConflictMutant(r) ==
    \/ r.kind = "save" /\ WritesEnv(r) /\ r.file # sel.name
    \/ \E f \in Targets(r) : f # Compose /\ Expected(r, f) \notin {Unknown, disk[f]}
ConflictOfTextsMutant(r) ==
    \/ r.kind = "save" /\ ~WritesEnv(r) /\ r.base.env # Missing
    \/ \E f \in Targets(r) : Expected(r, f) \notin {Unknown, disk[f]}
Conflict(r) ==
    \/ r.kind = "save" /\ WritesEnv(r) /\ r.file # sel.name
    \/ r.kind = "save" /\ ~WritesEnv(r) /\ r.base.env # Missing
    \/ \E f \in Targets(r) : Expected(r, f) \notin {Unknown, disk[f]}

Adopts(r) ==
    /\ r.kind \in {"save", "create"}
    /\ \E f \in Targets(r) \ {Compose} : f \notin sel.listed
PlanOf(r) ==
    LET targets == Targets(r)
        env == IF r.kind = "save" THEN sel.name ELSE r.file
    IN [files |-> {f \in targets : disk[f] # Wanted(r, f)},
        from |-> disk,
        to |-> [f \in Files |-> IF f \in targets THEN Wanted(r, f) ELSE disk[f]],
        adopts |-> Adopts(r), selFrom |-> sel,
        selTo |-> IF Adopts(r)
                  THEN [name |-> env, listed |-> sel.listed \cup {env}] ELSE sel]

\* Compose first, as writeTargets lists them.
InOrder(F) ==
    (IF Compose \in F THEN <<Compose>> ELSE <<>>)
    \o (IF F \subseteq {Compose} THEN <<>> ELSE <<CHOOSE f \in F : f # Compose>>)

Queued == up = "up" /\ tx.at = "none" /\ queue # <<>>

\* Refused or failed before anything was written.
Refuse ==
    /\ Queued
    /\ \/ req[Holder].kind # "select" /\ Conflict(req[Holder]) /\ NoFault
       \/ Fault
    /\ Release
    /\ UNCHANGED <<stored, up, rec, asked, edits, races, torn, cuts, told, kept>>

\* setFileConfig, or a save that changes no file: the selection is the write.
StoreSelection ==
    /\ Queued
    /\ LET r == req[Holder] IN
         \/ /\ r.kind = "select"
            /\ sel' = [name |-> r.file, listed |-> r.listed]
         \/ /\ r.kind # "select" /\ ~Conflict(r) /\ PlanOf(r).files = {}
            /\ sel' = PlanOf(r).selTo
    /\ told' = IF req[Holder].kind = "select" \/ Adopts(req[Holder])
               THEN [told EXCEPT !.sel = sel'] ELSE told
    /\ Release
    /\ UNCHANGED <<disk, journals, up, rec, counters, kept>>

\* planWrite
PlanWrite ==
    /\ Queued
    /\ LET r == req[Holder] IN
         /\ r.kind # "select" /\ ~Conflict(r) /\ PlanOf(r).files # {}
         /\ \E i \in Ids :
              /\ journals[i].state = "none"
              /\ \A j \in Ids : j < i => journals[j].state # "none"
              /\ tx' = [NoTx EXCEPT !.at = "journal", !.id = i, !.plan = PlanOf(r),
                          !.todo = InOrder(PlanOf(r).files)]
    /\ touched' = {}
    /\ UNCHANGED <<stored, up, queue, pc, req, rec, counters, told, kept>>

----------------------------------------------------------------------------
(* The transaction *)

JournalOf(plan) == [NoJournal EXCEPT !.state = "ready", !.plan = plan]

\* openJournal fails outside the compensation: what it wrote stays.
OpenJournal ==
    /\ Holds("journal")
    /\ \/ /\ journals' = [journals EXCEPT ![tx.id] = JournalOf(tx.plan)]
          /\ Goto("check") /\ NoFault
          /\ UNCHANGED <<queue, pc, req, touched>>
       \/ /\ journals' = [journals EXCEPT ![tx.id].state = "open"]
          /\ Release /\ Fault
    /\ UNCHANGED <<disk, sel, up, rec, asked, edits, races, torn, cuts, told, kept>>

\* An error inside the transaction: what it applied is put back, the selection
\* first.
CompensateMutant(t) == [t EXCEPT !.at = "undo"]     \* the selection stays
Compensate(t) == [t EXCEPT !.at = IF t.applied THEN "revert" ELSE "undo"]

File == Head(tx.todo)

\* The file is read once more under the lock.
Recheck(f) == disk[f] = tx.plan.from[f]
Check ==
    /\ Holds("check")
    /\ \/ Recheck(File) /\ Goto("replace") /\ touched' = touched \ {File} /\ NoFault
       \/ ~Recheck(File) /\ tx' = Compensate(tx) /\ NoFault /\ UNCHANGED touched
       \/ tx' = Compensate(tx) /\ Fault /\ UNCHANGED touched
    /\ UNCHANGED <<stored, up, queue, pc, req, rec, asked, edits, races, torn, cuts,
                   told, kept>>

Replace ==
    /\ Holds("replace")
    /\ \/ /\ disk' = [disk EXCEPT ![File] = tx.plan.to[File]]
          /\ tx' = [tx EXCEPT !.at = "verify", !.written = Append(@, File)]
          /\ NoFault
       \/ tx' = Compensate(tx) /\ Fault /\ UNCHANGED disk
    /\ UNCHANGED <<sel, journals, up, queue, pc, req, rec, asked, edits, races, torn,
                   cuts, ghosts>>

Verify ==
    /\ Holds("verify")
    /\ \/ /\ disk[File] = tx.plan.to[File]
          /\ tx' = [tx EXCEPT !.todo = Tail(@),
                      !.at = IF Len(tx.todo) > 1 THEN "check"
                             ELSE IF tx.plan.adopts THEN "select" ELSE "commit"]
          /\ NoFault
       \/ disk[File] # tx.plan.to[File] /\ tx' = Compensate(tx) /\ NoFault
       \/ tx' = Compensate(tx) /\ Fault
    /\ UNCHANGED <<stored, up, queue, pc, req, rec, asked, edits, races, torn, cuts,
                   ghosts>>

\* applyMetadata
Select ==
    /\ Holds("select")
    /\ \/ /\ sel' = tx.plan.selTo
          /\ tx' = [tx EXCEPT !.at = "commit", !.applied = TRUE]
          /\ NoFault
       \/ tx' = Compensate(tx) /\ Fault /\ UNCHANGED sel
    /\ UNCHANGED <<disk, journals, up, queue, pc, req, rec, asked, edits, races, torn,
                   cuts, ghosts>>

\* The commit marker: from here on recovery rolls forward.
Commit ==
    /\ Holds("commit")
    /\ \/ /\ journals' = [journals EXCEPT ![tx.id].committed = TRUE]
          /\ told' = [files |-> [f \in Files |->
                         IF f \in tx.plan.files \ touched THEN tx.plan.to[f]
                         ELSE told.files[f]],
                      sel |-> IF tx.plan.adopts THEN tx.plan.selTo ELSE told.sel]
          /\ Goto("clean") /\ NoFault
       \/ tx' = Compensate(tx) /\ Fault /\ UNCHANGED <<journals, told>>
    /\ UNCHANGED <<disk, sel, up, queue, pc, req, rec, asked, edits, races, torn, cuts,
                   touched, kept>>

\* The journal is removed; "saved" is the answer.  A removal that fails is an
\* error to the caller.
Clean ==
    /\ Holds("clean")
    /\ \/ /\ journals' = [journals EXCEPT ![tx.id] = NoJournal]
          /\ Release /\ NoFault /\ UNCHANGED <<told, kept>>
       \/ /\ \E j \in TornRemoval(journals[tx.id]) :
               journals' = [journals EXCEPT ![tx.id] = j]
          /\ LeaveJournal /\ Fault
    /\ UNCHANGED <<disk, sel, up, rec, asked, edits, races, torn, cuts>>

\* revertMetadata
Revert ==
    /\ Holds("revert")
    /\ \/ sel' = tx.plan.selFrom /\ Goto("undo") /\ NoFault
          /\ UNCHANGED <<queue, pc, req, told, touched, kept>>
       \/ LeaveJournal /\ Fault /\ UNCHANGED sel
    /\ UNCHANGED <<disk, journals, up, rec, asked, edits, races, torn, cuts>>

\* undoWrite, from the last written file to the first.
LastWritten == tx.written[Len(tx.written)]
Undo ==
    /\ Holds("undo")
    /\ \/ /\ tx.written = <<>> /\ Goto("undone") /\ NoFault
          /\ UNCHANGED <<queue, pc, req, told, touched, kept>>
       \/ /\ tx.written # <<>> /\ disk[LastWritten] = tx.plan.to[LastWritten]
          /\ Goto("put-back") /\ NoFault
          /\ UNCHANGED <<queue, pc, req, told, touched, kept>>
       \/ /\ tx.written # <<>> /\ disk[LastWritten] # tx.plan.to[LastWritten]
          /\ LeaveJournal /\ NoFault
       \/ tx.written # <<>> /\ LeaveJournal /\ Fault
    /\ UNCHANGED <<stored, up, rec, asked, edits, races, torn, cuts>>

PutBack ==
    /\ Holds("put-back")
    /\ \/ /\ disk' = [disk EXCEPT ![LastWritten] = tx.plan.from[LastWritten]]
          /\ tx' = [tx EXCEPT !.at = "undo",
                      !.written = SubSeq(@, 1, Len(@) - 1)]
          /\ NoFault /\ UNCHANGED <<queue, pc, req, told, touched, kept>>
       \/ LeaveJournal /\ Fault /\ UNCHANGED disk
    /\ UNCHANGED <<sel, journals, up, rec, asked, edits, races, torn, cuts>>

Undone ==
    /\ Holds("undone")
    /\ \/ /\ journals' = [journals EXCEPT ![tx.id] = NoJournal]
          /\ Release /\ NoFault /\ UNCHANGED <<told, kept>>
       \/ /\ \E j \in TornRemoval(journals[tx.id]) :
               journals' = [journals EXCEPT ![tx.id] = j]
          /\ LeaveJournal /\ Fault
    /\ UNCHANGED <<disk, sel, up, rec, asked, edits, races, torn, cuts>>

----------------------------------------------------------------------------
(* The environment: the process dies, the power fails, somebody edits a file *)

\* What a browser shows survives the panel; what was queued gets no answer.
MemoryLost ==
    /\ up # "down" /\ up' = "down"
    /\ queue' = <<>>
    /\ pc' = [s \in Savers |-> IF pc[s] = "editing" THEN "editing" ELSE "idle"]
    /\ req' = [s \in Savers |-> IF pc[s] = "editing" THEN req[s] ELSE NoRequest]
    /\ tx' = NoTx /\ rec' = NoRec /\ touched' = {}

Removing ==
    IF Holds("clean") \/ Holds("undone") THEN {tx.id}
    ELSE IF rec.id # NoId /\ rec.files = {} /\ ~rec.bad THEN {rec.id} ELSE {}

Crash ==
    /\ MemoryLost /\ Fault
    /\ \/ UNCHANGED <<journals, torn>>
       \/ /\ Holds("journal")
          /\ journals' = [journals EXCEPT ![tx.id].state = "open"]
          /\ UNCHANGED torn
       \/ /\ torn < MaxTorn /\ torn' = torn + 1
          /\ \E i \in Removing : \E j \in TornRemoval(journals[i]) :
               journals' = [journals EXCEPT ![i] = j]
    /\ UNCHANGED <<disk, sel, asked, edits, races, cuts, told, kept>>

\* Only the stack's own files are flushed: what the journal holds may be lost
\* or empty after a power cut.
PowerCut ==
    /\ MemoryLost
    /\ cuts < MaxCuts /\ cuts' = cuts + 1
    /\ \E i \in Ids :
         /\ journals[i].state = "ready"
         /\ \E st \in {"open", "ready"}, c \in {FALSE, journals[i].committed},
               k \in [Files -> {"intact", "gone", "empty"}] :
              /\ \A f \in Files : k[f] # journals[i].copies[f] =>
                    f \in journals[i].plan.files /\ journals[i].copies[f] = "intact"
              /\ journals' = [journals EXCEPT ![i].state = st, ![i].committed = c,
                                ![i].copies = k]
    /\ UNCHANGED <<disk, sel, asked, edits, races, faults, torn, told, kept>>

\* An edit between the last check of a file and its rename.
Races(f) ==
    \/ tx.at = "replace" /\ f = File
    \/ tx.at = "put-back" /\ f = LastWritten
Edit(f) ==
    /\ edits < MaxEdits /\ edits' = edits + 1
    /\ \/ Races(f) /\ races < MaxRaces /\ races' = races + 1
       \/ ~Races(f) /\ UNCHANGED races
    /\ \E t \in Content \ {disk[f]} :
         /\ disk' = [disk EXCEPT ![f] = t]
         /\ told' = [told EXCEPT !.files[f] = IF t \in VersionsOf(f) THEN Unknown ELSE t]
    /\ touched' = IF tx.at = "none" THEN {} ELSE touched \cup {f}
    /\ UNCHANGED <<sel, journals, up, memory, asked, faults, torn, cuts, kept>>

----------------------------------------------------------------------------
(* recoverStackWrites, at startup *)

\* A recovery that throws is logged; the server starts with what is left.
Abort ==
    /\ up' = "up" /\ rec' = NoRec /\ kept' = TRUE
    /\ told' = [files |-> [f \in Files |->
                   IF VersionsOf(f) = {} THEN told.files[f] ELSE Unknown], sel |-> Unknown]

Start ==
    /\ up = "down"
    /\ \/ /\ up' = "recovering" /\ NoFault
          /\ rec' = [NoRec EXCEPT !.ids = {i \in Ids : Live(i)}]
          /\ UNCHANGED <<told, kept>>
       \/ Abort /\ Fault
    /\ UNCHANGED <<stored, queue, pc, req, tx, asked, edits, races, torn, cuts, touched>>

\* A journal without a plan is left in place.
TakeJournalMutant ==
    /\ up = "recovering" /\ rec.id = NoId
    /\ \E i \in rec.ids :
         /\ journals[i].state = "ready"
         /\ rec' = [NoRec EXCEPT !.ids = rec.ids \ {i}, !.id = i,
                      !.files = journals[i].plan.files]
    /\ UNCHANGED <<stored, up, queue, pc, req, tx, counters, ghosts>>
TakeJournal ==
    /\ up = "recovering" /\ rec.id = NoId
    /\ \E i \in rec.ids :
         rec' = IF journals[i].state = "open" THEN [rec EXCEPT !.ids = @ \ {i}]
                ELSE [NoRec EXCEPT !.ids = rec.ids \ {i}, !.id = i,
                        !.files = journals[i].plan.files]
    /\ UNCHANGED <<stored, up, queue, pc, req, tx, counters, ghosts>>

Taken == journals[rec.id]
WantedBack(f) == IF Taken.committed THEN Taken.plan.to[f] ELSE Taken.plan.from[f]
OtherVersion(f) == IF Taken.committed THEN Taken.plan.from[f] ELSE Taken.plan.to[f]

\* Only the other version of the save is replaced; a third text is somebody's.
OursMutant(f) == TRUE
Ours(f) == disk[f] = OtherVersion(f)

\* The copy is not compared with its hash, and a missing one cannot be used.
FromCopy(f) ==
    IF WantedBack(f) = Missing THEN Missing
    ELSE IF Taken.copies[f] = "empty" THEN Blank ELSE WantedBack(f)
CopyGone(f) == WantedBack(f) # Missing /\ Taken.copies[f] = "gone"

RecoverFile ==
    /\ up = "recovering" /\ rec.id # NoId
    /\ \E f \in rec.files :
         \/ /\ disk[f] = WantedBack(f)
            /\ rec' = [rec EXCEPT !.files = @ \ {f}] /\ NoFault /\ UNCHANGED disk
         \/ /\ disk[f] # WantedBack(f) /\ Ours(f) /\ ~CopyGone(f)
            /\ disk' = [disk EXCEPT ![f] = FromCopy(f)]
            /\ rec' = [rec EXCEPT !.files = @ \ {f}] /\ NoFault
         \/ /\ disk[f] # WantedBack(f) /\ (~Ours(f) \/ CopyGone(f))
            /\ rec' = [rec EXCEPT !.files = @ \ {f}, !.bad = TRUE]
            /\ NoFault /\ UNCHANGED disk
         \/ /\ rec' = [rec EXCEPT !.files = @ \ {f}, !.bad = TRUE]
            /\ Fault /\ UNCHANGED disk
    /\ UNCHANGED <<sel, journals, up, queue, pc, req, tx, asked, edits, races, torn,
                   cuts, ghosts>>

SelectionPending == Taken.plan.adopts /\ ~rec.bad /\ ~rec.selected
RecoverSelection ==
    /\ up = "recovering" /\ rec.id # NoId /\ rec.files = {} /\ SelectionPending
    /\ \/ /\ sel' = IF Taken.committed THEN Taken.plan.selTo ELSE Taken.plan.selFrom
          /\ rec' = [rec EXCEPT !.selected = TRUE] /\ NoFault
       \/ rec' = [rec EXCEPT !.bad = TRUE] /\ Fault /\ UNCHANGED sel
    /\ UNCHANGED <<disk, journals, up, queue, pc, req, tx, asked, edits, races, torn,
                   cuts, ghosts>>

\* The journal is removed, or kept under a name that is not tried again.
EndJournal ==
    /\ up = "recovering" /\ rec.id # NoId /\ rec.files = {} /\ ~SelectionPending
    /\ \/ /\ journals' = [journals EXCEPT ![rec.id] =
                           IF rec.bad THEN [@ EXCEPT !.state = "unresolved"] ELSE NoJournal]
          /\ rec' = [NoRec EXCEPT !.ids = rec.ids] /\ NoFault
          /\ UNCHANGED <<up, told, kept>>
       \/ /\ Abort /\ Fault
          /\ \E j \in IF rec.bad THEN {Taken} ELSE TornRemoval(Taken) :
               journals' = [journals EXCEPT ![rec.id] = j]
    /\ UNCHANGED <<disk, sel, queue, pc, req, tx, asked, edits, races, torn, cuts, touched>>

\* Only then does the server listen.
Listen ==
    /\ up = "recovering" /\ rec.id = NoId /\ rec.ids = {}
    /\ up' = "up" /\ rec' = NoRec
    /\ UNCHANGED <<stored, queue, pc, req, tx, counters, ghosts>>

----------------------------------------------------------------------------
TxStep ==
    \/ Refuse \/ StoreSelection \/ PlanWrite \/ OpenJournal \/ Check \/ Replace
    \/ Verify \/ Select \/ Commit \/ Clean \/ Revert \/ Undo \/ PutBack \/ Undone
RecoveryStep ==
    \/ Start \/ TakeJournal \/ RecoverFile \/ RecoverSelection \/ EndJournal \/ Listen

Next ==
    \/ \E s \in Savers : Open(s) \/ Save(s) \/ Ask(s)
    \/ TxStep \/ RecoveryStep
    \/ \E f \in Files : Edit(f)
    \/ Crash \/ PowerCut

Spec == Init /\ [][Next]_vars

\* Node runs every promise that can go on, and the container is restarted
\* unless it is stopped by hand.
FairSpec == Spec /\ WF_vars(TxStep) /\ WF_vars(RecoveryStep)

----------------------------------------------------------------------------
(* Properties *)

AtRest == up = "up" /\ tx.at = "none"

\* None of what the transaction cannot survive has happened (see the end of
\* this module and README): a journal left by a server that went on or by a
\* removal that stopped half way, a journal lost with the power, an edit between
\* the last check and the rename.
Covered == ~kept /\ torn = 0 /\ cuts = 0 /\ races = 0

Undecided(f) == \E i \in Ids : journals[i].state = "unresolved"
                                /\ f \in journals[i].plan.files
SelectionUndecided == \E i \in Ids : journals[i].state = "unresolved"
                                      /\ journals[i].plan.adopts
Settled ==
    /\ \A f \in Files : told.files[f] \in {Unknown, disk[f]} \/ Undecided(f)
    /\ told.sel \in {Unknown, sel} \/ SelectionUndecided

\* Between saves and after every restart the files and the selection are what
\* the answers and the outside edits say: a save that was committed is there
\* whole, any other left nothing behind, whatever failed or crashed and where;
\* what could not be decided has its journal kept.
SavesSettled == (AtRest /\ Covered) => Settled

\* Nobody's text is lost on the way: at every moment the text a file should
\* have is in the file or in a copy of a journal that is still there.
HasCopy(f, t) ==
    \E i \in Ids : /\ journals[i].state \in {"ready", "unresolved"}
                    /\ f \in journals[i].plan.files
                    /\ journals[i].copies[f] = "intact"
                    /\ t \in {journals[i].plan.from[f], journals[i].plan.to[f]}
TextKept ==
    Covered => \A f \in Files :
                   told.files[f] \in {Unknown, Missing, disk[f]} \/ HasCopy(f, told.files[f])

\* A save never commits over something its editor did not read: neither
\* another save, nor an edit, nor, after another selection of files, into a file
\* the editor never showed (stack.ts:690-701, stack-write.ts:331-334).
NoLostUpdate ==
    (Holds("commit") /\ req[Holder].kind = "save" /\ Covered) =>
        /\ tx.plan.files \subseteq {Compose, req[Holder].file}
        /\ \A f \in tx.plan.files \ touched :
             told.files[f] \in {Unknown, Expected(req[Holder], f)} \/ Undecided(f)
        /\ tx.plan.adopts => tx.plan.selTo.name = req[Holder].file
        /\ tx.plan.adopts => told.sel \in {Unknown, tx.plan.selFrom} \/ SelectionUndecided

\* A request that waits for the lock is answered, or lost with the process.
EveryRequestAnswered == []<>(\A s \in Savers : pc[s] # "queued")

\* The server always comes up again, whatever the journals hold.
ComesUp == (up # "up") ~> (up = "up")

----------------------------------------------------------------------------
(* What comments of the code say and the code does not do *)

\* stack-write.ts:680-682: an uncommitted write "is rolled back, because nobody
\* was ever told the save succeeded".
SavedNeverUndone == AtRest => Settled

\* dockge-server.ts:603-604: an interrupted save is finished or undone, "so no
\* stack starts from a half written pair".
NoHalfWrittenPair ==
    (AtRest /\ edits = 0) =>
        \A i \in Ids : journals[i].state # "none" =>
            \/ \A f \in journals[i].plan.files : disk[f] = journals[i].plan.from[f]
            \/ \A f \in journals[i].plan.files : disk[f] = journals[i].plan.to[f]
====
