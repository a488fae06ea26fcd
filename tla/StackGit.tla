------------------------------ MODULE StackGit ------------------------------
(***************************************************************************)
(* The Git workflow of a stack (stack-git.ts): pages compare a stack with  *)
(* its branch and apply the comparison, one Git operation at a time, while *)
(* editors outside the panel, other panel writers and Git itself change    *)
(* the same directory, and the panel may crash.                            *)
(*                                                                         *)
(* A file's content is who wrote it and which version: what the Compose    *)
(* check, the limits and the modes decide is whether a step is refused.    *)
(***************************************************************************)
EXTENDS Naturals, FiniteSets

CONSTANTS
    GitFiles,       \* files of the stack that Git tracks
    AddedLater,     \* the ones the first commit does not have
    GitPages,       \* pages that compare and apply
    MaxCommits,     \* bound on commits of the remote after the first
    MaxGitEdits,    \* bound on writes by anyone but the workflow
    MaxGitTroubles  \* bound on failures, crashes and lost comparisons

ASSUME GitFilesAssumption == AddedLater \subseteq GitFiles /\ IsFiniteSet(GitFiles)
ASSUME GitBoundsAssumption ==
    MaxCommits \in Nat /\ MaxGitEdits \in Nat /\ MaxGitTroubles \in Nat

Commits == 0..MaxCommits
Missing == [by |-> "nobody", n |-> 0]
Content == [by : {"git", "user", "page"}, n : Nat] \cup {Missing}
Tree == [GitFiles -> Content]

\* The files of a commit, git cat-file.
TreeOf(c) ==
    [f \in GitFiles |->
       IF c = 0 /\ f \in AddedLater THEN Missing ELSE [by |-> "git", n |-> c]]

VARIABLES
    work, gitIndex, head,   \* the directory, its index and its branch
    upstream,               \* the branch of the remote
    indexLock,              \* .git/index.lock: "free", "panel", "left", "git"
    kept,                   \* recovery directories nobody removed
    stored,                 \* the comparison the server remembers
    shown,                  \* the comparison each page shows
    job,                    \* the operation that holds the stack lock
    answer,                 \* what the last application told its page
    gitEdits, excused,      \* writes by others, and those inside a window no
                            \* check of a file can see
    gitTroubles             \* failures so far

repository == <<work, gitIndex, head, indexLock, kept>>
gitVars == <<repository, upstream, stored, shown, job, answer, gitEdits, excused,
             gitTroubles>>

NoPreview == [id |-> 0]
PreviewIds == 1..(Cardinality(GitPages) + 3)
Preview == [id : PreviewIds, commit : Commits, target : Commits, before : Tree,
            index : Commits]

\* Where an application stands; "idle" is also where the stack lock is free.
Steps == {"idle", "validate", "recheck", "check", "swap", "verify", "index", "ref",
          "undo", "undo-swap", "undo-index"}
NoJob == [at |-> "idle"]
JobOK ==
    \/ job = NoJob
    \/ /\ job.at \in Steps \ {"idle"} /\ job.page \in GitPages
       /\ job.preview \in Preview /\ job.result \in Tree
       /\ job.changed \subseteq GitFiles /\ job.written \subseteq job.changed
       /\ job.file \in GitFiles /\ job.began \in BOOLEAN /\ job.indexed \in BOOLEAN
       /\ job.copies \in [GitFiles -> Content]

\* What the directory, the comparison and the operation may hold.
GitTypeOK ==
    /\ work \in Tree /\ gitIndex \in Commits /\ head \in Commits /\ upstream \in Commits
    /\ indexLock \in {"free", "panel", "left", "git"}
    /\ \A copies \in kept : copies \in Tree
    /\ stored = NoPreview \/ stored \in Preview
    /\ \A p \in GitPages : shown[p] \in PreviewIds \cup {0}
    /\ JobOK
    /\ answer \in {"none", "saved", "refused", "incomplete"}
    /\ gitEdits \in 0..MaxGitEdits /\ excused \subseteq 1..MaxGitEdits
    /\ gitTroubles \in 0..MaxGitTroubles

GitInit ==
    /\ head = 0 /\ gitIndex = 0 /\ upstream = 0
    /\ work = TreeOf(0)
    /\ indexLock = "free" /\ kept = {}
    /\ stored = NoPreview /\ shown = [p \in GitPages |-> 0]
    /\ job = NoJob /\ answer = "none"
    /\ gitEdits = 0 /\ excused = {} /\ gitTroubles = 0

GitTrouble == gitTroubles < MaxGitTroubles /\ gitTroubles' = gitTroubles + 1

----------------------------------------------------------------------------
(* Comparing *)

\* Identifiers are random: one that nothing refers to.
FreshId == CHOOSE i \in PreviewIds : /\ i # stored.id /\ \A p \in GitPages : i # shown[p]
                              /\ job # NoJob => i # job.preview.id

\* preview: refused while another operation holds the stack, with staged changes
\* and without a fast-forward.  It replaces the stack's earlier comparison.
Compare(p) ==
    /\ job = NoJob
    /\ gitIndex = head
    /\ head <= upstream
    /\ stored' = [id |-> FreshId, commit |-> head, target |-> upstream,
                  before |-> work, index |-> gitIndex]
    /\ shown' = [shown EXCEPT ![p] = FreshId]
    /\ UNCHANGED <<repository, upstream, job, answer, gitEdits, excused,
                   gitTroubles>>

\* Ten minutes passed, or larger comparisons of other stacks took the room.
Expire ==
    /\ stored # NoPreview
    /\ stored' = NoPreview
    /\ GitTrouble
    /\ UNCHANGED <<repository, upstream, shown, job, answer, gitEdits, excused>>

\* The page is left: discard forgets its comparison, an application that runs
\* goes on with its own copy.
Discard(p) ==
    /\ shown[p] # 0
    /\ shown' = [shown EXCEPT ![p] = 0]
    /\ stored' = IF stored.id = shown[p] THEN NoPreview ELSE stored
    /\ UNCHANGED <<repository, upstream, job, answer, gitEdits, excused,
                   gitTroubles>>

----------------------------------------------------------------------------
(* Applying *)

\* The files that were compared: a choice is made for each of them.
Differs(preview) ==
    {f \in GitFiles : preview.before[f] # TreeOf(preview.target)[f]}

\* What every file becomes when `taken` come from Git and `typed` from the page.
ResultOf(preview, taken, typed) ==
    [f \in GitFiles |->
        IF f \in typed THEN [by |-> "page", n |-> preview.target]
        ELSE IF f \in taken THEN TreeOf(preview.target)[f] ELSE preview.before[f]]

Goes(at) == job' = [job EXCEPT !.at = at]
Answers(what) == job' = NoJob /\ answer' = what

\* Only the comparison the server still remembers, and an idle stack.
Apply(p) ==
    /\ job = NoJob
    /\ shown[p] # 0 /\ stored.id = shown[p]
    /\ \E taken, typed \in SUBSET Differs(stored) :
         /\ taken \cap typed = {}
         /\ job' = [at |-> "validate", page |-> p, preview |-> stored,
                    result |-> ResultOf(stored, taken, typed),
                    changed |-> taken \cup typed, written |-> {},
                    file |-> CHOOSE f \in GitFiles : TRUE,
                    began |-> FALSE, indexed |-> FALSE,
                    copies |-> [f \in GitFiles |-> Missing]]
    /\ answer' = "none"
    /\ UNCHANGED <<repository, upstream, stored, shown, gitEdits, excused,
                   gitTroubles>>

\* The Compose check of a staged copy, then index.lock is created, or is there.
Validate ==
    /\ job.at = "validate"
    /\ \/ /\ indexLock = "free"
          /\ indexLock' = "panel" /\ Goes("recheck")
          /\ UNCHANGED <<answer, gitTroubles>>
       \/ /\ indexLock # "free"
          /\ Answers("refused") /\ UNCHANGED <<indexLock, gitTroubles>>
       \/ /\ GitTrouble /\ Answers("refused") /\ UNCHANGED indexLock
    /\ UNCHANGED <<work, gitIndex, head, kept, upstream, stored, shown, gitEdits,
                   excused>>

\* The catch block: undo what was written; nothing may have been.
Undoing == Goes("undo") /\ UNCHANGED answer

\* Everything is compared once more, the new index is built beside the old one
\* and keepOriginals copies what will be replaced.
Recheck ==
    /\ job.at = "recheck"
    /\ \/ /\ head = job.preview.commit /\ work = job.preview.before
          /\ gitIndex = job.preview.index
          /\ job' = [job EXCEPT !.at = "check", !.began = TRUE,
                        !.copies = [f \in GitFiles |->
                            IF f \in job.changed THEN job.preview.before[f] ELSE Missing]]
          /\ UNCHANGED <<answer, gitTroubles>>
       \/ /\ \/ head # job.preview.commit \/ work # job.preview.before
             \/ gitIndex # job.preview.index
          /\ Undoing /\ UNCHANGED gitTroubles
       \/ GitTrouble /\ Undoing
    /\ UNCHANGED <<repository, upstream, stored, shown, gitEdits, excused>>

\* One file: it is read and compared ...
CheckFileMutant(f) ==
    /\ job.at = "check"
    /\ f \in job.changed \ job.written
    /\ job' = [job EXCEPT !.at = "swap", !.file = f]
    /\ UNCHANGED <<answer, gitTroubles, repository, upstream, stored, shown, gitEdits,
                   excused>>
CheckFile(f) ==
    /\ job.at = "check"
    /\ f \in job.changed \ job.written
    /\ \/ /\ work[f] = job.preview.before[f]
          /\ job' = [job EXCEPT !.at = "swap", !.file = f]
          /\ UNCHANGED <<answer, gitTroubles>>
       \/ work[f] # job.preview.before[f] /\ Undoing /\ UNCHANGED gitTroubles
       \/ GitTrouble /\ Undoing
    /\ UNCHANGED <<repository, upstream, stored, shown, gitEdits, excused>>

\* ... and then replaced by a rename, or removed.
SwapFile ==
    /\ job.at = "swap"
    /\ \/ /\ work' = [work EXCEPT ![job.file] = job.result[job.file]]
          /\ job' = [job EXCEPT !.at = "check", !.written = @ \cup {job.file}]
          /\ UNCHANGED <<answer, gitTroubles>>
       \/ GitTrouble /\ Undoing /\ UNCHANGED work
    /\ UNCHANGED <<gitIndex, head, indexLock, kept, upstream, stored, shown, gitEdits,
                   excused>>

\* The files nobody chose belong to what was validated: all are read again.
Verify ==
    /\ job.at = "check" /\ job.written = job.changed
    /\ \/ /\ work = job.result /\ gitIndex = job.preview.index
          /\ Goes("index") /\ UNCHANGED <<answer, gitTroubles>>
       \/ /\ work # job.result \/ gitIndex # job.preview.index
          /\ Undoing /\ UNCHANGED gitTroubles
       \/ GitTrouble /\ Undoing
    /\ UNCHANGED <<repository, upstream, stored, shown, gitEdits, excused>>

MoveIndex ==
    /\ job.at = "index"
    /\ \/ /\ gitIndex' = job.preview.target
          /\ job' = [job EXCEPT !.at = "ref", !.indexed = TRUE]
          /\ UNCHANGED <<answer, gitTroubles>>
       \/ GitTrouble /\ Undoing /\ UNCHANGED gitIndex
    /\ UNCHANGED <<work, head, indexLock, kept, upstream, stored, shown, gitEdits,
                   excused>>

\* update-ref compares the branch with the old commit and moves it.  A command
\* stopped by its timeout may have done so already.
MoveRef ==
    /\ job.at = "ref"
    /\ \/ /\ head = job.preview.commit
          /\ head' = job.preview.target
          /\ indexLock' = "free"
          /\ Answers("saved")
          /\ stored' = IF stored.id = job.preview.id THEN NoPreview ELSE stored
          /\ UNCHANGED gitTroubles
       \/ /\ GitTrouble /\ Undoing
          /\ head' \in {head, job.preview.target}
          /\ UNCHANGED <<indexLock, stored>>
    /\ UNCHANGED <<work, gitIndex, kept, upstream, shown, gitEdits, excused>>

\* The rollback reads a file it wrote; an edit since then stops it and keeps the
\* originals ...
Undo(f) ==
    /\ job.at = "undo"
    /\ f \in job.written
    /\ \/ /\ work[f] = job.result[f]
          /\ job' = [job EXCEPT !.at = "undo-swap", !.file = f]
          /\ UNCHANGED <<repository, answer, gitTroubles>>
       \/ /\ \/ work[f] # job.result[f] /\ UNCHANGED gitTroubles
             \/ GitTrouble
          /\ Answers("incomplete")
          /\ kept' = kept \cup {job.copies} /\ indexLock' = "free"
          /\ UNCHANGED <<work, gitIndex, head>>
    /\ UNCHANGED <<upstream, stored, shown, gitEdits, excused>>

\* ... and else the original is moved back out of the recovery directory.
UndoSwap ==
    /\ job.at = "undo-swap"
    /\ work' = [work EXCEPT ![job.file] = job.preview.before[job.file]]
    /\ job' = [job EXCEPT !.at = "undo", !.written = @ \ {job.file},
                          !.copies = [@ EXCEPT ![job.file] = Missing]]
    /\ UNCHANGED <<gitIndex, head, indexLock, kept, upstream, stored, shown, answer,
                   gitEdits, excused, gitTroubles>>

\* The index last; then the locks and the copies are removed.
UndoIndexMutant ==
    /\ job.at = "undo" /\ job.written = {}
    /\ indexLock' = "free" /\ Answers("refused")
    /\ UNCHANGED <<gitIndex, kept, work, head, upstream, stored, shown, gitEdits,
                   excused, gitTroubles>>
UndoIndex ==
    /\ job.at = "undo" /\ job.written = {}
    /\ indexLock' = "free"
    /\ \/ /\ gitIndex' = IF job.indexed THEN job.preview.index ELSE gitIndex
          /\ Answers("refused") /\ UNCHANGED <<kept, gitTroubles>>
       \/ /\ job.indexed /\ GitTrouble
          /\ kept' = kept \cup {job.copies}
          /\ Answers("incomplete") /\ UNCHANGED gitIndex
    /\ UNCHANGED <<work, head, upstream, stored, shown, gitEdits, excused>>

----------------------------------------------------------------------------
(* The others *)

\* Someone outside the panel writes a file at any time.  A write between the
\* check of that file and its rename cannot be seen.
OutsideEdit(f) ==
    /\ gitEdits < MaxGitEdits /\ gitEdits' = gitEdits + 1
    /\ work' = [work EXCEPT ![f] = [by |-> "user", n |-> gitEdits']]
    /\ excused' = IF job # NoJob /\ job.at \in {"swap", "undo-swap"} /\ job.file = f
                  THEN excused \cup {gitEdits'} ELSE excused
    /\ UNCHANGED <<gitIndex, head, indexLock, kept, upstream, stored, shown, job, answer,
                   gitTroubles>>

\* The editor and MCP wait for the stack lock, and replace what they read.
PanelEdit(f) ==
    /\ job = NoJob
    /\ gitEdits < MaxGitEdits /\ gitEdits' = gitEdits + 1
    /\ work' = [work EXCEPT ![f] = [by |-> "user", n |-> gitEdits']]
    /\ UNCHANGED <<gitIndex, head, indexLock, kept, upstream, stored, shown, job, answer,
                   excused, gitTroubles>>

Push ==
    /\ upstream < MaxCommits
    /\ upstream' = upstream + 1
    /\ UNCHANGED <<repository, stored, shown, job, answer, gitEdits, excused,
                   gitTroubles>>

\* git pull by hand: it takes index.lock, and files nobody changed move along.
OutsidePull ==
    /\ indexLock = "free" /\ head < upstream
    /\ \A f \in GitFiles : work[f] = TreeOf(head)[f]
    /\ gitIndex = head
    /\ gitEdits < MaxGitEdits /\ gitEdits' = gitEdits + 1
    /\ work' = TreeOf(upstream) /\ gitIndex' = upstream /\ head' = upstream
    /\ UNCHANGED <<indexLock, kept, upstream, stored, shown, job, answer, excused,
                   gitTroubles>>

\* The lock a crash left is removed by hand.
RemoveLeftLock ==
    /\ indexLock = "left"
    /\ indexLock' = "free"
    /\ UNCHANGED <<work, gitIndex, head, kept, upstream, stored, shown, job, answer,
                   gitEdits, excused, gitTroubles>>

\* The panel is killed.  Nothing at startup looks for what it was writing.
GitCrash ==
    /\ GitTrouble
    /\ job' = NoJob /\ stored' = NoPreview /\ answer' = "none"
    /\ indexLock' = (IF indexLock = "panel" THEN "left" ELSE indexLock)
    /\ kept' = kept \cup (IF job # NoJob /\ job.began THEN {job.copies} ELSE {})
    /\ UNCHANGED <<work, gitIndex, head, upstream, shown, gitEdits, excused>>

ApplyStep ==
    /\ job # NoJob
    /\ \/ Validate \/ Recheck \/ SwapFile \/ Verify \/ MoveIndex \/ MoveRef
       \/ UndoSwap \/ UndoIndex
       \/ \E f \in GitFiles : CheckFile(f) \/ Undo(f)
GitNext ==
    \/ \E p \in GitPages : Compare(p) \/ Discard(p) \/ Apply(p)
    \/ Expire \/ ApplyStep
    \/ \E f \in GitFiles : OutsideEdit(f) \/ PanelEdit(f)
    \/ Push \/ OutsidePull \/ RemoveLeftLock
    \/ GitCrash

GitSpec == GitInit /\ [][GitNext]_gitVars
----------------------------------------------------------------------------
(* Properties *)

Edited(c) == c.by = "user"

\* What somebody wrote outside the panel, or saved in another page, after the
\* comparison was made is not overwritten by its application, and not by the
\* rollback of an application either; only a write in the instant between the
\* check of a file and its rename can be.
GitEditsKept ==
    [][\A f \in GitFiles :
          (Edited(work[f]) /\ work'[f] # work[f] /\ gitEdits' = gitEdits) =>
              work[f] = job.preview.before[f] \/ work[f].n \in excused]_gitVars

\* An application ends in one of three ways, whatever fails and whoever writes
\* meanwhile: saved, with every chosen file, the index and the branch at the
\* result; refused, with every file and the index as they were; or, after a
\* rollback that could not finish and after a crash, with the original of every
\* file it replaced in the directory or in a recovery directory that stays.
EndsWell ==
    LET Kept(f) == work'[f] = job.preview.before[f] \/ Edited(work'[f])
        Saved(f) == work'[f] = job.result[f] \/ Edited(work'[f])
        Copied(f) == \E copies \in kept' : copies[f] = job.preview.before[f]
    IN CASE answer' = "saved" ->
              /\ gitIndex' = job.preview.target /\ head' = job.preview.target
              /\ \A f \in job.changed : Saved(f)
         [] answer' = "refused" ->
              /\ gitIndex' = job.preview.index
              /\ \A f \in job.changed : Kept(f)
         [] OTHER -> \A f \in job.changed : Kept(f) \/ Copied(f)
GitAllOrNothing ==
    [][(job # NoJob /\ job' = NoJob /\ job.began) => EndsWell]_gitVars

\* The application of a commit loses neither what others wrote nor what it replaced
\* (stack-git.ts:689-790).
GitKept == GitEditsKept /\ GitAllOrNothing
====
