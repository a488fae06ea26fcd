---------------------------- MODULE UpdatePhases ----------------------------
(***************************************************************************)
(* What the updater promises to whoever reads its journal: docs/           *)
(* self-updates.md and the panel's observer know an update only by the     *)
(* phase, the two releases and the panel that runs.  Locks, processes,     *)
(* files, copies and the restore container are not part of it; Updater is  *)
(* shown to implement it in UpdaterRefinement.                             *)
(***************************************************************************)
EXTENDS Naturals

CONSTANTS Releases,     \* what a panel may be moved to
          Operations    \* identities of operations

None == 0

VARIABLES
    journal,    \* the operation: its identity, phase and two releases
    last,       \* the last operation that succeeded: rollback undoes it
    panel       \* the release in the panel's container, and whether it runs

vars == <<journal, last, panel>>

\* Phases that promise a running panel and accept the next update.
Settled == {"none", "success", "recovered", "failed-before-cutover"}
\* Phases before the panel is touched.
Preparing == {"prepared", "downloaded"}
\* Phases in which the previous release is the only one that may be started,
\* and those in which both releases may be.
Backwards == {"stopping", "backing-up", "rolling-back"}
Starting == {"starting-target", "checking-target"}

\* The order of an update that meets no failure.  A first installation has
\* nothing to back up.
Follows(from, to) ==
    \/ from = "prepared" /\ to = "downloaded"
    \/ from = "downloaded" /\ to = "stopping"
    \/ from = "stopping" /\ to = "backing-up"
    \/ from = "stopping" /\ to = "starting-target" /\ journal.from = None
    \/ from = "backing-up" /\ to = "starting-target"
    \/ from = "starting-target" /\ to = "checking-target"

Serves(release) == panel = [image |-> release, running |-> TRUE]
Enter(phase) == journal' = [journal EXCEPT !.phase = phase]

Init ==
    /\ journal = [id |-> None, phase |-> "none", from |-> None, to |-> None]
    /\ last = [id |-> None, from |-> None, to |-> None]
    /\ panel \in [image : {None}, running : {FALSE}]
                    \cup [image : Releases, running : {TRUE}]

\* An update is recorded over a settled journal, from the release that runs.
Begin ==
    /\ journal.phase \in Settled
    /\ panel.image # None => panel.running
    /\ \E i \in Operations \ {journal.id, last.id}, r \in Releases :
          journal' = [id |-> i, phase |-> "prepared", from |-> panel.image, to |-> r]
    /\ UNCHANGED <<last, panel>>

Advance ==
    /\ \E phase \in Preparing \cup Backwards \cup Starting :
          Follows(journal.phase, phase) /\ Enter(phase)
    /\ UNCHANGED <<last, panel>>

\* The target already runs: nothing to do.
Keep ==
    /\ journal.phase = "prepared" /\ journal.from = journal.to
    /\ Enter("success")
    /\ UNCHANGED <<last, panel>>

Abandon ==
    /\ journal.phase \in Preparing
    /\ Enter("failed-before-cutover")
    /\ UNCHANGED <<last, panel>>

\* What is started, stopped or replaced, and under which phases.
MovePanel ==
    /\ \E release \in {panel.image, journal.from, journal.to}, up \in BOOLEAN :
          /\ \/ journal.phase \in Starting
             \/ journal.phase \in Backwards /\ release \in {panel.image, journal.from}
          /\ panel' = [image |-> release, running |-> up]
    /\ UNCHANGED <<journal, last>>

\* The target serves: first it becomes what a rollback undoes, then the update
\* is a success.
Record ==
    /\ journal.phase \in Starting
    /\ Serves(journal.to)
    /\ last' = [id |-> journal.id, from |-> journal.from, to |-> journal.to]
    /\ UNCHANGED <<journal, panel>>
Commit ==
    /\ journal.phase \in Starting
    /\ Serves(journal.to)
    /\ journal.from # None => last.id = journal.id
    /\ Enter("success")
    /\ UNCHANGED <<last, panel>>

\* The previous release serves again.
Recover ==
    /\ journal.phase \in Backwards \cup Starting
    /\ Serves(journal.from)
    /\ Enter("recovered")
    /\ UNCHANGED <<last, panel>>

GiveUp ==
    /\ journal.phase \in Backwards \cup Starting
    /\ Enter("recovery-required")
    /\ UNCHANGED <<last, panel>>

\* Back to the previous release: of a pending update, or of the last success.
RollBack ==
    /\ journal.phase \in Backwards \cup Starting \cup {"recovery-required"}
    /\ journal.from # None
    /\ Enter("rolling-back")
    /\ UNCHANGED <<last, panel>>
Undo ==
    /\ journal.phase \in Settled
    /\ last.id # None
    /\ journal' = [id |-> last.id, phase |-> "rolling-back",
                   from |-> last.from, to |-> last.to]
    /\ UNCHANGED <<last, panel>>

\* Forward again to the target of a pending update.
Resume ==
    /\ journal.phase \in Starting \cup {"downloaded", "recovery-required"}
    /\ Enter("starting-target")
    /\ UNCHANGED <<last, panel>>

Next ==
    \/ Begin \/ Advance \/ Keep \/ Abandon \/ MovePanel \/ Record \/ Commit
    \/ Recover \/ GiveUp \/ RollBack \/ Undo \/ Resume

Spec == Init /\ [][Next]_vars
====
