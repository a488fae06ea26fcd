----------------------------- MODULE PanelPage -----------------------------
(***************************************************************************)
(* The page's side of a panel update: the reducer of                       *)
(* frontend/src/panel-update-machine.ts as operators from a page and an    *)
(* event to a step.  PanelUpdate drives it.                                *)
(*                                                                         *)
(* There is one release to update to, "new".  Deadlines are moments that   *)
(* may come at any time while they are armed; `expired` is the set of the  *)
(* dry runs that are too old to confirm.  A step carries the effects of    *)
(* the reducer: what is saved in the session storage is part of the page,  *)
(* a request of the status and an emit are for the caller to send.         *)
(***************************************************************************)
EXTENDS Integers, Sequences, SequencesExt

None == 0      \* no request

(* The phases in order.  "stopping" stands for the phases of the cutover,    *)
(* "starting-target" to "rolling-back", which nothing here tells apart.      *)
Running == <<"prepared", "downloaded", "stopping">>
FinalPhases == {"success", "failed-before-cutover", "recovered",
                "recovery-required"}
PhaseNames == ToSet(Running) \cup FinalPhases \cup {"none"}

PhaseRank(phase) ==
    CASE phase = "none" -> -1
      [] phase \in FinalPhases -> Len(Running)
      [] OTHER -> (CHOOSE i \in DOMAIN Running : Running[i] = phase) - 1

CanCancel(phase) == PhaseRank(phase) < PhaseRank("downloaded")

(* What the panel answers: its version and the operation it sees.           *)
NoOperation == [request |-> None, kind |-> "none", running |-> FALSE,
                phase |-> "none", outcome |-> "none"]
NoStatus   == [version |-> "none", op |-> NoOperation]
Unreadable == [version |-> "unreadable", op |-> NoOperation]

(* A node of the statechart.  armed: the deadline of the node counts.        *)
NoNode == [name |-> "idle", sub |-> "loading", request |-> None,
           phase |-> "none", seen |-> FALSE, armed |-> FALSE, quiet |-> FALSE,
           back |-> None, dialog |-> FALSE, shown |-> "none",
           pending |-> FALSE]
NoRecord == [stage |-> "none", request |-> None, phase |-> "none",
             success |-> FALSE]

(* A tab that was just opened: saved is what its session storage holds.      *)
Closed(saved) ==
    [open |-> FALSE, node |-> NoNode, link |-> "offline",
     status |-> NoStatus, closed |-> None, probe |-> None, build |-> "none",
     saved |-> saved]

NoEmit == [kind |-> "none", request |-> None, preview |-> None]
Stay(pg) == [page |-> pg, ask |-> "no", emit |-> NoEmit]
WithNode(pg, node) == Stay([pg EXCEPT !.node = node])
Emit(step, kind, request, preview) ==
    [step EXCEPT !.emit = [kind |-> kind, request |-> request,
                           preview |-> preview]]
Saving(step, record) == [step EXCEPT !.page.saved = record]
Clearing(step) == Saving(step, NoRecord)
Reloading(step) == [step EXCEPT !.page.open = FALSE]

ToRecord(node, stage, success) ==
    [stage |-> stage, request |-> node.request, phase |-> node.phase,
     success |-> success]

(* Ask for the status, if the panel can hear the page.                       *)
Ask(step, probe) ==
    IF step.page.link = "online"
    THEN [step EXCEPT !.ask = IF probe THEN "probe" ELSE "plain"]
    ELSE step

----------------------------------------------------------------------------
(* Idle, running and outcome nodes *)

IdleNode(sub) == [NoNode EXCEPT !.sub = sub]

Classify(pg) ==
    IdleNode(CASE pg.status = NoStatus -> "loading"
               [] pg.status.version = "new" -> "current"
               [] OTHER -> "available")

ApplyOperation(pg) ==
    IF pg.status.op.kind = "apply" /\ pg.status.op.request # pg.closed
    THEN pg.status.op ELSE NoOperation

OtherRunning(pg, request) ==
    ApplyOperation(pg).running /\ ApplyOperation(pg).request # request

RunningNode(request, phase) ==
    [NoNode EXCEPT !.name = "running", !.sub = "following",
                   !.request = request, !.phase = phase, !.seen = TRUE,
                   !.armed = TRUE]

(* Row 3: follow an update that runs.                                        *)
Observe(pg, op) ==
    LET node == RunningNode(op.request, op.phase)
    IN  Saving(WithNode(pg, node), ToRecord(node, "running", FALSE))

OutcomeKind(outcome) ==
    CASE outcome \in {"no-change", "refused", "failed-before-cutover"} ->
           "not-changed"
      [] outcome = "recovered" -> "rolled-back"
      [] outcome = "recovery-required" -> outcome
      [] OTHER -> "unknown"

(* I1: Updated needs the updater's success and the target's own answer.      *)
Judge(pg, op) ==
    IF op.outcome = "success"
    THEN IF pg.status.version = "new" THEN "updated" ELSE "unknown"
    ELSE OutcomeKind(op.outcome)

OutcomeNode(request, phase, sub) ==
    [NoNode EXCEPT !.name = "outcome", !.sub = sub, !.request = request,
                   !.phase = phase,
                   !.shown = IF sub = "updated" THEN "shown" ELSE "none"]

(* Updated on a page of the old build: save the result and load the new one. *)
LoadNewBuild(pg, request, phase) ==
    LET node == [OutcomeNode(request, phase, "updated")
                 EXCEPT !.shown = "reloading"]
    IN  Reloading(Saving(WithNode(pg, node), ToRecord(node, "finished", TRUE)))

(* Rows 1, 3 and 4 *)
EnterIdleMutant(pg) ==
    LET op == ApplyOperation(pg) IN
    CASE op.running -> Observe(pg, op)
      [] ~op.running /\ op.request # None ->
           WithNode(pg, OutcomeNode(op.request, op.phase, Judge(pg, op)))
      [] OTHER -> WithNode(pg, Classify(pg))
EnterIdle(pg) ==
    LET op == ApplyOperation(pg)
        sub == Judge(pg, op)
    IN  CASE op.running -> Observe(pg, op)
          [] ~op.running /\ op.request # None /\ sub = "updated"
               /\ pg.build # "new" -> LoadNewBuild(pg, op.request, op.phase)
          [] ~op.running /\ op.request # None
               /\ ~(sub = "updated" /\ pg.build # "new") ->
               WithNode(pg, OutcomeNode(op.request, op.phase, sub))
          [] OTHER -> WithNode(pg, Classify(pg))

----------------------------------------------------------------------------
(* BOOT and the connection *)

BootNode(saved) ==
    CASE saved.stage = "none" \/ (saved.stage = "finished" /\ ~saved.success) ->
           NoNode
      [] saved.stage = "finished" /\ saved.success ->
           [OutcomeNode(saved.request, saved.phase, "updated")
            EXCEPT !.pending = TRUE]
      [] OTHER ->
           [RunningNode(saved.request, saved.phase)
            EXCEPT !.seen = saved.stage = "running",
                   !.sub = IF saved.stage = "submitting" THEN "submitting"
                           ELSE "following"]

(* Rows 26 and 27 *)
Boot(pg, build) ==
    [Closed(IF pg.saved.stage = "finished" /\ ~pg.saved.success THEN NoRecord
            ELSE pg.saved)
     EXCEPT !.open = TRUE, !.build = build, !.node = BootNode(pg.saved)]

LinkUpMutant(pg) == WithNode([pg EXCEPT !.link = "online"], pg.node)
LinkUp(pg) ==
    LET up == [pg EXCEPT !.link = "online"]
        n == pg.node
        waits == n.name = "running" \/ n.pending
                   \/ (n.name = "preview" /\ n.sub = "checking")
        arms == waits \/ (n.name = "idle" /\ n.sub = "loading")
    IN  Ask(WithNode(up, IF arms
                         THEN [n EXCEPT !.armed = TRUE,
                                        !.quiet = @ /\ n.name # "running"]
                         ELSE n), waits)

LinkDown(pg) ==
    Stay(IF pg.link \in {"offline", "overdue"} THEN pg
         ELSE [pg EXCEPT !.link = "offline", !.probe = None])

AuthLost(pg) == Stay([pg EXCEPT !.link = "need-auth", !.probe = None])

----------------------------------------------------------------------------
(* TICK: a deadline of the node has passed *)

TickEnabled(pg, expired) ==
    LET n == pg.node IN
    \/ n.name = "idle" /\ n.sub = "loading" /\ n.armed
    \/ n.name = "preview" /\ n.sub = "ready" /\ n.request \in expired
    \/ n.name = "preview" /\ n.sub = "checking" /\ n.armed
         /\ pg.link = "online"
    \/ n.name = "running" /\ pg.link = "offline"
    \/ n.name = "running" /\ pg.link = "online" /\ n.armed
    \/ n.pending /\ n.armed /\ pg.link = "online"

Tick(pg) ==
    LET n == pg.node
        quiet == [n EXCEPT !.quiet = TRUE]
    IN  CASE n.name = "idle" -> WithNode(pg, IdleNode("manual"))
          [] n.name = "preview" /\ n.sub = "ready" -> WithNode(pg, Classify(pg))
          [] n.name = "preview" /\ n.sub = "checking" ->
               Ask(WithNode(pg, quiet), TRUE)
          [] n.name = "running" /\ pg.link = "offline" ->
               Stay([pg EXCEPT !.link = "overdue"])
          [] n.name = "running" /\ pg.link = "online" ->
               Ask(WithNode(pg, quiet), TRUE)
          [] OTHER -> Ask(Stay(pg), TRUE)

----------------------------------------------------------------------------
(* STATUS: a push, or the answer to a request of the page (solicited); an    *)
(* answer to the last probe may say that the helper is gone                  *)

Refused(pg) ==
    WithNode(pg, [pg.node EXCEPT !.sub = "refused", !.dialog = FALSE])

(* Rows 6, 7 and 8 *)
PreviewStatus(pg, probe) ==
    LET op == pg.status.op
        n == pg.node
        own == op.kind = "preview" /\ op.request = n.request
    IN  CASE op.kind = "apply" /\ op.running -> Observe(pg, op)
          [] ~(op.kind = "apply" /\ op.running) /\ n.sub # "checking" -> Stay(pg)
          [] n.sub = "checking" /\ own /\ op.running ->
               WithNode(pg, [n EXCEPT !.armed = TRUE])
          [] n.sub = "checking" /\ own /\ ~op.running ->
               IF op.outcome = "previewed"
               THEN WithNode(pg, [n EXCEPT !.sub = "ready"]) ELSE Refused(pg)
          [] OTHER -> IF probe THEN Refused(pg) ELSE Stay(pg)

(* Rows 15, 16 and 18: follow the phase forward, never back.                 *)
AdvanceMutant(pg, op) ==
    LET next == [pg.node EXCEPT !.seen = TRUE, !.armed = TRUE, !.quiet = FALSE,
                                !.phase = op.phase, !.sub = "following"]
    IN  Saving(WithNode(pg, next), ToRecord(next, "running", FALSE))
Advance(pg, op) ==
    LET n == pg.node
        forward == PhaseRank(op.phase) > PhaseRank(n.phase)
                     \/ (PhaseRank(op.phase) = PhaseRank(n.phase)
                           /\ op.phase # "none")
        phase == IF forward THEN op.phase ELSE n.phase
        sub == IF n.sub = "cancelling" /\ (~forward \/ CanCancel(phase))
               THEN "cancelling" ELSE "following"
        next == [n EXCEPT !.seen = TRUE, !.armed = TRUE, !.quiet = FALSE,
                          !.phase = phase, !.sub = sub]
        step == WithNode(pg, next)
    IN  IF n.seen /\ phase = n.phase THEN step
        ELSE Saving(step, ToRecord(next, "running", FALSE))

Ended(pg, request, phase, sub) ==
    LET node == OutcomeNode(request, phase, sub)
    IN  Saving(WithNode(pg, node), ToRecord(node, "finished", FALSE))

(* Rows 19 and 20 *)
FinishRunning(pg, op) ==
    LET n == pg.node
        phase == IF PhaseRank(op.phase) >= PhaseRank(n.phase)
                 THEN op.phase ELSE n.phase
    IN  IF Judge(pg, op) = "updated" THEN LoadNewBuild(pg, n.request, phase)
        ELSE Ended(pg, n.request, phase, Judge(pg, op))

PreviewReady(request) ==
    [NoNode EXCEPT !.name = "preview", !.sub = "ready", !.request = request]

(* Row 14: the request never reached the panel.                              *)
NotStarted(pg, expired) ==
    LET back == pg.node.back
        cleared == [pg EXCEPT !.saved = NoRecord]
    IN  IF back # None /\ back \notin expired /\ ~ApplyOperation(pg).running
        THEN WithNode(cleared, PreviewReady(back)) ELSE EnterIdle(cleared)

(* Rows 14 to 21 *)
RunningStatus(pg, probe, expired) ==
    LET n == pg.node
        op == pg.status.op
        own == op.kind = "apply" /\ op.request = n.request
    IN  CASE own -> IF op.running THEN Advance(pg, op) ELSE FinishRunning(pg, op)
          [] ~own /\ ~probe -> Stay(pg)
          [] ~own /\ probe /\ n.sub = "submitting" /\ ~n.seen ->
               NotStarted(pg, expired)
          [] OTHER ->
               IF OtherRunning(pg, n.request)
               THEN Observe(pg, ApplyOperation(pg))
               ELSE Ended(pg, n.request, n.phase, "unknown")

(* Rows 28 and 29: the result shown after the reload waits for a status.     *)
OutcomeStatus(pg, probe) ==
    LET n == pg.node
        op == pg.status.op
        own == op.kind = "apply" /\ op.request = n.request
        confirmed == WithNode(pg, [n EXCEPT !.pending = FALSE, !.armed = FALSE])
    IN  CASE n.shown # "reloading" /\ OtherRunning(pg, n.request) ->
               Observe(pg, ApplyOperation(pg))
          [] ~(n.shown # "reloading" /\ OtherRunning(pg, n.request))
               /\ ~n.pending -> Stay(pg)
          [] n.pending /\ own ->
               IF ~op.running /\ Judge(pg, op) = "updated" THEN confirmed
               ELSE Ended(pg, n.request, n.phase,
                          IF op.running THEN "unknown" ELSE Judge(pg, op))
          [] OTHER ->
               IF ~probe \/ op.kind = "apply" THEN Stay(pg)
               ELSE IF pg.status.version = "new" THEN confirmed
               ELSE Ended(pg, n.request, n.phase, "unknown")

(* No event but this one reads the operation of a status: it is not kept.    *)
OnStatus(pg, status, probe, expired) ==
    LET next == [pg EXCEPT !.status = status,
                           !.probe = IF probe THEN None ELSE @]
        step == CASE pg.node.name = "idle" -> EnterIdle(next)
                  [] pg.node.name = "preview" -> PreviewStatus(next, probe)
                  [] pg.node.name = "running" ->
                       RunningStatus(next, probe, expired)
                  [] OTHER -> OutcomeStatus(next, probe)
    IN  [step EXCEPT !.page.status.op = NoOperation]

Push(pg, status, expired) ==
    IF status = Unreadable THEN Stay(pg)
    ELSE OnStatus(pg, status, FALSE, expired)

----------------------------------------------------------------------------
(* ACK: a status, an error code or "lost"; an unreadable status in the       *)
(* answer to an action counts as lost                                        *)

StatusAck(pg, ack, expired) ==
    IF ack.error = "none" /\ ack.status # Unreadable
    THEN OnStatus(pg, ack.status, ack.request = pg.probe, expired)
    ELSE LET next == [pg EXCEPT !.probe = IF ack.request = @ THEN None ELSE @]
         IN  IF pg.node.name = "idle" /\ pg.node.sub = "loading"
             THEN WithNode(next, IdleNode("manual")) ELSE Stay(next)

PreviewAck(pg, ack, expired) ==
    LET heard == [pg EXCEPT !.node.armed = TRUE]
    IN  CASE ack.error = "none" -> OnStatus(heard, ack.status, FALSE, expired)
          [] ack.error = "unreadable" -> WithNode(heard, Classify(heard))
          [] ack.error = "lost" -> Ask(Stay(heard), TRUE)
          [] OTHER -> Refused(heard)

ApplyRefused(pg, error, expired) ==
    LET back == pg.node.back
        ready == PreviewReady(IF back = None THEN pg.node.request ELSE back)
    IN  Clearing(IF error \in {"password", "unreadable"} /\ back # None
                      /\ back \notin expired
                 THEN WithNode(pg, [ready EXCEPT !.dialog = TRUE])
                 ELSE Refused(WithNode(pg, ready).page))

(* Rows 12 and 13 *)
ApplyAck(pg, ack, expired) ==
    LET settled == [pg EXCEPT !.node.armed = TRUE]
    IN  CASE ack.error = "none" -> OnStatus(settled, ack.status, FALSE, expired)
          [] ack.error = "lost" -> Stay(settled)
          [] OTHER -> IF pg.node.sub = "submitting" /\ ~pg.node.seen
                      THEN ApplyRefused(pg, ack.error, expired)
                      ELSE Stay(settled)

(* Row 18 *)
CancelAck(pg, ack, expired) ==
    CASE ack.error = "none" -> OnStatus(pg, ack.status, FALSE, expired)
      [] ack.error = "lost" \/ pg.node.sub # "cancelling" -> Stay(pg)
      [] OTHER -> WithNode(pg, [pg.node EXCEPT !.sub = "following"])

DismissAck(pg, ack, expired) ==
    LET reopened == [pg EXCEPT !.closed = None]
    IN  CASE pg.closed # ack.request -> Stay(pg)
          [] pg.closed = ack.request /\ ack.error = "none" ->
               OnStatus(pg, ack.status, FALSE, expired)
          [] OTHER -> IF pg.node.name = "idle" /\ pg.node.sub = "loading"
                      THEN Ask(Stay([reopened EXCEPT !.node.armed = TRUE]),
                               FALSE)
                      ELSE Stay(reopened)

OnAck(pg, answer, expired) ==
    LET n == pg.node
        ack == IF answer.status = Unreadable /\ answer.kind # "status"
                 THEN [answer EXCEPT !.error = "lost"] ELSE answer
        own == n.request = ack.request
    IN  CASE ack.kind = "status" -> StatusAck(pg, ack, expired)
          [] ack.kind = "dismiss" -> DismissAck(pg, ack, expired)
          [] ack.kind = "preview" /\ own /\ n.name = "preview"
               /\ n.sub = "checking" -> PreviewAck(pg, ack, expired)
          [] ack.kind = "apply" /\ own /\ n.name = "running" ->
               ApplyAck(pg, ack, expired)
          [] ack.kind = "cancel" /\ own /\ n.name = "running" ->
               CancelAck(pg, ack, expired)
          [] OTHER -> Stay(pg)

----------------------------------------------------------------------------
(* What the owner does *)

Confirmable(pg) ==
    pg.node.name = "preview" /\ pg.node.sub = "ready" /\ ~pg.node.dialog
Confirm(pg) == WithNode(pg, [pg.node EXCEPT !.dialog = TRUE])

(* Row 5 *)
Checkable(pg) ==
    pg.node.name = "idle" /\ pg.node.sub = "available" /\ pg.link = "online"
Check(pg, request) ==
    Emit(WithNode(pg, [NoNode EXCEPT !.name = "preview", !.sub = "checking",
                                     !.request = request]),
         "preview", request, None)

(* Row 11 *)
Submittable(pg, expired) ==
    /\ pg.node.name = "preview" /\ pg.node.sub = "ready" /\ pg.node.dialog
    /\ pg.link = "online" /\ pg.node.request \notin expired
Submit(pg, request) ==
    LET node == [RunningNode(request, "none")
                 EXCEPT !.sub = "submitting", !.seen = FALSE, !.armed = FALSE,
                        !.back = pg.node.request]
        step == Saving(WithNode(pg, node), ToRecord(node, "submitting", FALSE))
    IN  Emit(step, "apply", request, pg.node.request)

(* Row 17 *)
Cancellable(pg) ==
    /\ pg.node.name = "running" /\ pg.node.sub = "following"
    /\ pg.node.phase \in {"none", "prepared"} /\ CanCancel(pg.node.phase)
    /\ pg.link = "online"
Cancel(pg) ==
    Emit(WithNode(pg, [pg.node EXCEPT !.sub = "cancelling"]),
         "cancel", pg.node.request, None)

(* Row 30: close the result for everyone; offline it is only hidden here.    *)
Dismissable(pg) == pg.node.name = "outcome" /\ pg.node.shown # "reloading"
Dismiss(pg) ==
    IF pg.link # "online" THEN Clearing(WithNode(pg, Classify(pg)))
    ELSE LET closed == [pg EXCEPT !.closed = pg.node.request]
         IN  Emit(Clearing(WithNode(closed,
                               [IdleNode("loading") EXCEPT !.armed = TRUE])),
                  "dismiss", pg.node.request, None)

(* Close the dialog, the dry run or the result on this page only.            *)
Closable(pg) == pg.node.name = "preview" \/ Dismissable(pg)
Close(pg) ==
    LET closed == [pg EXCEPT !.closed = pg.node.request] IN
    CASE pg.node.name = "preview" /\ pg.node.dialog ->
           WithNode(pg, [pg.node EXCEPT !.dialog = FALSE])
      [] pg.node.name = "preview" /\ ~pg.node.dialog ->
           WithNode(pg, Classify(pg))
      [] OTHER -> Clearing(WithNode(closed, Classify(closed)))
====
