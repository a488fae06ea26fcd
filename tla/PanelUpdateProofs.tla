------------------------- MODULE PanelUpdateProofs -------------------------
(***************************************************************************)
(* What a page says of an update is what became of it: proofs about the    *)
(* reducer (PanelPage) and the panel, its helpers and its pages            *)
(* (PanelUpdate), for any number of pages, requests and troubles.          *)
(*                                                                         *)
(* In this order: the shapes and the truth of a status, a page, a memory;  *)
(* the invariant; what each event does to a page; what each step does to   *)
(* the panel's memory and its messages; what it does to the host; what the *)
(* panel reads there; the steps of the panel, of the helpers and of the    *)
(* pages; and the theorems.                                                *)
(***************************************************************************)
EXTENDS PanelUpdate, FiniteSetTheorems, TLAPS

----------------------------------------------------------------------------
(* The shapes of what is passed around                                      *)

\* The names of the code: states, phases, outcomes, reasons.
Text == {"ack", "apply", "available", "broken", "busy", "cancel", "cancelling",
         "check", "checking", "created", "current", "dismiss", "downloaded",
         "exited", "failed-before-cutover", "finished", "following", "idle",
         "kill", "killed", "loading", "lost", "manual", "need-auth", "new",
         "no", "no-change", "none", "not-changed", "not-found", "observe",
         "offline", "old", "one", "online", "outcome", "overdue", "password",
         "plain", "prepared", "preview", "previewed", "probe", "push", "read",
         "ready", "recovered", "recovery-required", "refused", "reloading",
         "rolled-back", "run", "running", "sent", "shown", "stale-preview",
         "start-failed", "status", "stopping", "submitting", "success",
         "too-late", "unknown", "unreadable", "updated", "wait", "zero"}

Ids == Requests \cup {None}
\* The number of a question of the status is the least that is free.
AckIds == Ids \cup {Min(s) : s \in (SUBSET (1..MaxAsks)) \ {{}}}

OpT == [request : Ids, kind : Text, running : BOOLEAN, phase : PhaseNames,
        outcome : Text]
StatusT == [version : Text, op : OpT]
NodeT == [name : Text, sub : Text, request : Ids, phase : PhaseNames,
          seen : BOOLEAN, armed : BOOLEAN, quiet : BOOLEAN, back : Ids,
          dialog : BOOLEAN, shown : Text, pending : BOOLEAN]
RecordT == [stage : Text, request : Ids, phase : PhaseNames, success : BOOLEAN]
PageT == [open : BOOLEAN, node : NodeT, link : Text, status : StatusT,
          closed : AckIds, probe : AckIds, build : Text, saved : RecordT]
EmitT == [kind : Text, request : Ids, preview : Ids]
StepT == [page : PageT, ask : Text, emit : EmitT]
\* Only the questions of the status are numbered apart.
CallT == {c \in [page : SUBSET Pages, kind : Text, request : AckIds, preview : Ids,
                 step : Text] : c.kind # "status" => c.request \in Ids}
JobT == {c \in CallT : c.kind # "status"}
States == {"none", "created", "running", "broken", "exited"}
HelperT == [request : Ids, from : Text, state : States, phase : PhaseNames,
            result : Text, exit : Text, noChange : BOOLEAN, term : BOOLEAN]
SessionT == [queue : Seq(JobT), calls : SUBSET CallT,
             reading : [step : Text, status : StatusT, waiters : SUBSET CallT],
             refresh : BOOLEAN, follow : SUBSET Ids, published : StatusT]

----------------------------------------------------------------------------
(* What a status, a node and a record may say, given the final phases each   *)
(* update has reached, the updates that can no longer stop the panel and the *)
(* builds on which a page may show an update as installed                    *)

Spared == {"no-change", "refused", "failed-before-cutover"}
Attained == {"success", "recovered", "recovery-required"}

OpTrue(op, ends, safe) ==
    op.kind = "apply" =>
        /\ op.outcome \in Attained => op.outcome \in ends[op.request]
        /\ op.outcome \in Spared => op.request \in safe

StatusTrue(s, ends, safe) == s \in StatusT /\ OpTrue(s.op, ends, safe)

NodeTrue(n, ends, safe) ==
    n.name = "outcome" =>
        /\ n.sub = "updated" => "success" \in ends[n.request]
        /\ n.sub = "rolled-back" => "recovered" \in ends[n.request]
        /\ n.sub = "recovery-required" => n.sub \in ends[n.request]
        /\ n.sub = "not-changed" => n.request \in safe

\* The record is about the update on the screen and not ahead of it.
Follows(pg) ==
    pg.saved.request # None =>
        /\ pg.node.name \notin {"idle", "preview"}
        /\ pg.saved.request = pg.node.request
        /\ PhaseRank(pg.saved.phase) <= PhaseRank(pg.node.phase)

PageTrue(pg, ends, safe, builds) ==
    /\ pg \in PageT
    /\ StatusTrue(pg.status, ends, safe)
    /\ NodeTrue(pg.node, ends, safe)
    /\ pg.saved.success => "success" \in ends[pg.saved.request]
    /\ pg.saved.stage = "none" => pg.saved.request = None
    /\ pg.open /\ pg.node.shown = "shown" => pg.build \in builds
    /\ Follows(pg)

\* PhaseForward, for one page.
Forward(was, now) ==
    was.request # None /\ now.request = was.request =>
        PhaseRank(now.phase) >= PhaseRank(was.phase)

----------------------------------------------------------------------------
(* The invariant                                                            *)

\* Updates whose helper the panel may still start.
Applies(s) == {c \in s.calls : c.kind = "apply"}
Jobs(s) == {i \in DOMAIN s.queue :
              s.queue[i].kind = "apply" /\ s.queue[i].step # "observe"}
Asked(s) == {c.request : c \in Applies(s)} \cup {s.queue[i].request : i \in Jobs(s)}

\* An update is asked for once.
Distinct(s) ==
    /\ \A c, d \in Applies(s) : c.request = d.request => c = d
    /\ \A i, j \in Jobs(s) : s.queue[i].request = s.queue[j].request => i = j
    /\ \A c \in Applies(s), i \in Jobs(s) : c.request # s.queue[i].request

\* What the panel process has in memory.
SessionTrue(s, ends, safe) ==
    /\ s \in SessionT
    /\ IsFiniteSet(s.calls) /\ IsFiniteSet(s.reading.waiters)
    /\ Distinct(s)
    /\ StatusTrue(s.reading.status, ends, safe)

Messages(ends, safe) ==
    {m \in [type : Text, kind : Text, request : AckIds, status : StatusT,
            error : Text] : OpTrue(m.status.op, ends, safe)}

\* The updates that were carried out, or are.
Begun == touched \cup {previous, journal.request, update.request}
Ends == [r \in Ids |-> IF r = None THEN {} ELSE reached[r]]

Cutover == {"stopping", "recovery-required"}
Unharmed(r) ==
    r \notin touched /\ previous # r /\ (journal.request = r => journal.phase \notin Cutover)
Untouchable ==
    {r \in Requests : /\ r <= lastRequest /\ r \notin Asked(session) /\ Unharmed(r)
                      /\ update.request = r => update.state \in {"exited", "broken"}}
Builds == IF Undone THEN Text ELSE {"new"}

Typed ==
    /\ helper \in [Kinds -> HelperT]
    /\ journal \in [request : Ids, phase : PhaseNames]
    /\ previous \in Ids /\ version \in Versions
    /\ touched \subseteq Requests
    /\ reached \in [Requests -> SUBSET Text]
    /\ lastRequest \in 0..MaxRequests

\* An update that is asked for has not begun.
Once ==
    /\ Asked(session) \subseteq 1..lastRequest
    /\ Asked(session) \cap Begun = {}
    /\ Begun \subseteq 0..lastRequest

\* What a helper of an update has done, by the last phase it wrote.
HelperTrue ==
    LET r == update.request IN
    /\ update.state = "none" => r = None
    /\ update.state # "none" => r \in Requests
    /\ update.state = "created" => update.phase = "none"
    /\ update.state \in {"created", "broken"} \/ (update.state = "running" /\ update.phase = "none")
         => r \notin touched /\ previous # r /\ journal.request # r
    /\ update.state = "running" /\ update.phase # "none"
         => journal = [request |-> r, phase |-> update.phase]
    /\ update.noChange => update.phase = "success" /\ Unharmed(r)
    /\ update.state # "exited" => update.result = "none"
    /\ update.result \in Attained => update.result \in reached[r]
    /\ update.result \in Spared => Unharmed(r)

JournalTrue ==
    /\ journal.phase \in Attained =>
         journal.request \in Requests /\ journal.phase \in reached[journal.request]
    /\ journal.phase \in {"prepared", "downloaded", "failed-before-cutover"} =>
         journal.request \notin touched /\ previous # journal.request
    /\ journal.request = None => journal.phase = "none"
    /\ previous # None => "success" \in reached[previous]

\* Without a rollback of a success the panel stays on the new release.
Progress ==
    (\E r \in Requests : "success" \in reached[r]) /\ ~Undone =>
        version = "new" /\ journal.phase \notin Cutover \cup {"downloaded"}

HostTrue == Typed /\ Once /\ HelperTrue /\ JournalTrue /\ Progress

PanelTrue == SessionTrue(session, Ends, Untouchable)
MailTrue == mail \in [Pages -> Seq(Messages(Ends, Untouchable))]
PagesTrue ==
    /\ DOMAIN pages = Pages
    /\ \A p \in Pages : PageTrue(pages[p], Ends, Untouchable, Builds)

PanelInv == HostTrue /\ PanelTrue /\ MailTrue /\ PagesTrue

----------------------------------------------------------------------------
(* The reducer                                                              *)

LEMMA Texts ==
    /\ "ack" \in Text /\ "apply" \in Text /\ "available" \in Text
    /\ "broken" \in Text /\ "busy" \in Text /\ "cancel" \in Text
    /\ "cancelling" \in Text /\ "check" \in Text /\ "checking" \in Text
    /\ "created" \in Text /\ "current" \in Text /\ "dismiss" \in Text
    /\ "downloaded" \in Text /\ "exited" \in Text
    /\ "failed-before-cutover" \in Text /\ "finished" \in Text
    /\ "following" \in Text /\ "idle" \in Text /\ "kill" \in Text
    /\ "killed" \in Text /\ "loading" \in Text /\ "lost" \in Text
    /\ "manual" \in Text /\ "need-auth" \in Text /\ "new" \in Text
    /\ "no" \in Text /\ "no-change" \in Text /\ "none" \in Text
    /\ "not-changed" \in Text /\ "not-found" \in Text /\ "observe" \in Text
    /\ "offline" \in Text /\ "old" \in Text /\ "one" \in Text
    /\ "online" \in Text /\ "outcome" \in Text /\ "overdue" \in Text
    /\ "password" \in Text /\ "plain" \in Text /\ "prepared" \in Text
    /\ "preview" \in Text /\ "previewed" \in Text /\ "probe" \in Text
    /\ "push" \in Text /\ "read" \in Text /\ "ready" \in Text
    /\ "recovered" \in Text /\ "recovery-required" \in Text
    /\ "refused" \in Text /\ "reloading" \in Text /\ "rolled-back" \in Text
    /\ "run" \in Text /\ "running" \in Text /\ "sent" \in Text
    /\ "shown" \in Text /\ "stale-preview" \in Text /\ "start-failed" \in Text
    /\ "status" \in Text /\ "stopping" \in Text /\ "submitting" \in Text
    /\ "success" \in Text /\ "too-late" \in Text /\ "unknown" \in Text
    /\ "unreadable" \in Text /\ "updated" \in Text /\ "wait" \in Text
    /\ "zero" \in Text
BY DEF Text

LEMMA Phases ==
    PhaseNames = {"none", "prepared", "downloaded", "stopping", "success",
                  "failed-before-cutover", "recovered", "recovery-required"}
BY SMT DEF PhaseNames, Running, FinalPhases, ToSet

LEMMA Ranks == \A phase \in PhaseNames : PhaseRank(phase) \in Int
BY Phases, SMT DEF PhaseRank, Running, FinalPhases

\* What an event may do to a page.
StepTrue(step, was, ends, safe, builds) ==
    /\ step \in StepT
    /\ PageTrue(step.page, ends, safe, builds)
    /\ Forward(was.saved, step.page.saved)

\* A step that sends nothing but a question.
Quiet(step, was, ends, safe, builds) ==
    StepTrue(step, was, ends, safe, builds) /\ step.emit = NoEmit

LEMMA StayTrue ==
    ASSUME NEW ends, NEW safe, NEW builds, NEW pg,
           PageTrue(pg, ends, safe, builds)
    PROVE  Quiet(Stay(pg), pg, ends, safe, builds)
<1>1. PhaseRank(pg.saved.phase) \in Int
  BY Ranks DEF PageTrue, PageT, RecordT
<1>2. Stay(pg).page = pg /\ Stay(pg).emit = NoEmit /\ pg \in PageT
  BY DEF Stay, NoEmit, PageTrue
<1>3. Stay(pg) \in StepT
  BY <1>2, Texts DEF Stay, NoEmit, StepT, EmitT, Ids
<1>4. Forward(pg.saved, pg.saved)
  BY <1>1 DEF Forward
<1> QED
  BY <1>2, <1>3, <1>4 DEF StepTrue, Quiet

\* The fields of the shapes above.
LEMMA Fields ==
    ASSUME NEW pg \in PageT
    PROVE  /\ pg.node \in NodeT /\ pg.saved \in RecordT /\ pg.status \in StatusT
           /\ pg.status.op \in OpT
           /\ PhaseRank(pg.node.phase) \in Int /\ PhaseRank(pg.saved.phase) \in Int
           /\ PhaseRank(pg.status.op.phase) \in Int
BY Ranks DEF PageT, NodeT, RecordT, StatusT, OpT

LEMMA WithNodeIs ==
    ASSUME NEW pg \in PageT, NEW node \in NodeT
    PROVE  /\ WithNode(pg, node) \in StepT
           /\ WithNode(pg, node).page \in PageT
           /\ WithNode(pg, node).page.node = node
           /\ WithNode(pg, node).page.saved = pg.saved
           /\ WithNode(pg, node).page.status = pg.status
           /\ WithNode(pg, node).page.open = pg.open
           /\ WithNode(pg, node).page.build = pg.build
           /\ WithNode(pg, node).page.link = pg.link
           /\ WithNode(pg, node).emit = NoEmit
<1> DEFINE next == [pg EXCEPT !.node = node]
<1>1. next \in PageT /\ next.node = node /\ next.saved = pg.saved
      /\ next.status = pg.status /\ next.open = pg.open /\ next.build = pg.build
      /\ next.link = pg.link
  BY DEF PageT
<1>2. WithNode(pg, node) = [page |-> next, ask |-> "no", emit |-> NoEmit]
  BY DEF WithNode, Stay
<1>3. NoEmit \in EmitT /\ "no" \in Text
  BY Texts DEF NoEmit, EmitT, Ids
<1> HIDE DEF next
<1> QED
  BY <1>1, <1>2, <1>3 DEF StepT

LEMMA SavingIs ==
    ASSUME NEW step \in StepT, NEW record \in RecordT
    PROVE  /\ Saving(step, record) \in StepT
           /\ Saving(step, record).page \in PageT
           /\ Saving(step, record).page.node = step.page.node
           /\ Saving(step, record).page.saved = record
           /\ Saving(step, record).page.status = step.page.status
           /\ Saving(step, record).page.open = step.page.open
           /\ Saving(step, record).page.build = step.page.build
           /\ Saving(step, record).emit = step.emit
<1> DEFINE next == [step.page EXCEPT !.saved = record]
<1>1. step.page \in PageT /\ step.ask \in Text /\ step.emit \in EmitT
  BY DEF StepT
<1>2. next \in PageT /\ next.node = step.page.node /\ next.saved = record
      /\ next.status = step.page.status /\ next.open = step.page.open
      /\ next.build = step.page.build
  BY <1>1 DEF PageT
<1>3. Saving(step, record) = [page |-> next, ask |-> step.ask, emit |-> step.emit]
  BY DEF Saving, StepT
<1> HIDE DEF next
<1> QED
  BY <1>1, <1>2, <1>3 DEF StepT

LEMMA ReloadingIs ==
    ASSUME NEW step \in StepT
    PROVE  /\ Reloading(step) \in StepT
           /\ Reloading(step).page \in PageT
           /\ Reloading(step).page.node = step.page.node
           /\ Reloading(step).page.saved = step.page.saved
           /\ Reloading(step).page.status = step.page.status
           /\ Reloading(step).page.open = FALSE
           /\ Reloading(step).emit = step.emit
<1> DEFINE next == [step.page EXCEPT !.open = FALSE]
<1>1. step.page \in PageT /\ step.ask \in Text /\ step.emit \in EmitT
  BY DEF StepT
<1>2. next \in PageT /\ next.node = step.page.node /\ next.saved = step.page.saved
      /\ next.status = step.page.status /\ next.open = FALSE
  BY <1>1 DEF PageT
<1>3. Reloading(step) = [page |-> next, ask |-> step.ask, emit |-> step.emit]
  <2>1. Reloading(step) = [step EXCEPT !.page = next]
    BY DEF Reloading
  <2>2. \A v : [step EXCEPT !.page = v] = [page |-> v, ask |-> step.ask, emit |-> step.emit]
    BY DEF StepT
  <2> HIDE DEF next
  <2> QED
    BY <2>1, <2>2
<1> HIDE DEF next
<1> QED
  BY <1>1, <1>2, <1>3 DEF StepT

LEMMA ToRecordIs ==
    ASSUME NEW node \in NodeT, NEW stage \in Text, NEW success \in BOOLEAN
    PROVE  /\ ToRecord(node, stage, success) \in RecordT
           /\ ToRecord(node, stage, success).request = node.request
           /\ ToRecord(node, stage, success).phase = node.phase
           /\ ToRecord(node, stage, success).success = success
           /\ ToRecord(node, stage, success).stage = stage
BY DEF ToRecord, RecordT, NodeT

LEMMA NoRecordIs == NoRecord \in RecordT /\ NoRecord.request = None /\ NoRecord.success = FALSE
BY Texts, Phases DEF NoRecord, RecordT, Ids

\* The node changes and the record stays.
LEMMA Keeps ==
    ASSUME NEW ends, NEW safe, NEW builds, NEW pg, NEW node \in NodeT,
           PageTrue(pg, ends, safe, builds),
           NodeTrue(node, ends, safe),
           pg.open /\ node.shown = "shown" => pg.build \in builds,
           pg.saved.request # None =>
               /\ node.name \notin {"idle", "preview"}
               /\ node.request = pg.node.request
               /\ PhaseRank(pg.node.phase) <= PhaseRank(node.phase)
    PROVE  Quiet(WithNode(pg, node), pg, ends, safe, builds)
<1>1. pg \in PageT
  BY DEF PageTrue
<1>2. PhaseRank(pg.node.phase) \in Int /\ PhaseRank(pg.saved.phase) \in Int
      /\ PhaseRank(node.phase) \in Int
  BY <1>1, Fields, Ranks DEF NodeT
<1> DEFINE step == WithNode(pg, node)
<1>3. step \in StepT /\ step.page \in PageT /\ step.page.node = node
      /\ step.page.saved = pg.saved /\ step.page.status = pg.status
      /\ step.page.open = pg.open /\ step.page.build = pg.build /\ step.emit = NoEmit
  BY <1>1, WithNodeIs
<1> HIDE DEF step
<1>4. PageTrue(step.page, ends, safe, builds)
  BY <1>2, <1>3 DEF PageTrue, Follows
<1>5. Forward(pg.saved, step.page.saved)
  BY <1>2, <1>3 DEF Forward
<1> QED
  BY <1>3, <1>4, <1>5 DEF StepTrue, Quiet, step

\* The node changes and is saved.
LEMMA Saves ==
    ASSUME NEW ends, NEW safe, NEW builds, NEW pg, NEW node \in NodeT,
           NEW stage \in Text \ {"none"}, NEW success \in BOOLEAN,
           PageTrue(pg, ends, safe, builds),
           NodeTrue(node, ends, safe),
           node.name \notin {"idle", "preview"},
           success => "success" \in ends[node.request],
           pg.saved.request # None /\ pg.saved.request = node.request =>
               PhaseRank(pg.saved.phase) <= PhaseRank(node.phase)
    PROVE  /\ (pg.open /\ node.shown = "shown" => pg.build \in builds)
                  => Quiet(Saving(WithNode(pg, node), ToRecord(node, stage, success)),
                           pg, ends, safe, builds)
           /\ Quiet(Reloading(Saving(WithNode(pg, node), ToRecord(node, stage, success))),
                    pg, ends, safe, builds)
<1>1. pg \in PageT
  BY DEF PageTrue
<1>2. PhaseRank(pg.saved.phase) \in Int /\ PhaseRank(node.phase) \in Int
  BY <1>1, Fields, Ranks DEF NodeT
<1> DEFINE record == ToRecord(node, stage, success)
           step == Saving(WithNode(pg, node), record)
           gone == Reloading(step)
<1>3. record \in RecordT /\ record.request = node.request /\ record.phase = node.phase
      /\ record.success = success /\ record.stage # "none"
  BY ToRecordIs
<1> HIDE DEF record
<1>4. step \in StepT /\ step.page \in PageT /\ step.page.node = node
      /\ step.page.saved = record /\ step.page.status = pg.status
      /\ step.page.open = pg.open /\ step.page.build = pg.build /\ step.emit = NoEmit
  BY <1>1, <1>3, WithNodeIs, SavingIs
<1> HIDE DEF step
<1>5. gone \in StepT /\ gone.page \in PageT /\ gone.page.node = node
      /\ gone.page.saved = record /\ gone.page.status = pg.status
      /\ gone.page.open = FALSE /\ gone.emit = NoEmit
  BY <1>4, ReloadingIs
<1> HIDE DEF gone
<1>6. PageTrue(gone.page, ends, safe, builds)
  BY <1>2, <1>3, <1>5 DEF PageTrue, Follows
<1>7. (pg.open /\ node.shown = "shown" => pg.build \in builds)
        => PageTrue(step.page, ends, safe, builds)
  BY <1>2, <1>3, <1>4 DEF PageTrue, Follows
<1>8. Forward(pg.saved, step.page.saved) /\ Forward(pg.saved, gone.page.saved)
  BY <1>2, <1>3, <1>4, <1>5 DEF Forward
<1> QED
  BY <1>4, <1>5, <1>6, <1>7, <1>8 DEF StepTrue, Quiet, record, step, gone

\* The node changes and the record is dropped.
LEMMA Drops ==
    ASSUME NEW ends, NEW safe, NEW builds, NEW pg, NEW node \in NodeT,
           PageTrue(pg, ends, safe, builds),
           NodeTrue(node, ends, safe),
           pg.open /\ node.shown = "shown" => pg.build \in builds
    PROVE  Quiet(Clearing(WithNode(pg, node)), pg, ends, safe, builds)
<1>1. pg \in PageT
  BY DEF PageTrue
<1> DEFINE step == Clearing(WithNode(pg, node))
<1>2. step \in StepT /\ step.page \in PageT /\ step.page.node = node
      /\ step.page.saved = NoRecord /\ step.page.status = pg.status
      /\ step.page.open = pg.open /\ step.page.build = pg.build /\ step.emit = NoEmit
  BY <1>1, WithNodeIs, SavingIs, NoRecordIs DEF Clearing
<1> HIDE DEF step
<1>3. PageTrue(step.page, ends, safe, builds)
  BY <1>2, NoRecordIs DEF PageTrue, Follows
<1>4. Forward(pg.saved, step.page.saved)
  BY <1>2, NoRecordIs DEF Forward
<1> QED
  BY <1>2, <1>3, <1>4 DEF StepTrue, Quiet, step

LEMMA RunningNodeIs ==
    ASSUME NEW request \in Ids, NEW phase \in PhaseNames
    PROVE  /\ RunningNode(request, phase) \in NodeT
           /\ RunningNode(request, phase).name = "running"
           /\ RunningNode(request, phase).request = request
           /\ RunningNode(request, phase).phase = phase
           /\ RunningNode(request, phase).shown = "none"
           /\ RunningNode(request, phase).back = None
<1>1. None \in Ids
  BY DEF Ids
<1> QED
  BY <1>1, Texts DEF RunningNode, NoNode, NodeT

LEMMA OutcomeNodeIs ==
    ASSUME NEW request \in Ids, NEW phase \in PhaseNames, NEW sub \in Text
    PROVE  /\ OutcomeNode(request, phase, sub) \in NodeT
           /\ OutcomeNode(request, phase, sub).name = "outcome"
           /\ OutcomeNode(request, phase, sub).sub = sub
           /\ OutcomeNode(request, phase, sub).request = request
           /\ OutcomeNode(request, phase, sub).phase = phase
           /\ OutcomeNode(request, phase, sub).shown
                = IF sub = "updated" THEN "shown" ELSE "none"
<1>1. None \in Ids
  BY DEF Ids
<1> QED
  BY <1>1, Texts DEF OutcomeNode, NoNode, NodeT

LEMMA IdleNodeIs ==
    ASSUME NEW sub \in Text
    PROVE  /\ IdleNode(sub) \in NodeT
           /\ IdleNode(sub).name = "idle"
           /\ IdleNode(sub).shown = "none"
<1>1. None \in Ids /\ "none" \in PhaseNames
  BY Phases DEF Ids
<1> QED
  BY <1>1, Texts DEF IdleNode, NoNode, NodeT

LEMMA ClassifyIs ==
    ASSUME NEW pg
    PROVE  /\ Classify(pg) \in NodeT
           /\ Classify(pg).name = "idle"
           /\ Classify(pg).shown = "none"
BY Texts, IdleNodeIs DEF Classify

LEMMA ApplyOperationIs ==
    ASSUME NEW pg \in PageT
    PROVE  /\ ApplyOperation(pg) \in OpT
           /\ ApplyOperation(pg).running => ApplyOperation(pg) = pg.status.op
           /\ ApplyOperation(pg).request # None =>
                ApplyOperation(pg) = pg.status.op /\ pg.status.op.kind = "apply"
<1>1. NoOperation \in OpT /\ NoOperation.running = FALSE /\ NoOperation.request = None
  BY Texts, Phases DEF NoOperation, OpT, Ids
<1> QED
  BY <1>1, Fields DEF ApplyOperation

\* What a page makes of the end of an operation.
LEMMA JudgeIs ==
    ASSUME NEW ends, NEW safe, NEW pg \in PageT, NEW op \in OpT,
           op.kind = "apply", OpTrue(op, ends, safe)
    PROVE  /\ Judge(pg, op) \in Text
           /\ Judge(pg, op) = "updated" => "success" \in ends[op.request]
           /\ Judge(pg, op) = "rolled-back" => "recovered" \in ends[op.request]
           /\ Judge(pg, op) = "recovery-required" =>
                "recovery-required" \in ends[op.request]
           /\ Judge(pg, op) = "not-changed" => op.request \in safe
<1>1. CASE op.outcome = "success"
  BY <1>1, Texts DEF Judge, OpTrue, Attained
<1>2. CASE op.outcome # "success"
  <2>1. Judge(pg, op) = OutcomeKind(op.outcome)
    BY <1>2 DEF Judge
  <2>2. CASE op.outcome \in Spared
    BY <2>1, <2>2, Texts DEF OutcomeKind, OpTrue, Spared
  <2>3. CASE op.outcome = "recovered" \/ op.outcome = "recovery-required"
    BY <2>1, <2>3, Texts DEF OutcomeKind, OpTrue, Attained
  <2>4. CASE op.outcome \notin Spared \cup {"recovered", "recovery-required"}
    <3>1. OutcomeKind(op.outcome) = "unknown"
      BY <2>4 DEF OutcomeKind, Spared
    <3> QED
      BY <2>1, <3>1, Texts
  <2> QED
    BY <2>2, <2>3, <2>4
<1> QED
  BY <1>1, <1>2

LEMMA ObserveTrue ==
    ASSUME NEW ends, NEW safe, NEW builds, NEW pg, NEW op \in OpT,
           PageTrue(pg, ends, safe, builds),
           pg.saved.request # None => pg.saved.request # op.request
    PROVE  Quiet(Observe(pg, op), pg, ends, safe, builds)
<1> DEFINE flag == FALSE
           node == RunningNode(op.request, op.phase)
<1>1. node \in NodeT /\ node.name = "running" /\ node.shown = "none"
      /\ node.request = op.request /\ node.phase = op.phase
  BY RunningNodeIs DEF OpT
<1>2. Observe(pg, op) = Saving(WithNode(pg, node), ToRecord(node, "running", flag))
  BY DEF Observe
<1> HIDE DEF node
<1>3. NodeTrue(node, ends, safe)
  BY <1>1 DEF NodeTrue
<1>4. flag \in BOOLEAN /\ (flag <=> FALSE) /\ "running" \in Text \ {"none"}
  BY Texts
<1> HIDE DEF flag
<1> QED
  BY <1>1, <1>2, <1>3, <1>4, Saves

LEMMA EndedTrue ==
    ASSUME NEW ends, NEW safe, NEW builds, NEW pg, NEW sub \in Text,
           NEW phase \in PhaseNames,
           PageTrue(pg, ends, safe, builds),
           sub # "updated",
           sub = "rolled-back" => "recovered" \in ends[pg.node.request],
           sub = "recovery-required" => "recovery-required" \in ends[pg.node.request],
           sub = "not-changed" => pg.node.request \in safe,
           PhaseRank(pg.node.phase) <= PhaseRank(phase)
    PROVE  Quiet(Ended(pg, pg.node.request, phase, sub), pg, ends, safe, builds)
<1> DEFINE flag == FALSE
           node == OutcomeNode(pg.node.request, phase, sub)
<1>0. pg \in PageT /\ pg.node \in NodeT /\ pg.node.request \in Ids
  BY Fields DEF PageTrue, NodeT
<1>1. node \in NodeT /\ node.name = "outcome" /\ node.shown = "none" /\ node.sub = sub
      /\ node.request = pg.node.request /\ node.phase = phase
  BY <1>0, OutcomeNodeIs
<1>2. Ended(pg, pg.node.request, phase, sub)
        = Saving(WithNode(pg, node), ToRecord(node, "finished", flag))
  BY DEF Ended
<1> HIDE DEF node
<1>3. NodeTrue(node, ends, safe)
  BY <1>1 DEF NodeTrue
<1>4. flag \in BOOLEAN /\ (flag <=> FALSE) /\ "finished" \in Text \ {"none"}
  BY Texts
<1> HIDE DEF flag
<1>5. pg.saved.request # None => PhaseRank(pg.saved.phase) <= PhaseRank(node.phase)
  <2>1. PhaseRank(pg.saved.phase) \in Int /\ PhaseRank(pg.node.phase) \in Int
        /\ PhaseRank(phase) \in Int
    BY <1>0, Fields, Ranks
  <2> QED
    BY <1>1, <2>1 DEF PageTrue, Follows
<1> QED
  BY <1>1, <1>2, <1>3, <1>4, <1>5, Saves

LEMMA LoadNewBuildTrue ==
    ASSUME NEW ends, NEW safe, NEW builds, NEW pg, NEW request \in Ids,
           NEW phase \in PhaseNames,
           PageTrue(pg, ends, safe, builds),
           "success" \in ends[request],
           pg.saved.request # None /\ pg.saved.request = request =>
               PhaseRank(pg.saved.phase) <= PhaseRank(phase)
    PROVE  Quiet(LoadNewBuild(pg, request, phase), pg, ends, safe, builds)
<1> DEFINE flag == TRUE
           node == [OutcomeNode(request, phase, "updated") EXCEPT !.shown = "reloading"]
<1>1. node \in NodeT /\ node.name = "outcome" /\ node.sub = "updated"
      /\ node.request = request /\ node.phase = phase /\ node.shown = "reloading"
  <2>1. "updated" \in Text /\ "reloading" \in Text
    BY Texts
  <2> QED
    BY <2>1, OutcomeNodeIs DEF NodeT
<1>2. LoadNewBuild(pg, request, phase)
        = Reloading(Saving(WithNode(pg, node), ToRecord(node, "finished", flag)))
  BY DEF LoadNewBuild
<1> HIDE DEF node
<1>3. NodeTrue(node, ends, safe)
  BY <1>1 DEF NodeTrue
<1>4. flag \in BOOLEAN /\ (flag <=> TRUE) /\ "finished" \in Text \ {"none"}
  BY Texts
<1> HIDE DEF flag
<1> QED
  BY <1>1, <1>2, <1>3, <1>4, Saves

LEMMA EnterIdleTrue ==
    ASSUME NEW ends, NEW safe, NEW builds, NEW pg,
           PageTrue(pg, ends, safe, builds), "new" \in builds,
           pg.saved.request = None
    PROVE  Quiet(EnterIdle(pg), pg, ends, safe, builds)
<1> DEFINE op == ApplyOperation(pg)
           sub == Judge(pg, op)
<1>0. pg \in PageT /\ OpTrue(pg.status.op, ends, safe)
  BY DEF PageTrue, StatusTrue
<1>1. op \in OpT /\ (op.request # None => op = pg.status.op /\ op.kind = "apply")
      /\ op.request \in Ids /\ op.phase \in PhaseNames
  BY <1>0, ApplyOperationIs DEF OpT
<1> HIDE DEF op
<1>2. CASE op.running
  <2>1. EnterIdle(pg) = Observe(pg, op)
    BY <1>2 DEF EnterIdle, op
  <2> QED
    BY <1>1, <2>1, ObserveTrue
<1>3. CASE ~op.running /\ op.request # None
  <2>1. /\ sub \in Text
        /\ sub = "updated" => "success" \in ends[op.request]
        /\ sub = "rolled-back" => "recovered" \in ends[op.request]
        /\ sub = "recovery-required" => "recovery-required" \in ends[op.request]
        /\ sub = "not-changed" => op.request \in safe
    BY <1>0, <1>1, <1>3, JudgeIs
  <2> HIDE DEF sub
  <2>2. CASE sub = "updated" /\ pg.build # "new"
    <3>1. EnterIdle(pg) = LoadNewBuild(pg, op.request, op.phase)
      BY <1>3, <2>2 DEF EnterIdle, op, sub
    <3> QED
      BY <1>1, <2>1, <2>2, <3>1, LoadNewBuildTrue
  <2>3. CASE ~(sub = "updated" /\ pg.build # "new")
    <3> DEFINE node == OutcomeNode(op.request, op.phase, sub)
    <3>1. EnterIdle(pg) = WithNode(pg, node)
      BY <1>3, <2>3 DEF EnterIdle, op, sub
    <3>2. node \in NodeT /\ node.name = "outcome" /\ node.sub = sub
          /\ node.request = op.request
          /\ node.shown = IF sub = "updated" THEN "shown" ELSE "none"
      BY <1>1, <2>1, OutcomeNodeIs
    <3> HIDE DEF node
    <3>3. NodeTrue(node, ends, safe)
      BY <2>1, <3>2 DEF NodeTrue
    <3>4. node.shown = "shown" => pg.build \in builds
      BY <2>3, <3>2
    <3> QED
      BY <3>1, <3>2, <3>3, <3>4, Keeps DEF Quiet
  <2> QED
    BY <2>2, <2>3
<1>4. CASE ~op.running /\ op.request = None
  <2>1. EnterIdle(pg) = WithNode(pg, Classify(pg))
    BY <1>4 DEF EnterIdle, op
  <2>2. NodeTrue(Classify(pg), ends, safe)
    BY ClassifyIs DEF NodeTrue
  <2> QED
    BY <2>1, <2>2, ClassifyIs, Keeps DEF Quiet
<1> QED
  BY <1>2, <1>3, <1>4

\* A node of a dry run or of no update: what it may become.
LEMMA PlainTrue ==
    ASSUME NEW ends, NEW safe, NEW builds, NEW pg, NEW node \in NodeT,
           PageTrue(pg, ends, safe, builds),
           node.name # "outcome", node.shown = "none",
           pg.saved.request = None
    PROVE  Quiet(WithNode(pg, node), pg, ends, safe, builds)
<1>1. NodeTrue(node, ends, safe)
  BY DEF NodeTrue
<1> QED
  BY <1>1, Keeps

LEMMA PreviewStatusTrue ==
    ASSUME NEW ends, NEW safe, NEW builds, NEW pg, NEW probe,
           PageTrue(pg, ends, safe, builds),
           pg.node.name = "preview"
    PROVE  Quiet(PreviewStatus(pg, probe), pg, ends, safe, builds)
<1>1. pg \in PageT /\ pg.saved.request = None
  BY DEF PageTrue, Follows
<1>2. pg.node \in NodeT /\ pg.status.op \in OpT
  BY <1>1, Fields
<1>3. Quiet(Stay(pg), pg, ends, safe, builds)
  BY StayTrue
<1> DEFINE refused == [pg.node EXCEPT !.sub = "refused", !.dialog = FALSE]
           armed == [pg.node EXCEPT !.armed = TRUE]
           ready == [pg.node EXCEPT !.sub = "ready"]
<1>4. /\ refused \in NodeT /\ refused.name = "preview" /\ refused.shown = pg.node.shown
      /\ armed \in NodeT /\ armed.name = "preview" /\ armed.shown = pg.node.shown
      /\ ready \in NodeT /\ ready.name = "preview" /\ ready.shown = pg.node.shown
  BY <1>2, Texts DEF NodeT
<1>5. Refused(pg) = WithNode(pg, refused)
  BY DEF Refused
<1> DEFINE op == pg.status.op
           results == {Observe(pg, op), Stay(pg), WithNode(pg, armed), WithNode(pg, ready),
                       WithNode(pg, refused)}
<1>6. PreviewStatus(pg, probe) \in results
  <2> HIDE DEF armed, ready, refused
  <2> QED
    BY <1>5 DEF PreviewStatus, armed, ready
<1>7. Quiet(Observe(pg, op), pg, ends, safe, builds)
  <2>1. op.request \in Ids
    BY <1>2 DEF OpT
  <2> QED
    BY <1>1, <1>2, ObserveTrue
<1>8. \A node \in NodeT : node.name = "preview" /\ node.shown = pg.node.shown =>
        Quiet(WithNode(pg, node), pg, ends, safe, builds)
  <2> SUFFICES ASSUME NEW node \in NodeT, node.name = "preview",
                      node.shown = pg.node.shown
               PROVE  Quiet(WithNode(pg, node), pg, ends, safe, builds)
    OBVIOUS
  <2>1. NodeTrue(node, ends, safe)
    BY DEF NodeTrue
  <2>2. pg.open /\ node.shown = "shown" => pg.build \in builds
    BY DEF PageTrue
  <2> QED
    BY <1>1, <2>1, <2>2, Keeps
<1> HIDE DEF refused, armed, ready, op
<1>9. /\ Quiet(WithNode(pg, armed), pg, ends, safe, builds)
      /\ Quiet(WithNode(pg, ready), pg, ends, safe, builds)
      /\ Quiet(WithNode(pg, refused), pg, ends, safe, builds)
  BY <1>4, <1>8
<1> QED
  BY <1>3, <1>6, <1>7, <1>9

LEMMA AdvanceTrue ==
    ASSUME NEW ends, NEW safe, NEW builds, NEW pg, NEW op \in OpT,
           PageTrue(pg, ends, safe, builds),
           pg.node.name = "running"
    PROVE  Quiet(Advance(pg, op), pg, ends, safe, builds)
<1>0. pg \in PageT
  BY DEF PageTrue
<1>1. pg.node \in NodeT /\ op.phase \in PhaseNames /\ pg.node.phase \in PhaseNames
      /\ PhaseRank(pg.node.phase) \in Int /\ PhaseRank(op.phase) \in Int
      /\ PhaseRank(pg.saved.phase) \in Int
  BY <1>0, Fields, Ranks DEF OpT, NodeT
<1> DEFINE forward == PhaseRank(op.phase) > PhaseRank(pg.node.phase)
                        \/ (PhaseRank(op.phase) = PhaseRank(pg.node.phase)
                              /\ op.phase # "none")
           phase == IF forward THEN op.phase ELSE pg.node.phase
           sub == IF pg.node.sub = "cancelling" /\ (~forward \/ CanCancel(phase))
                  THEN "cancelling" ELSE "following"
           next == [pg.node EXCEPT !.seen = TRUE, !.armed = TRUE, !.quiet = FALSE,
                                   !.phase = phase, !.sub = sub]
<1>2. phase \in PhaseNames /\ PhaseRank(phase) >= PhaseRank(pg.node.phase)
  BY <1>1
<1>3. sub \in Text
  BY Texts
<1> HIDE DEF phase, sub
<1>4. next \in NodeT /\ next.name = "running" /\ next.request = pg.node.request
      /\ next.phase = phase /\ next.shown = pg.node.shown
  BY <1>1, <1>2, <1>3 DEF NodeT
<1> DEFINE flag == FALSE
<1>5. Advance(pg, op) \in {WithNode(pg, next),
                           Saving(WithNode(pg, next), ToRecord(next, "running", flag))}
  BY DEF Advance, phase, sub
<1>6. flag \in BOOLEAN /\ ~flag /\ "running" \in Text \ {"none"}
  BY Texts
<1> HIDE DEF next, flag
<1>7. NodeTrue(next, ends, safe)
  BY <1>4 DEF NodeTrue
<1>8. pg.open /\ next.shown = "shown" => pg.build \in builds
  BY <1>4 DEF PageTrue
<1>9. pg.saved.request # None => /\ PhaseRank(pg.saved.phase) <= PhaseRank(next.phase)
                                 /\ PhaseRank(pg.node.phase) <= PhaseRank(next.phase)
  <2>1. PhaseRank(phase) \in Int
    BY <1>2, Ranks
  <2> QED
    BY <1>1, <1>2, <1>4, <2>1 DEF PageTrue, Follows
<1>10. Quiet(WithNode(pg, next), pg, ends, safe, builds)
  BY <1>4, <1>7, <1>8, <1>9, Keeps
<1>11. Quiet(Saving(WithNode(pg, next), ToRecord(next, "running", flag)), pg,
             ends, safe, builds)
  BY <1>4, <1>6, <1>7, <1>8, <1>9, Saves
<1> QED
  BY <1>5, <1>10, <1>11

LEMMA FinishRunningTrue ==
    ASSUME NEW ends, NEW safe, NEW builds, NEW pg, NEW op \in OpT,
           PageTrue(pg, ends, safe, builds),
           op.kind = "apply", op.request = pg.node.request, OpTrue(op, ends, safe)
    PROVE  Quiet(FinishRunning(pg, op), pg, ends, safe, builds)
<1>0. pg \in PageT
  BY DEF PageTrue
<1>1. pg.node \in NodeT /\ op.phase \in PhaseNames /\ pg.node.phase \in PhaseNames
      /\ pg.node.request \in Ids
      /\ PhaseRank(pg.node.phase) \in Int /\ PhaseRank(op.phase) \in Int
      /\ PhaseRank(pg.saved.phase) \in Int
  BY <1>0, Fields, Ranks DEF OpT, NodeT
<1> DEFINE phase == IF PhaseRank(op.phase) >= PhaseRank(pg.node.phase)
                    THEN op.phase ELSE pg.node.phase
           sub == Judge(pg, op)
<1>2. phase \in PhaseNames /\ PhaseRank(phase) \in Int
      /\ PhaseRank(pg.node.phase) <= PhaseRank(phase)
  BY <1>1
<1>3. /\ sub \in Text
      /\ sub = "updated" => "success" \in ends[op.request]
      /\ sub = "rolled-back" => "recovered" \in ends[op.request]
      /\ sub = "recovery-required" => "recovery-required" \in ends[op.request]
      /\ sub = "not-changed" => op.request \in safe
  BY <1>0, JudgeIs
<1>4. FinishRunning(pg, op) =
        IF sub = "updated" THEN LoadNewBuild(pg, pg.node.request, phase)
        ELSE Ended(pg, pg.node.request, phase, sub)
  BY DEF FinishRunning
<1>5. pg.saved.request # None => PhaseRank(pg.saved.phase) <= PhaseRank(phase)
  BY <1>1, <1>2 DEF PageTrue, Follows
<1> HIDE DEF phase, sub
<1>6. CASE sub = "updated"
  BY <1>1, <1>2, <1>3, <1>4, <1>5, <1>6, LoadNewBuildTrue
<1>7. CASE sub # "updated"
  BY <1>1, <1>2, <1>3, <1>4, <1>7, EndedTrue
<1> QED
  BY <1>6, <1>7

LEMMA PreviewReadyIs ==
    ASSUME NEW request \in Ids
    PROVE  /\ PreviewReady(request) \in NodeT
           /\ PreviewReady(request).name = "preview"
           /\ PreviewReady(request).shown = "none"
           /\ PreviewReady(request).request = request
<1>1. None \in Ids /\ "none" \in PhaseNames
  BY Phases DEF Ids
<1> QED
  BY <1>1, Texts DEF PreviewReady, NoNode, NodeT

\* An idle page saves the update it finds.
LEMMA EnterIdleSaves ==
    ASSUME NEW pg \in PageT, pg.saved.request = None
    PROVE  EnterIdle(pg).page.saved.request \in {None, ApplyOperation(pg).request}
<1> DEFINE op == ApplyOperation(pg)
           flag == FALSE
           other == TRUE
           running == RunningNode(op.request, op.phase)
           ended == OutcomeNode(op.request, op.phase, Judge(pg, op))
           loading == [OutcomeNode(op.request, op.phase, "updated") EXCEPT !.shown = "reloading"]
<1>1. op.request \in Ids /\ op.phase \in PhaseNames
  BY ApplyOperationIs DEF OpT
<1>2. Judge(pg, op) \in Text
  BY Texts DEF Judge, OutcomeKind
<1>3. running \in NodeT /\ running.request = op.request
  BY <1>1, RunningNodeIs
<1>4. ended \in NodeT
  BY <1>1, <1>2, OutcomeNodeIs
<1>5. loading \in NodeT /\ loading.request = op.request
  <2>1. "updated" \in Text /\ "reloading" \in Text
    BY Texts
  <2> QED
    BY <1>1, <2>1, OutcomeNodeIs DEF NodeT
<1>6. EnterIdle(pg) \in
        {Saving(WithNode(pg, running), ToRecord(running, "running", flag)),
         Reloading(Saving(WithNode(pg, loading), ToRecord(loading, "finished", other))),
         WithNode(pg, ended), WithNode(pg, Classify(pg))}
  BY DEF EnterIdle, Observe, LoadNewBuild
<1>7. flag \in BOOLEAN /\ other \in BOOLEAN /\ "running" \in Text /\ "finished" \in Text \ {"none"}
  BY Texts
<1> HIDE DEF flag, other, running, ended, loading, op
<1>8. Saving(WithNode(pg, running), ToRecord(running, "running", flag)).page.saved.request
        = op.request
  BY <1>3, <1>7, WithNodeIs, SavingIs, ToRecordIs
<1>9. Reloading(Saving(WithNode(pg, loading), ToRecord(loading, "finished", other))).page.saved.request
        = op.request
  <2> DEFINE step == WithNode(pg, loading)
             record == ToRecord(loading, "finished", other)
  <2>1. step \in StepT
    BY <1>5, WithNodeIs
  <2>2. record \in RecordT /\ record.request = op.request
    BY <1>5, <1>7, ToRecordIs
  <2> HIDE DEF step, record
  <2>3. Saving(step, record) \in StepT /\ Saving(step, record).page.saved = record
    BY <2>1, <2>2, SavingIs
  <2>4. Reloading(Saving(step, record)).page.saved = record
    BY <2>3, ReloadingIs
  <2> QED
    BY <2>2, <2>4 DEF step, record
<1>10. WithNode(pg, ended).page.saved = pg.saved
       /\ WithNode(pg, Classify(pg)).page.saved = pg.saved
  BY <1>4, ClassifyIs, WithNodeIs
<1> QED
  BY <1>6, <1>8, <1>9, <1>10 DEF op

LEMMA NotStartedTrue ==
    ASSUME NEW ends, NEW safe, NEW builds, NEW pg, NEW expired_,
           PageTrue(pg, ends, safe, builds), "new" \in builds,
           pg.node.name = "running",
           ~(pg.status.op.kind = "apply" /\ pg.status.op.request = pg.node.request)
    PROVE  Quiet(NotStarted(pg, expired_), pg, ends, safe, builds)
<1>0. pg \in PageT
  BY DEF PageTrue
<1>1. pg.node \in NodeT /\ pg.node.back \in Ids
  BY <1>0, Fields DEF NodeT
<1> DEFINE cleared == [pg EXCEPT !.saved = NoRecord]
           ready == PreviewReady(pg.node.back)
<1>2. cleared \in PageT /\ cleared.saved = NoRecord /\ cleared.node = pg.node
      /\ cleared.status = pg.status /\ cleared.open = pg.open
      /\ cleared.build = pg.build
  BY <1>0, NoRecordIs DEF PageT
<1>3. NotStarted(pg, expired_) \in {WithNode(cleared, ready), EnterIdle(cleared)}
  BY DEF NotStarted
<1>4. ready \in NodeT /\ ready.name = "preview" /\ ready.shown = "none"
  BY <1>1, PreviewReadyIs
<1>5. ApplyOperation(cleared).request # None =>
        pg.status.op.kind = "apply" /\ ApplyOperation(cleared).request = pg.status.op.request
  <2> HIDE DEF cleared
  <2> QED
    BY <1>2, ApplyOperationIs
<1> HIDE DEF cleared, ready
<1>6. PageTrue(cleared, ends, safe, builds)
  BY <1>2, NoRecordIs DEF PageTrue, Follows
<1>7. Quiet(WithNode(cleared, ready), cleared, ends, safe, builds)
      /\ Quiet(EnterIdle(cleared), cleared, ends, safe, builds)
  BY <1>2, <1>4, <1>6, NoRecordIs, PlainTrue, EnterIdleTrue
<1>8. WithNode(cleared, ready).page.saved.request = None
  BY <1>2, <1>4, NoRecordIs, WithNodeIs
<1>9. EnterIdle(cleared).page.saved.request \in {None, ApplyOperation(cleared).request}
  BY <1>2, NoRecordIs, EnterIdleSaves
<1>10. Forward(pg.saved, NotStarted(pg, expired_).page.saved)
  BY <1>3, <1>5, <1>8, <1>9 DEF Forward, PageTrue, Follows
<1> QED
  BY <1>3, <1>7, <1>10 DEF Quiet, StepTrue

LEMMA OtherRunningIs ==
    ASSUME NEW pg \in PageT, NEW request, OtherRunning(pg, request)
    PROVE  /\ ApplyOperation(pg) \in OpT
           /\ ApplyOperation(pg).request # request
BY ApplyOperationIs DEF OtherRunning

LEMMA RunningStatusTrue ==
    ASSUME NEW ends, NEW safe, NEW builds, NEW pg, NEW probe, NEW expired_,
           PageTrue(pg, ends, safe, builds), "new" \in builds,
           pg.node.name = "running"
    PROVE  Quiet(RunningStatus(pg, probe, expired_), pg, ends, safe, builds)
<1>0. pg \in PageT /\ OpTrue(pg.status.op, ends, safe)
  BY DEF PageTrue, StatusTrue
<1> DEFINE op == pg.status.op
           own == op.kind = "apply" /\ op.request = pg.node.request
<1>1. op \in OpT /\ pg.node.phase \in PhaseNames /\ PhaseRank(pg.node.phase) \in Int
  BY <1>0, Fields DEF NodeT
<1>2. CASE own
  <2>1. RunningStatus(pg, probe, expired_)
          = IF op.running THEN Advance(pg, op) ELSE FinishRunning(pg, op)
    BY <1>2 DEF RunningStatus
  <2> QED
    BY <1>0, <1>1, <1>2, <2>1, AdvanceTrue, FinishRunningTrue
<1>3. CASE ~own
  <2>1. RunningStatus(pg, probe, expired_) \in
          {Stay(pg), NotStarted(pg, expired_),
           IF OtherRunning(pg, pg.node.request)
           THEN Observe(pg, ApplyOperation(pg))
           ELSE Ended(pg, pg.node.request, pg.node.phase, "unknown")}
    BY <1>3 DEF RunningStatus
  <2>2. Quiet(Stay(pg), pg, ends, safe, builds)
        /\ Quiet(NotStarted(pg, expired_), pg, ends, safe, builds)
    BY <1>3, StayTrue, NotStartedTrue
  <2>3. OtherRunning(pg, pg.node.request) =>
          Quiet(Observe(pg, ApplyOperation(pg)), pg, ends, safe, builds)
    <3>1. pg.saved.request # None => pg.saved.request = pg.node.request
      BY DEF PageTrue, Follows
    <3> QED
      BY <1>0, <3>1, OtherRunningIs, ObserveTrue
  <2>4. Quiet(Ended(pg, pg.node.request, pg.node.phase, "unknown"), pg, ends, safe, builds)
    <3>1. "unknown" \in Text /\ PhaseRank(pg.node.phase) <= PhaseRank(pg.node.phase)
      BY <1>1, Texts
    <3> QED
      BY <1>1, <3>1, EndedTrue
  <2> QED
    BY <2>1, <2>2, <2>3, <2>4
<1> QED
  BY <1>2, <1>3

LEMMA OutcomeStatusTrue ==
    ASSUME NEW ends, NEW safe, NEW builds, NEW pg, NEW probe,
           PageTrue(pg, ends, safe, builds),
           pg.node.name \notin {"idle", "preview"}
    PROVE  Quiet(OutcomeStatus(pg, probe), pg, ends, safe, builds)
<1>0. pg \in PageT /\ OpTrue(pg.status.op, ends, safe)
  BY DEF PageTrue, StatusTrue
<1> DEFINE n == pg.node
           op == pg.status.op
           own == op.kind = "apply" /\ op.request = n.request
           after == [n EXCEPT !.pending = FALSE, !.armed = FALSE]
<1>1. n \in NodeT /\ op \in OpT /\ n.phase \in PhaseNames /\ PhaseRank(n.phase) \in Int
  BY <1>0, Fields DEF NodeT
<1>2. after \in NodeT /\ after.name = n.name /\ after.sub = n.sub
      /\ after.request = n.request /\ after.phase = n.phase /\ after.shown = n.shown
  BY <1>1 DEF NodeT
<1> DEFINE results ==
             {Stay(pg), WithNode(pg, after), Ended(pg, n.request, n.phase, "unknown")}
<1>3. OtherRunning(pg, n.request) =>
          Quiet(Observe(pg, ApplyOperation(pg)), pg, ends, safe, builds)
  <2>1. pg.saved.request # None => pg.saved.request = n.request
    BY DEF PageTrue, Follows
  <2> QED
    BY <1>0, <2>1, OtherRunningIs, ObserveTrue
<1>4. own /\ Judge(pg, op) # "updated" =>
        Quiet(Ended(pg, n.request, n.phase, Judge(pg, op)), pg, ends, safe, builds)
  <2> SUFFICES ASSUME own, Judge(pg, op) # "updated"
               PROVE  Quiet(Ended(pg, n.request, n.phase, Judge(pg, op)), pg,
                            ends, safe, builds)
    OBVIOUS
  <2> DEFINE sub == Judge(pg, op)
  <2>1. /\ sub \in Text
        /\ sub = "rolled-back" => "recovered" \in ends[n.request]
        /\ sub = "recovery-required" => "recovery-required" \in ends[n.request]
        /\ sub = "not-changed" => n.request \in safe
    BY <1>0, <1>1, JudgeIs
  <2>2. sub # "updated"
    OBVIOUS
  <2> HIDE DEF sub
  <2>3. PhaseRank(n.phase) <= PhaseRank(n.phase)
    BY <1>1
  <2>4. Quiet(Ended(pg, n.request, n.phase, sub), pg, ends, safe, builds)
    BY <1>1, <2>1, <2>2, <2>3, EndedTrue
  <2> QED
    BY <2>4 DEF sub
<1>5. Quiet(Stay(pg), pg, ends, safe, builds)
  BY StayTrue
<1>6. Quiet(WithNode(pg, after), pg, ends, safe, builds)
  <2> HIDE DEF after
  <2>1. NodeTrue(after, ends, safe)
    BY <1>2 DEF PageTrue, NodeTrue
  <2>2. pg.open /\ after.shown = "shown" => pg.build \in builds
    BY <1>2 DEF PageTrue
  <2>3. PhaseRank(n.phase) <= PhaseRank(after.phase)
    BY <1>1, <1>2
  <2> QED
    BY <1>2, <2>1, <2>2, <2>3, Keeps
<1>7. Quiet(Ended(pg, n.request, n.phase, "unknown"), pg, ends, safe, builds)
  <2>1. "unknown" \in Text /\ PhaseRank(n.phase) <= PhaseRank(n.phase)
    BY <1>1, Texts
  <2> QED
    BY <1>1, <2>1, EndedTrue
<1>8. CASE n.shown # "reloading" /\ OtherRunning(pg, n.request)
  <2>1. OutcomeStatus(pg, probe) = Observe(pg, ApplyOperation(pg))
    <3>1. ~own
      BY <1>0, <1>8, OtherRunningIs, ApplyOperationIs DEF OtherRunning
    <3> HIDE DEF own
    <3> QED
      BY <1>8, <3>1 DEF OutcomeStatus, own
  <2> QED
    BY <1>3, <1>8, <2>1
<1>9. CASE ~(n.shown # "reloading" /\ OtherRunning(pg, n.request))
  <2> HIDE DEF after
  <2>1. CASE own /\ n.pending
    <3>1. \/ OutcomeStatus(pg, probe) \in results
          \/ Judge(pg, op) # "updated"
               /\ OutcomeStatus(pg, probe) = Ended(pg, n.request, n.phase, Judge(pg, op))
      BY <1>9, <2>1 DEF OutcomeStatus, after
    <3> HIDE DEF own, op
    <3> QED
      BY <1>4, <1>5, <1>6, <1>7, <2>1, <3>1
  <2>2. CASE ~(own /\ n.pending)
    <3>1. OutcomeStatus(pg, probe) \in results
      BY <1>9, <2>2 DEF OutcomeStatus, after
    <3> QED
      BY <1>5, <1>6, <1>7, <3>1
  <2> QED
    BY <2>1, <2>2
<1> QED
  BY <1>8, <1>9

LEMMA NoOperationIs ==
    /\ NoOperation \in OpT /\ NoStatus \in StatusT /\ Unreadable \in StatusT
    /\ \A ends, safe : /\ StatusTrue(NoStatus, ends, safe)
                       /\ StatusTrue(Unreadable, ends, safe)
                       /\ OpTrue(NoOperation, ends, safe)
<1>1. NoOperation \in OpT
  BY Texts, Phases DEF NoOperation, OpT, Ids
<1>2. NoStatus \in StatusT /\ Unreadable \in StatusT
      /\ NoStatus.op = NoOperation /\ Unreadable.op = NoOperation
  BY <1>1, Texts DEF NoStatus, Unreadable, StatusT
<1>3. NoOperation.kind # "apply"
  BY DEF NoOperation
<1> QED
  BY <1>1, <1>2, <1>3 DEF StatusTrue, OpTrue

\* A page that only hears, asks or counts differently.
Alike(a, b) ==
    /\ a.node = b.node /\ a.saved = b.saved /\ a.status = b.status
    /\ a.build = b.build /\ (a.open => b.open)

LEMMA AlikeTrue ==
    ASSUME NEW ends, NEW safe, NEW builds, NEW pg, NEW next \in PageT,
           PageTrue(pg, ends, safe, builds), Alike(next, pg)
    PROVE  /\ PageTrue(next, ends, safe, builds)
           /\ \A step : Quiet(step, next, ends, safe, builds)
                          => Quiet(step, pg, ends, safe, builds)
BY DEF PageTrue, Alike, Follows, Quiet, StepTrue

\* The operation of a status is not kept.
LEMMA ForgetsOperation ==
    ASSUME NEW ends, NEW safe, NEW builds, NEW pg, NEW step,
           Quiet(step, pg, ends, safe, builds)
    PROVE  Quiet([step EXCEPT !.page.status.op = NoOperation], pg, ends, safe, builds)
<1>1. step \in StepT /\ step.page \in PageT /\ step.page.status \in StatusT
      /\ step.ask \in Text /\ step.emit = NoEmit /\ step.emit \in EmitT
      /\ PageTrue(step.page, ends, safe, builds)
      /\ Forward(pg.saved, step.page.saved)
  BY Fields DEF Quiet, StepTrue, StepT
<1> DEFINE status == [step.page.status EXCEPT !.op = NoOperation]
           next == [step.page EXCEPT !.status = status]
           after == [step EXCEPT !.page.status.op = NoOperation]
<1>2. status \in StatusT /\ status.op = NoOperation
  BY <1>1, NoOperationIs DEF StatusT
<1>3. after = [step EXCEPT !.page = next]
  OBVIOUS
<1> HIDE DEF after, status
<1>4. next \in PageT /\ next.node = step.page.node /\ next.saved = step.page.saved
      /\ next.status = status /\ next.open = step.page.open
      /\ next.build = step.page.build
  BY <1>1, <1>2 DEF PageT
<1> HIDE DEF next
<1>5. after \in StepT /\ after.page = next /\ after.emit = NoEmit
  BY <1>1, <1>3, <1>4 DEF StepT
<1>6. StatusTrue(status, ends, safe)
  BY <1>2, NoOperationIs DEF StatusTrue
<1>7. PageTrue(next, ends, safe, builds)
  BY <1>1, <1>4, <1>6 DEF PageTrue, Follows
<1> QED
  BY <1>1, <1>4, <1>5, <1>7 DEF Quiet, StepTrue, after

LEMMA OnStatusTrue ==
    ASSUME NEW ends, NEW safe, NEW builds, NEW pg, NEW status, NEW probe, NEW expired_,
           PageTrue(pg, ends, safe, builds), StatusTrue(status, ends, safe),
           "new" \in builds
    PROVE  Quiet(OnStatus(pg, status, probe, expired_), pg, ends, safe, builds)
<1> DEFINE number == IF probe THEN None ELSE pg.probe
           next == [pg EXCEPT !.status = status, !.probe = number]
           step == CASE pg.node.name = "idle" -> EnterIdle(next)
                     [] pg.node.name = "preview" -> PreviewStatus(next, probe)
                     [] pg.node.name = "running" ->
                          RunningStatus(next, probe, expired_)
                     [] OTHER -> OutcomeStatus(next, probe)
<1>1. number \in AckIds
  BY DEF PageTrue, PageT, AckIds, Ids
<1>2. OnStatus(pg, status, probe, expired_) = [step EXCEPT !.page.status.op = NoOperation]
  BY DEF OnStatus
<1> HIDE DEF number
<1>3. PageTrue(next, ends, safe, builds) /\ next.node = pg.node /\ next.saved = pg.saved
  <2>1. next \in PageT /\ next.node = pg.node /\ next.saved = pg.saved
        /\ next.status = status /\ next.open = pg.open /\ next.build = pg.build
    BY <1>1 DEF PageTrue, StatusTrue, PageT
  <2> HIDE DEF next
  <2> QED
    BY <2>1 DEF PageTrue, Follows
<1> HIDE DEF next
<1>4. next.saved.request # None => next.node.name \notin {"idle", "preview"}
  BY <1>3 DEF PageTrue, Follows
<1>5. Quiet(step, next, ends, safe, builds)
  <2>1. CASE pg.node.name = "idle"
    BY <1>3, <1>4, <2>1, EnterIdleTrue
  <2>2. CASE pg.node.name = "preview"
    BY <1>3, <2>2, PreviewStatusTrue
  <2>3. CASE pg.node.name = "running"
    BY <1>3, <2>3, RunningStatusTrue
  <2>4. CASE pg.node.name \notin {"idle", "preview", "running"}
    BY <1>3, <2>4, OutcomeStatusTrue
  <2> QED
    BY <2>1, <2>2, <2>3, <2>4
<1> HIDE DEF step
<1>6. Quiet([step EXCEPT !.page.status.op = NoOperation], next, ends, safe, builds)
  BY <1>5, ForgetsOperation
<1> QED
  BY <1>2, <1>3, <1>6 DEF Quiet, StepTrue

LEMMA PushTrue ==
    ASSUME NEW ends, NEW safe, NEW builds, NEW pg, NEW status, NEW expired_,
           PageTrue(pg, ends, safe, builds), StatusTrue(status, ends, safe),
           "new" \in builds
    PROVE  Quiet(Push(pg, status, expired_), pg, ends, safe, builds)
<1> DEFINE no == FALSE
<1>1. Push(pg, status, expired_) \in {Stay(pg), OnStatus(pg, status, no, expired_)}
  BY DEF Push
<1> HIDE DEF no
<1> QED
  BY <1>1, StayTrue, OnStatusTrue

LEMMA AskTrue ==
    ASSUME NEW ends, NEW safe, NEW builds, NEW pg, NEW step, NEW probe,
           Quiet(step, pg, ends, safe, builds)
    PROVE  Quiet(Ask(step, probe), pg, ends, safe, builds)
<1>1. step \in StepT /\ "probe" \in Text /\ "plain" \in Text
  BY Texts DEF Quiet, StepTrue
<1>2. Ask(step, probe) \in StepT /\ Ask(step, probe).page = step.page
      /\ Ask(step, probe).emit = step.emit
  BY <1>1 DEF Ask, StepT
<1> QED
  BY <1>2 DEF Quiet, StepTrue

\* The deadline of the node is armed.
LEMMA ArmedTrue ==
    ASSUME NEW ends, NEW safe, NEW builds, NEW pg, PageTrue(pg, ends, safe, builds)
    PROVE  /\ PageTrue([pg EXCEPT !.node.armed = TRUE], ends, safe, builds)
           /\ [pg EXCEPT !.node.armed = TRUE].saved = pg.saved
           /\ [pg EXCEPT !.node.armed = TRUE].node.name = pg.node.name
           /\ [pg EXCEPT !.node.armed = TRUE].node.request = pg.node.request
<1> DEFINE node == [pg.node EXCEPT !.armed = TRUE]
           next == [pg EXCEPT !.node = node]
<1>1. pg \in PageT /\ pg.node \in NodeT
  BY Fields DEF PageTrue
<1>2. node \in NodeT /\ node.name = pg.node.name /\ node.sub = pg.node.sub
      /\ node.request = pg.node.request /\ node.phase = pg.node.phase
      /\ node.shown = pg.node.shown
  BY <1>1 DEF NodeT
<1>3. [pg EXCEPT !.node.armed = TRUE] = next
  OBVIOUS
<1> HIDE DEF node
<1>4. next \in PageT /\ next.node = node /\ next.saved = pg.saved
      /\ next.status = pg.status /\ next.open = pg.open /\ next.build = pg.build
  BY <1>1, <1>2 DEF PageT
<1> HIDE DEF next
<1>5. PageTrue(next, ends, safe, builds)
  BY <1>2, <1>4 DEF PageTrue, Follows, NodeTrue
<1> QED
  BY <1>2, <1>3, <1>4, <1>5

\* What holds of a step from a page holds from one with the same record.
LEMMA SameRecord ==
    ASSUME NEW ends, NEW safe, NEW builds, NEW pg, NEW next, NEW step,
           next.saved = pg.saved, Quiet(step, next, ends, safe, builds)
    PROVE  Quiet(step, pg, ends, safe, builds)
BY DEF Quiet, StepTrue

LEMMA RefusedTrue ==
    ASSUME NEW ends, NEW safe, NEW builds, NEW pg,
           PageTrue(pg, ends, safe, builds), pg.node.name # "outcome"
    PROVE  Quiet(Refused(pg), pg, ends, safe, builds)
<1> DEFINE node == [pg.node EXCEPT !.sub = "refused", !.dialog = FALSE]
<1>1. pg.node \in NodeT /\ "refused" \in Text /\ PhaseRank(pg.node.phase) \in Int
  BY Fields, Texts DEF PageTrue
<1>2. node \in NodeT /\ node.name = pg.node.name /\ node.request = pg.node.request
      /\ node.phase = pg.node.phase /\ node.shown = pg.node.shown
  BY <1>1 DEF NodeT
<1>3. Refused(pg) = WithNode(pg, node)
  BY DEF Refused
<1> HIDE DEF node
<1>4. NodeTrue(node, ends, safe)
  BY <1>2 DEF NodeTrue
<1>5. pg.open /\ node.shown = "shown" => pg.build \in builds
  BY <1>2 DEF PageTrue
<1>6. pg.saved.request # None =>
        /\ node.name \notin {"idle", "preview"}
        /\ node.request = pg.node.request
        /\ PhaseRank(pg.node.phase) <= PhaseRank(node.phase)
  BY <1>1, <1>2 DEF PageTrue, Follows
<1> QED
  BY <1>2, <1>3, <1>4, <1>5, <1>6, Keeps

LEMMA StatusAckTrue ==
    ASSUME NEW ends, NEW safe, NEW builds, NEW pg, NEW ack, NEW expired_,
           PageTrue(pg, ends, safe, builds), StatusTrue(ack.status, ends, safe),
           "new" \in builds
    PROVE  Quiet(StatusAck(pg, ack, expired_), pg, ends, safe, builds)
<1> DEFINE probe == ack.request = pg.probe
           number == IF ack.request = pg.probe THEN None ELSE pg.probe
           next == [pg EXCEPT !.probe = number]
           node == IdleNode("manual")
<1>1. \/ StatusAck(pg, ack, expired_) = OnStatus(pg, ack.status, probe, expired_)
      \/ StatusAck(pg, ack, expired_) = Stay(next)
      \/ /\ pg.node.name = "idle"
         /\ StatusAck(pg, ack, expired_) = WithNode(next, node)
  <2>1. CASE ack.error = "none" /\ ack.status # Unreadable
    BY <2>1 DEF StatusAck
  <2>2. CASE ~(ack.error = "none" /\ ack.status # Unreadable)
    BY <2>2 DEF StatusAck
  <2> QED
    BY <2>1, <2>2
<1>2. number \in AckIds /\ pg \in PageT
  BY DEF PageTrue, PageT, AckIds, Ids
<1> HIDE DEF number, probe
<1>3. next \in PageT /\ Alike(next, pg) /\ next.saved = pg.saved /\ next.node = pg.node
  BY <1>2 DEF PageT, Alike
<1> HIDE DEF next
<1>4. PageTrue(next, ends, safe, builds)
  BY <1>3, AlikeTrue
<1>5. Quiet(Stay(next), pg, ends, safe, builds)
  BY <1>3, <1>4, StayTrue, SameRecord
<1>6. node \in NodeT /\ node.name = "idle" /\ node.shown = "none"
  BY Texts, IdleNodeIs
<1> HIDE DEF node
<1>7. pg.node.name = "idle" => Quiet(WithNode(next, node), pg, ends, safe, builds)
  <2>1. pg.node.name = "idle" => next.saved.request = None
    BY <1>3 DEF PageTrue, Follows
  <2> QED
    BY <1>3, <1>4, <1>6, <2>1, PlainTrue, SameRecord
<1>8. Quiet(OnStatus(pg, ack.status, probe, expired_), pg, ends, safe, builds)
  BY OnStatusTrue
<1> QED
  BY <1>1, <1>5, <1>7, <1>8

LEMMA PreviewAckTrue ==
    ASSUME NEW ends, NEW safe, NEW builds, NEW pg, NEW ack, NEW expired_,
           PageTrue(pg, ends, safe, builds), StatusTrue(ack.status, ends, safe),
           "new" \in builds, pg.node.name = "preview"
    PROVE  Quiet(PreviewAck(pg, ack, expired_), pg, ends, safe, builds)
<1> DEFINE heard == [pg EXCEPT !.node.armed = TRUE]
           no == FALSE
           yes == TRUE
<1>1. PreviewAck(pg, ack, expired_) \in
        {OnStatus(heard, ack.status, no, expired_), WithNode(heard, Classify(heard)),
         Ask(Stay(heard), yes), Refused(heard)}
  BY DEF PreviewAck
<1>2. PageTrue(heard, ends, safe, builds) /\ heard.saved = pg.saved
      /\ heard.node.name = "preview"
  BY ArmedTrue
<1> HIDE DEF heard, no, yes
<1>3. Quiet(OnStatus(heard, ack.status, no, expired_), heard, ends, safe, builds)
  BY <1>2, OnStatusTrue
<1>4. Quiet(WithNode(heard, Classify(heard)), heard, ends, safe, builds)
  <2>1. heard.saved.request = None
    BY <1>2 DEF PageTrue, Follows
  <2> QED
    BY <1>2, <2>1, ClassifyIs, PlainTrue
<1>5. Quiet(Ask(Stay(heard), yes), heard, ends, safe, builds)
  BY <1>2, StayTrue, AskTrue
<1>6. Quiet(Refused(heard), heard, ends, safe, builds)
  BY <1>2, RefusedTrue
<1> QED
  BY <1>1, <1>2, <1>3, <1>4, <1>5, <1>6, SameRecord

LEMMA ApplyRefusedTrue ==
    ASSUME NEW ends, NEW safe, NEW builds, NEW pg, NEW error, NEW expired_,
           PageTrue(pg, ends, safe, builds)
    PROVE  Quiet(ApplyRefused(pg, error, expired_), pg, ends, safe, builds)
<1> DEFINE back == pg.node.back
           ready == PreviewReady(IF back = None THEN pg.node.request ELSE back)
           again == [ready EXCEPT !.dialog = TRUE]
           refused == [ready EXCEPT !.sub = "refused", !.dialog = FALSE]
<1>1. pg \in PageT /\ pg.node.back \in Ids /\ pg.node.request \in Ids
  BY Fields DEF PageTrue, NodeT
<1>2. ready \in NodeT /\ ready.name = "preview" /\ ready.shown = "none"
  BY <1>1, PreviewReadyIs
<1> HIDE DEF ready
<1>3. again \in NodeT /\ again.name = "preview" /\ again.shown = "none"
      /\ refused \in NodeT /\ refused.name = "preview" /\ refused.shown = "none"
  BY <1>2, Texts DEF NodeT
<1>4. Refused(WithNode(pg, ready).page) = WithNode(pg, refused)
  <2>1. WithNode(pg, ready).page = [pg EXCEPT !.node = ready]
    BY DEF WithNode, Stay
  <2>2. [pg EXCEPT !.node = ready].node = ready
    BY <1>1 DEF PageT
  <2>3. [[pg EXCEPT !.node = ready] EXCEPT !.node = refused] = [pg EXCEPT !.node = refused]
    <3> HIDE DEF refused
    <3> QED
      BY <1>1 DEF PageT
  <2>4. Refused(WithNode(pg, ready).page) = WithNode([pg EXCEPT !.node = ready], refused)
    BY <2>1, <2>2 DEF Refused
  <2> QED
    BY <2>3, <2>4 DEF WithNode
<1>5. ApplyRefused(pg, error, expired_) \in
        {Clearing(WithNode(pg, again)), Clearing(WithNode(pg, refused))}
  <2> HIDE DEF again, refused
  <2> QED
    BY <1>4 DEF ApplyRefused, again, ready
<1> HIDE DEF again, refused
<1>6. NodeTrue(again, ends, safe) /\ NodeTrue(refused, ends, safe)
  BY <1>3 DEF NodeTrue
<1> QED
  BY <1>3, <1>5, <1>6, Drops

LEMMA ApplyAckTrue ==
    ASSUME NEW ends, NEW safe, NEW builds, NEW pg, NEW ack, NEW expired_,
           PageTrue(pg, ends, safe, builds), StatusTrue(ack.status, ends, safe),
           "new" \in builds
    PROVE  Quiet(ApplyAck(pg, ack, expired_), pg, ends, safe, builds)
<1> DEFINE settled == [pg EXCEPT !.node.armed = TRUE]
           no == FALSE
<1>1. ApplyAck(pg, ack, expired_) \in
        {OnStatus(settled, ack.status, no, expired_), Stay(settled),
         ApplyRefused(pg, ack.error, expired_)}
  BY DEF ApplyAck
<1>2. PageTrue(settled, ends, safe, builds) /\ settled.saved = pg.saved
      /\ settled.node.name = pg.node.name
  BY ArmedTrue
<1> HIDE DEF settled, no
<1> QED
  BY <1>1, <1>2, OnStatusTrue, StayTrue, ApplyRefusedTrue, SameRecord

LEMMA CancelAckTrue ==
    ASSUME NEW ends, NEW safe, NEW builds, NEW pg, NEW ack, NEW expired_,
           PageTrue(pg, ends, safe, builds), StatusTrue(ack.status, ends, safe),
           "new" \in builds
    PROVE  Quiet(CancelAck(pg, ack, expired_), pg, ends, safe, builds)
<1> DEFINE node == [pg.node EXCEPT !.sub = "following"]
           no == FALSE
<1>1. CancelAck(pg, ack, expired_) \in
        {OnStatus(pg, ack.status, no, expired_), Stay(pg), WithNode(pg, node)}
  BY DEF CancelAck
<1>2. pg.node \in NodeT /\ "following" \in Text /\ PhaseRank(pg.node.phase) \in Int
  BY Fields, Texts DEF PageTrue
<1>3. node \in NodeT /\ node.name = pg.node.name /\ node.sub = "following"
      /\ node.request = pg.node.request /\ node.phase = pg.node.phase
      /\ node.shown = pg.node.shown
  BY <1>2 DEF NodeT
<1> HIDE DEF node, no
<1>4. NodeTrue(node, ends, safe)
  BY <1>3 DEF NodeTrue
<1>5. pg.open /\ node.shown = "shown" => pg.build \in builds
  BY <1>3 DEF PageTrue
<1>6. pg.saved.request # None =>
        /\ node.name \notin {"idle", "preview"}
        /\ node.request = pg.node.request
        /\ PhaseRank(pg.node.phase) <= PhaseRank(node.phase)
  BY <1>2, <1>3 DEF PageTrue, Follows
<1>7. Quiet(WithNode(pg, node), pg, ends, safe, builds)
  BY <1>3, <1>4, <1>5, <1>6, Keeps
<1> QED
  BY <1>1, <1>7, OnStatusTrue, StayTrue

LEMMA DismissAckTrue ==
    ASSUME NEW ends, NEW safe, NEW builds, NEW pg, NEW ack, NEW expired_,
           PageTrue(pg, ends, safe, builds), StatusTrue(ack.status, ends, safe),
           "new" \in builds
    PROVE  Quiet(DismissAck(pg, ack, expired_), pg, ends, safe, builds)
<1> DEFINE reopened == [pg EXCEPT !.closed = None]
           armed == [reopened EXCEPT !.node.armed = TRUE]
           no == FALSE
<1>1. DismissAck(pg, ack, expired_) \in
        {Stay(pg), OnStatus(pg, ack.status, no, expired_),
         Ask(Stay(armed), no), Stay(reopened)}
  BY DEF DismissAck
<1>2. None \in AckIds /\ pg \in PageT
  BY DEF PageTrue, AckIds, Ids
<1>3. reopened \in PageT /\ Alike(reopened, pg)
  BY <1>2 DEF PageT, Alike
<1> HIDE DEF reopened
<1>4. PageTrue(reopened, ends, safe, builds) /\ reopened.saved = pg.saved
  BY <1>3, AlikeTrue DEF Alike
<1>5. PageTrue(armed, ends, safe, builds) /\ armed.saved = pg.saved
  BY <1>4, ArmedTrue
<1> HIDE DEF armed, no
<1> QED
  BY <1>1, <1>4, <1>5, OnStatusTrue, StayTrue, AskTrue, SameRecord

LEMMA OnAckTrue ==
    ASSUME NEW ends, NEW safe, NEW builds, NEW pg, NEW answer, NEW expired_,
           PageTrue(pg, ends, safe, builds), "status" \in DOMAIN answer,
           StatusTrue(answer.status, ends, safe), "new" \in builds
    PROVE  Quiet(OnAck(pg, answer, expired_), pg, ends, safe, builds)
<1> DEFINE ack == IF answer.status = Unreadable /\ answer.kind # "status"
                  THEN [answer EXCEPT !.error = "lost"] ELSE answer
           n == pg.node
           own == n.request = ack.request
<1>1. ack.status = answer.status
  OBVIOUS
<1>2. StatusTrue(ack.status, ends, safe)
  BY <1>1
<1>3. OnAck(pg, answer, expired_) =
        CASE ack.kind = "status" -> StatusAck(pg, ack, expired_)
          [] ack.kind = "dismiss" -> DismissAck(pg, ack, expired_)
          [] ack.kind = "preview" /\ own /\ n.name = "preview"
               /\ n.sub = "checking" -> PreviewAck(pg, ack, expired_)
          [] ack.kind = "apply" /\ own /\ n.name = "running" ->
               ApplyAck(pg, ack, expired_)
          [] ack.kind = "cancel" /\ own /\ n.name = "running" ->
               CancelAck(pg, ack, expired_)
          [] OTHER -> Stay(pg)
  BY DEF OnAck
<1> HIDE DEF ack, own
<1>4. CASE ack.kind = "preview" /\ own /\ n.name = "preview" /\ n.sub = "checking"
  BY <1>2, <1>3, <1>4, PreviewAckTrue
<1>5. CASE ~(ack.kind = "preview" /\ own /\ n.name = "preview" /\ n.sub = "checking")
  <2>1. OnAck(pg, answer, expired_) \in
          {StatusAck(pg, ack, expired_), DismissAck(pg, ack, expired_),
           ApplyAck(pg, ack, expired_), CancelAck(pg, ack, expired_), Stay(pg)}
    BY <1>3, <1>5
  <2> QED
    BY <1>2, <2>1, StatusAckTrue, DismissAckTrue, ApplyAckTrue, CancelAckTrue, StayTrue
<1> QED
  BY <1>4, <1>5

----------------------------------------------------------------------------
(* Loading, the connection and the owner                                    *)

LEMMA BootTrue ==
    ASSUME NEW ends, NEW safe, NEW builds, NEW pg, NEW build \in Text,
           pg.saved \in RecordT,
           pg.saved.stage = "none" => pg.saved.request = None,
           pg.saved.success => "success" \in ends[pg.saved.request] /\ build \in builds
    PROVE  /\ PageTrue(Boot(pg, build), ends, safe, builds)
           /\ Forward(pg.saved, Boot(pg, build).saved)
<1> DEFINE saved == IF pg.saved.stage = "finished" /\ ~pg.saved.success THEN NoRecord
                    ELSE pg.saved
           node == BootNode(pg.saved)
           next == Boot(pg, build)
<1>0. pg.saved.request \in Ids /\ pg.saved.phase \in PhaseNames
      /\ PhaseRank(pg.saved.phase) \in Int
  BY Ranks DEF RecordT
<1>1. saved \in RecordT /\ (saved.success => pg.saved.success /\ saved = pg.saved)
      /\ (saved = NoRecord \/ saved = pg.saved)
  BY NoRecordIs
<1>2. NoNode \in NodeT /\ NoNode.name = "idle" /\ NoNode.shown = "none"
  BY Texts, Phases DEF NoNode, NodeT, Ids
<1> DEFINE out == OutcomeNode(pg.saved.request, pg.saved.phase, "updated")
           run == RunningNode(pg.saved.request, pg.saved.phase)
<1>31. out \in NodeT /\ out.name = "outcome" /\ out.sub = "updated"
       /\ out.shown = "shown" /\ out.request = pg.saved.request
       /\ out.phase = pg.saved.phase
  <2>1. "updated" \in Text
    BY Texts
  <2> QED
    BY <1>0, <2>1, OutcomeNodeIs
<1>41. run \in NodeT /\ run.name = "running" /\ run.shown = "none"
       /\ run.request = pg.saved.request /\ run.phase = pg.saved.phase
  <2>1. \A request \in Ids, phase \in PhaseNames :
           LET it == RunningNode(request, phase) IN
           it \in NodeT /\ it.name = "running" /\ it.shown = "none"
             /\ it.request = request /\ it.phase = phase
    BY RunningNodeIs
  <2> QED
    BY <1>0, <2>1
<1> DEFINE kept == [out EXCEPT !.pending = TRUE]
           seen == pg.saved.stage = "running"
           sub == IF pg.saved.stage = "submitting" THEN "submitting" ELSE "following"
           followed == [run EXCEPT !.seen = seen, !.sub = sub]
<1>3. kept \in NodeT /\ kept.name = "outcome" /\ kept.sub = "updated"
      /\ kept.shown = "shown" /\ kept.request = pg.saved.request
      /\ kept.phase = pg.saved.phase
  <2> HIDE DEF out
  <2> QED
    BY <1>31 DEF NodeT
<1>4. followed \in NodeT /\ followed.name = "running" /\ followed.shown = "none"
      /\ followed.request = pg.saved.request /\ followed.phase = pg.saved.phase
  <2>1. seen \in BOOLEAN /\ sub \in Text
    BY Texts
  <2> HIDE DEF seen, sub, run
  <2> QED
    BY <1>41, <2>1 DEF NodeT
<1>5. \/ node = NoNode /\ (pg.saved.stage = "none" \/ saved = NoRecord)
      \/ node = kept /\ pg.saved.success
      \/ node = followed
  <2> HIDE DEF kept, followed
  <2> QED
    BY DEF BootNode, kept, followed, seen, sub, out, run
<1>6. Closed(saved) \in PageT /\ Closed(saved).saved = saved /\ Closed(saved).status = NoStatus
  <2> HIDE DEF saved
  <2> QED
    BY <1>1, <1>2, NoOperationIs, Texts DEF Closed, PageT, AckIds, Ids
<1>7. next = [Closed(saved) EXCEPT !.open = TRUE, !.build = build, !.node = node]
  BY DEF Boot
<1> HIDE DEF kept, followed, saved, node, next
<1>8. node \in NodeT
  BY <1>2, <1>3, <1>4, <1>5
<1>9. next \in PageT /\ next.saved = saved /\ next.status = NoStatus
      /\ next.node = node /\ next.build = build
  BY <1>6, <1>7, <1>8 DEF PageT
<1>10. NodeTrue(node, ends, safe)
  BY <1>2, <1>3, <1>4, <1>5 DEF NodeTrue
<1>11. node.shown = "shown" => build \in builds
  BY <1>2, <1>3, <1>4, <1>5
<1>12. saved.stage = "none" => saved.request = None
  BY <1>1, NoRecordIs
<1>13. Follows(next)
  BY <1>0, <1>1, <1>2, <1>3, <1>4, <1>5, <1>9, NoRecordIs DEF Follows
<1>14. PageTrue(next, ends, safe, builds)
  BY <1>1, <1>9, <1>10, <1>11, <1>12, <1>13, NoOperationIs DEF PageTrue
<1>15. Forward(pg.saved, next.saved)
  BY <1>0, <1>1, <1>9, NoRecordIs DEF Forward
<1> QED
  BY <1>14, <1>15 DEF next
\* The node says what it said.
LEMMA RetouchedTrue ==
    ASSUME NEW ends, NEW safe, NEW builds, NEW pg, NEW node \in NodeT,
           PageTrue(pg, ends, safe, builds),
           node.name = pg.node.name, node.request = pg.node.request,
           node.phase = pg.node.phase, node.shown = pg.node.shown,
           node.sub = pg.node.sub \/ pg.node.name # "outcome"
    PROVE  Quiet(WithNode(pg, node), pg, ends, safe, builds)
<1>1. PhaseRank(pg.node.phase) \in Int
  BY Fields DEF PageTrue
<1>2. NodeTrue(node, ends, safe)
  BY DEF PageTrue, NodeTrue
<1>3. pg.open /\ node.shown = "shown" => pg.build \in builds
  BY DEF PageTrue
<1>4. pg.saved.request # None =>
        /\ node.name \notin {"idle", "preview"}
        /\ node.request = pg.node.request
        /\ PhaseRank(pg.node.phase) <= PhaseRank(node.phase)
  BY <1>1 DEF PageTrue, Follows
<1> QED
  BY <1>2, <1>3, <1>4, Keeps

LEMMA LinkUpTrue ==
    ASSUME NEW ends, NEW safe, NEW builds, NEW pg,
           PageTrue(pg, ends, safe, builds)
    PROVE  Quiet(LinkUp(pg), pg, ends, safe, builds)
<1> DEFINE next == [pg EXCEPT !.link = "online"]
           n == pg.node
           waits == \/ n.name = "running" \/ n.pending
                    \/ (n.name = "preview" /\ n.sub = "checking")
           arms == waits \/ (n.name = "idle" /\ n.sub = "loading")
           quiet == n.quiet /\ n.name # "running"
           armed == [n EXCEPT !.armed = TRUE, !.quiet = quiet]
           node == IF arms THEN armed ELSE n
<1>1. pg \in PageT /\ n \in NodeT /\ "online" \in Text
  BY Fields, Texts DEF PageTrue
<1>2. next \in PageT /\ Alike(next, pg)
  BY <1>1 DEF PageT, Alike
<1>3. quiet \in BOOLEAN
  OBVIOUS
<1>4. armed \in NodeT /\ armed.name = n.name /\ armed.request = n.request
      /\ armed.phase = n.phase /\ armed.shown = n.shown /\ armed.sub = n.sub
  <2> HIDE DEF quiet
  <2> QED
    BY <1>1, <1>3 DEF NodeT
<1>5. LinkUp(pg) = Ask(WithNode(next, node), waits)
  BY DEF LinkUp
<1> HIDE DEF next, armed, waits
<1>6. node \in NodeT /\ node.name = n.name /\ node.request = n.request
      /\ node.phase = n.phase /\ node.shown = n.shown /\ node.sub = n.sub
  BY <1>1, <1>4
<1> HIDE DEF node
<1>7. PageTrue(next, ends, safe, builds) /\ next.node = n
  BY <1>2, AlikeTrue DEF Alike
<1>8. Quiet(WithNode(next, node), next, ends, safe, builds)
  BY <1>6, <1>7, RetouchedTrue
<1>9. Quiet(WithNode(next, node), pg, ends, safe, builds)
  BY <1>2, <1>8, AlikeTrue
<1> QED
  BY <1>5, <1>9, AskTrue

\* The connection of a page changes, and what it waits for.
LEMMA ConnectionTrue ==
    ASSUME NEW ends, NEW safe, NEW builds, NEW pg,
           PageTrue(pg, ends, safe, builds)
    PROVE  /\ Quiet(LinkDown(pg), pg, ends, safe, builds)
           /\ Quiet(AuthLost(pg), pg, ends, safe, builds)
<1> DEFINE off == [pg EXCEPT !.link = "offline", !.probe = None]
           out == [pg EXCEPT !.link = "need-auth", !.probe = None]
<1>1. pg \in PageT /\ "offline" \in Text /\ "need-auth" \in Text /\ None \in AckIds
  BY Texts DEF PageTrue, AckIds, Ids
<1>2. off \in PageT /\ Alike(off, pg) /\ out \in PageT /\ Alike(out, pg)
  BY <1>1 DEF PageT, Alike
<1>3. LinkDown(pg) \in {Stay(pg), Stay(off)} /\ AuthLost(pg) = Stay(out)
  BY DEF LinkDown, AuthLost
<1> HIDE DEF off, out
<1>4. Quiet(Stay(off), pg, ends, safe, builds)
  BY <1>2, AlikeTrue, StayTrue
<1>5. Quiet(Stay(out), pg, ends, safe, builds)
  BY <1>2, AlikeTrue, StayTrue
<1> QED
  BY <1>3, <1>4, <1>5, StayTrue

LEMMA TickTrue ==
    ASSUME NEW ends, NEW safe, NEW builds, NEW pg, NEW expired_,
           PageTrue(pg, ends, safe, builds), TickEnabled(pg, expired_)
    PROVE  Quiet(Tick(pg), pg, ends, safe, builds)
<1> DEFINE n == pg.node
           quiet == [n EXCEPT !.quiet = TRUE]
           overdue == [pg EXCEPT !.link = "overdue"]
           yes == TRUE
           manual == IdleNode("manual")
<1>1. pg \in PageT /\ n \in NodeT /\ "overdue" \in Text /\ "manual" \in Text
  BY Fields, Texts DEF PageTrue
<1>2. \/ n.name = "idle" /\ Tick(pg) = WithNode(pg, manual)
      \/ n.name = "preview" /\ Tick(pg) = WithNode(pg, Classify(pg))
      \/ Tick(pg) = Ask(WithNode(pg, quiet), yes)
      \/ Tick(pg) = Stay(overdue)
      \/ Tick(pg) = Ask(Stay(pg), yes)
  BY DEF Tick
<1>3. quiet \in NodeT /\ quiet.name = n.name /\ quiet.request = n.request
      /\ quiet.phase = n.phase /\ quiet.shown = n.shown /\ quiet.sub = n.sub
  BY <1>1 DEF NodeT
<1>4. overdue \in PageT /\ Alike(overdue, pg)
  BY <1>1 DEF PageT, Alike
<1>5. manual \in NodeT /\ manual.name = "idle" /\ manual.shown = "none"
  BY <1>1, IdleNodeIs
<1> HIDE DEF quiet, overdue, yes, manual
<1>6. Quiet(WithNode(pg, quiet), pg, ends, safe, builds)
  BY <1>3, RetouchedTrue
<1>7. Quiet(Stay(overdue), pg, ends, safe, builds)
  BY <1>4, AlikeTrue, StayTrue
<1>8. n.name \in {"idle", "preview"} => pg.saved.request = None
  BY DEF PageTrue, Follows
<1>9. CASE n.name = "idle" /\ Tick(pg) = WithNode(pg, manual)
  BY <1>5, <1>8, <1>9, PlainTrue
<1>10. CASE n.name = "preview" /\ Tick(pg) = WithNode(pg, Classify(pg))
  BY <1>8, <1>10, ClassifyIs, PlainTrue
<1> QED
  BY <1>2, <1>6, <1>7, <1>9, <1>10, AskTrue, StayTrue
\* A step that may send something, but does not start an update.
Mild(step, was, ends, safe, builds) ==
    StepTrue(step, was, ends, safe, builds) /\ step.emit.kind # "apply"

LEMMA QuietIsMild ==
    ASSUME NEW ends, NEW safe, NEW builds, NEW pg, NEW step,
           Quiet(step, pg, ends, safe, builds)
    PROVE  Mild(step, pg, ends, safe, builds)
BY DEF Quiet, Mild, NoEmit

LEMMA EmitIs ==
    ASSUME NEW step \in StepT, NEW kind \in Text, NEW request \in Ids, NEW preview \in Ids
    PROVE  /\ Emit(step, kind, request, preview) \in StepT
           /\ Emit(step, kind, request, preview).page = step.page
           /\ Emit(step, kind, request, preview).emit.kind = kind
           /\ Emit(step, kind, request, preview).emit.request = request
BY DEF Emit, StepT, EmitT

LEMMA EmitTrue ==
    ASSUME NEW ends, NEW safe, NEW builds, NEW pg, NEW step,
           NEW kind \in Text, NEW request \in Ids, NEW preview \in Ids,
           Quiet(step, pg, ends, safe, builds)
    PROVE  /\ StepTrue(Emit(step, kind, request, preview), pg, ends, safe, builds)
           /\ kind # "apply" => Mild(Emit(step, kind, request, preview), pg, ends, safe, builds)
<1> DEFINE next == Emit(step, kind, request, preview)
<1>1. step \in StepT
  BY DEF Quiet, StepTrue
<1>2. next \in StepT /\ next.page = step.page /\ next.emit.kind = kind
  BY <1>1, EmitIs
<1> HIDE DEF next
<1>3. StepTrue(next, pg, ends, safe, builds)
  BY <1>2 DEF Quiet, StepTrue
<1> QED
  BY <1>2, <1>3 DEF Mild, next

LEMMA CheckTrue ==
    ASSUME NEW ends, NEW safe, NEW builds, NEW pg, NEW request \in Ids,
           PageTrue(pg, ends, safe, builds), Checkable(pg)
    PROVE  Mild(Check(pg, request), pg, ends, safe, builds)
<1> DEFINE node == [NoNode EXCEPT !.name = "preview", !.sub = "checking",
                                  !.request = request]
<1>1. "preview" \in Text /\ "checking" \in Text /\ None \in Ids
  BY Texts DEF Ids
<1>2. node \in NodeT /\ node.name = "preview" /\ node.shown = "none"
  BY <1>1, Texts, Phases DEF NoNode, NodeT
<1>3. Check(pg, request) = Emit(WithNode(pg, node), "preview", request, None)
  BY DEF Check
<1> HIDE DEF node
<1>4. pg.saved.request = None
  BY DEF PageTrue, Follows, Checkable
<1>5. Quiet(WithNode(pg, node), pg, ends, safe, builds)
  BY <1>2, <1>4, PlainTrue
<1> QED
  BY <1>1, <1>3, <1>5, EmitTrue

LEMMA SubmitTrue ==
    ASSUME NEW ends, NEW safe, NEW builds, NEW pg, NEW request \in Ids, NEW expired_,
           PageTrue(pg, ends, safe, builds), Submittable(pg, expired_)
    PROVE  /\ StepTrue(Submit(pg, request), pg, ends, safe, builds)
           /\ Submit(pg, request).emit.kind = "apply"
           /\ Submit(pg, request).emit.request = request
<1> DEFINE flag == FALSE
           run == RunningNode(request, "none")
           node == [run EXCEPT !.sub = "submitting", !.seen = FALSE, !.armed = FALSE,
                               !.back = pg.node.request]
           step == Saving(WithNode(pg, node), ToRecord(node, "submitting", flag))
<1>1. pg \in PageT /\ pg.node \in NodeT /\ pg.node.request \in Ids
  BY Fields DEF PageTrue, NodeT
<1>2. "none" \in PhaseNames /\ "apply" \in Text /\ "submitting" \in Text \ {"none"}
  BY Texts, Phases
<1>3. run \in NodeT /\ run.name = "running" /\ run.shown = "none" /\ run.request = request
  BY <1>2, RunningNodeIs
<1> HIDE DEF run
<1>4. node \in NodeT /\ node.name = "running" /\ node.shown = "none" /\ node.request = request
  BY <1>1, <1>2, <1>3 DEF NodeT
<1>5. Submit(pg, request) = Emit(step, "apply", request, pg.node.request)
  BY DEF Submit, run
<1> HIDE DEF node
<1>6. NodeTrue(node, ends, safe)
  BY <1>4 DEF NodeTrue
<1>7. flag \in BOOLEAN /\ (flag <=> FALSE)
  OBVIOUS
<1>8. pg.saved.request = None
  BY DEF PageTrue, Follows, Submittable
<1> HIDE DEF flag
<1>9. Quiet(step, pg, ends, safe, builds)
  BY <1>2, <1>4, <1>6, <1>7, <1>8, Saves
<1>10. step \in StepT
  BY <1>9 DEF Quiet, StepTrue
<1> HIDE DEF step
<1>11. StepTrue(Submit(pg, request), pg, ends, safe, builds)
  BY <1>1, <1>2, <1>5, <1>9, EmitTrue
<1>12. Submit(pg, request).emit.kind = "apply" /\ Submit(pg, request).emit.request = request
  BY <1>1, <1>2, <1>5, <1>10, EmitIs
<1> QED
  BY <1>11, <1>12

LEMMA CancelTrue ==
    ASSUME NEW ends, NEW safe, NEW builds, NEW pg,
           PageTrue(pg, ends, safe, builds), Cancellable(pg)
    PROVE  Mild(Cancel(pg), pg, ends, safe, builds)
<1> DEFINE node == [pg.node EXCEPT !.sub = "cancelling"]
<1>1. pg.node \in NodeT /\ pg.node.request \in Ids /\ "cancelling" \in Text
      /\ "cancel" \in Text /\ None \in Ids
  BY Fields, Texts DEF PageTrue, NodeT, Ids
<1>2. node \in NodeT /\ node.name = pg.node.name /\ node.request = pg.node.request
      /\ node.phase = pg.node.phase /\ node.shown = pg.node.shown
      /\ pg.node.name # "outcome"
  BY <1>1 DEF NodeT, Cancellable
<1>3. Cancel(pg) = Emit(WithNode(pg, node), "cancel", pg.node.request, None)
  BY DEF Cancel
<1> HIDE DEF node
<1>4. Quiet(WithNode(pg, node), pg, ends, safe, builds)
  BY <1>2, RetouchedTrue
<1> QED
  BY <1>1, <1>3, <1>4, EmitTrue

LEMMA ConfirmTrue ==
    ASSUME NEW ends, NEW safe, NEW builds, NEW pg,
           PageTrue(pg, ends, safe, builds)
    PROVE  Quiet(Confirm(pg), pg, ends, safe, builds)
<1> DEFINE node == [pg.node EXCEPT !.dialog = TRUE]
<1>1. pg.node \in NodeT
  BY Fields DEF PageTrue
<1>2. node \in NodeT /\ node.name = pg.node.name /\ node.request = pg.node.request
      /\ node.phase = pg.node.phase /\ node.shown = pg.node.shown
      /\ node.sub = pg.node.sub
  BY <1>1 DEF NodeT
<1>3. Confirm(pg) = WithNode(pg, node)
  BY DEF Confirm
<1> HIDE DEF node
<1> QED
  BY <1>2, <1>3, RetouchedTrue

LEMMA PutAwayTrue ==
    ASSUME NEW ends, NEW safe, NEW builds, NEW pg, NEW node \in NodeT,
           PageTrue(pg, ends, safe, builds),
           node.name = "idle", node.shown = "none"
    PROVE  Quiet(Clearing(WithNode(pg, node)), pg, ends, safe, builds)
<1>1. NodeTrue(node, ends, safe)
  BY DEF NodeTrue
<1> QED
  BY <1>1, Drops

LEMMA DismissTrue ==
    ASSUME NEW ends, NEW safe, NEW builds, NEW pg,
           PageTrue(pg, ends, safe, builds)
    PROVE  Mild(Dismiss(pg), pg, ends, safe, builds)
<1> DEFINE closed == [pg EXCEPT !.closed = pg.node.request]
           idle == IdleNode("loading")
           node == [idle EXCEPT !.armed = TRUE]
           step == Clearing(WithNode(closed, node))
<1>1. pg \in PageT /\ pg.node.request \in Ids /\ pg.node.request \in AckIds
      /\ "loading" \in Text /\ "dismiss" \in Text /\ None \in Ids
  BY Fields, Texts DEF PageTrue, NodeT, Ids, AckIds
<1>2. closed \in PageT /\ Alike(closed, pg)
  BY <1>1 DEF PageT, Alike
<1>3. idle \in NodeT /\ idle.name = "idle" /\ idle.shown = "none"
  BY <1>1, IdleNodeIs
<1>4. \/ Dismiss(pg) = Clearing(WithNode(pg, Classify(pg)))
      \/ Dismiss(pg) = Emit(step, "dismiss", pg.node.request, None)
  BY DEF Dismiss
<1> HIDE DEF closed, idle
<1>5. node \in NodeT /\ node.name = "idle" /\ node.shown = "none"
  BY <1>3 DEF NodeT
<1> HIDE DEF node
<1>6. Quiet(Clearing(WithNode(pg, Classify(pg))), pg, ends, safe, builds)
  BY ClassifyIs, PutAwayTrue
<1>7. Quiet(step, pg, ends, safe, builds)
  BY <1>2, <1>5, AlikeTrue, PutAwayTrue
<1> HIDE DEF step
<1> QED
  BY <1>1, <1>4, <1>6, <1>7, EmitTrue, QuietIsMild

LEMMA CloseTrue ==
    ASSUME NEW ends, NEW safe, NEW builds, NEW pg,
           PageTrue(pg, ends, safe, builds)
    PROVE  Quiet(Close(pg), pg, ends, safe, builds)
<1> DEFINE closed == [pg EXCEPT !.closed = pg.node.request]
           node == [pg.node EXCEPT !.dialog = FALSE]
<1>1. pg \in PageT /\ pg.node \in NodeT /\ pg.node.request \in AckIds
  BY Fields DEF PageTrue, NodeT, AckIds
<1>2. closed \in PageT /\ Alike(closed, pg)
  BY <1>1 DEF PageT, Alike
<1>3. node \in NodeT /\ node.name = pg.node.name /\ node.request = pg.node.request
      /\ node.phase = pg.node.phase /\ node.shown = pg.node.shown
      /\ node.sub = pg.node.sub
  BY <1>1 DEF NodeT
<1>4. \/ Close(pg) = WithNode(pg, node)
      \/ pg.node.name = "preview" /\ Close(pg) = WithNode(pg, Classify(pg))
      \/ Close(pg) = Clearing(WithNode(closed, Classify(closed)))
  BY DEF Close
<1> HIDE DEF closed, node
<1>5. Quiet(WithNode(pg, node), pg, ends, safe, builds)
  BY <1>3, RetouchedTrue
<1>6. Quiet(Clearing(WithNode(closed, Classify(closed))), pg, ends, safe, builds)
  BY <1>2, ClassifyIs, AlikeTrue, PutAwayTrue
<1>7. pg.node.name = "preview" => Quiet(WithNode(pg, Classify(pg)), pg, ends, safe, builds)
  <2>1. pg.node.name = "preview" => pg.saved.request = None
    BY DEF PageTrue, Follows
  <2> QED
    BY <2>1, ClassifyIs, PlainTrue
<1> QED
  BY <1>4, <1>5, <1>6, <1>7

----------------------------------------------------------------------------
(* What stays true while more ends are reached and more updates are settled *)

More(ends, safe, later, settled) ==
    (\A r \in Ids : ends[r] \subseteq later[r]) /\ safe \subseteq settled

LEMMA MoreTrue ==
    ASSUME NEW ends, NEW safe, NEW later, NEW settled, More(ends, safe, later, settled)
    PROVE  /\ \A op \in OpT : OpTrue(op, ends, safe) => OpTrue(op, later, settled)
           /\ \A s : StatusTrue(s, ends, safe) => StatusTrue(s, later, settled)
           /\ Messages(ends, safe) \subseteq Messages(later, settled)
           /\ \A s : SessionTrue(s, ends, safe) => SessionTrue(s, later, settled)
<1>1. ASSUME NEW op \in OpT, OpTrue(op, ends, safe)
      PROVE  OpTrue(op, later, settled)
  BY <1>1 DEF OpTrue, More, OpT
<1>2. ASSUME NEW s, StatusTrue(s, ends, safe)
      PROVE  StatusTrue(s, later, settled)
  BY <1>1, <1>2 DEF StatusTrue, StatusT
<1>3. ASSUME NEW m \in Messages(ends, safe)
      PROVE  m \in Messages(later, settled)
  BY <1>1, <1>3 DEF Messages, StatusT
<1>4. ASSUME NEW s, SessionTrue(s, ends, safe)
      PROVE  SessionTrue(s, later, settled)
  BY <1>2, <1>4 DEF SessionTrue
<1> QED
  BY <1>1, <1>2, <1>3, <1>4

LEMMA MorePageTrue ==
    ASSUME NEW ends, NEW safe, NEW later, NEW settled, More(ends, safe, later, settled),
           NEW builds, NEW wider, builds \subseteq wider, NEW pg,
           PageTrue(pg, ends, safe, builds)
    PROVE  PageTrue(pg, later, settled, wider)
<1>1. pg \in PageT /\ pg.node.request \in Ids /\ pg.saved.request \in Ids
  BY Fields DEF PageTrue, NodeT, RecordT
<1>2. NodeTrue(pg.node, later, settled)
  BY <1>1 DEF PageTrue, NodeTrue, More
<1>3. pg.saved.success => "success" \in later[pg.saved.request]
  BY <1>1 DEF PageTrue, More
<1> QED
  BY <1>1, <1>2, <1>3, MoreTrue DEF PageTrue

\* The order of a set of answers is open, but they are all in it.
LEMMA SetToSeqIs ==
    ASSUME NEW S, IsFiniteSet(S)
    PROVE  SetToSeq(S) \in Seq(S)
<1>1. Cardinality(S) \in Nat /\ ExistsBijection(1..Cardinality(S), S)
  BY FS_CardinalityType
<1>2. \E f \in [1..Cardinality(S) -> S] : IsInjective(f)
  BY <1>1 DEF ExistsBijection, Bijection, Injection, IsInjective
<1>3. SetToSeq(S) \in [1..Cardinality(S) -> S]
  BY <1>2 DEF SetToSeq
<1> QED
  BY <1>1, <1>3

----------------------------------------------------------------------------
(* The panel's memory                                                       *)

\* An update that was not asked for is not asked for afterwards.
Stands(t, s, ends, safe) == SessionTrue(t, ends, safe) /\ Asked(t) \subseteq Asked(s)

LEMMA NewSessionTrue ==
    ASSUME NEW ends, NEW safe
    PROVE  SessionTrue(NewSession, ends, safe) /\ Asked(NewSession) = {}
<1> DEFINE s == NewSession
           flag == TRUE
<1>1. NoReading \in [step : Text, status : StatusT, waiters : SUBSET CallT]
      /\ NoReading.waiters = {} /\ NoReading.status = NoStatus
  BY NoOperationIs, Texts DEF NoReading
<1>2. s = [queue |-> <<>>, calls |-> {}, reading |-> NoReading,
           refresh |-> flag, follow |-> {}, published |-> NoStatus]
  BY DEF NewSession
<1>3. flag \in BOOLEAN
  OBVIOUS
<1> HIDE DEF flag, s
<1>4. s \in SessionT /\ s.queue = <<>> /\ s.calls = {} /\ s.reading = NoReading
  BY <1>1, <1>2, <1>3, NoOperationIs DEF SessionT
<1>5. Applies(s) = {} /\ Jobs(s) = {}
  BY <1>4 DEF Applies, Jobs
<1>6. Distinct(s) /\ Asked(s) = {}
  BY <1>5 DEF Distinct, Asked
<1>7. SessionTrue(s, ends, safe)
  BY <1>1, <1>4, <1>6, FS_EmptySet, NoOperationIs DEF SessionTrue
<1> QED
  BY <1>6, <1>7 DEF s

\* Only what the panel publishes, follows and reads changes.
LEMMA SameWork ==
    ASSUME NEW ends, NEW safe, NEW s, NEW t \in SessionT, SessionTrue(s, ends, safe),
           t.calls = s.calls, t.queue = s.queue,
           StatusTrue(t.reading.status, ends, safe),
           IsFiniteSet(t.reading.waiters)
    PROVE  Stands(t, s, ends, safe)
BY DEF Stands, SessionTrue, Distinct, Asked, Applies, Jobs

\* Fewer calls, and jobs as they were.
LEMMA FewerCalls ==
    ASSUME NEW ends, NEW safe, NEW s, NEW t \in SessionT, SessionTrue(s, ends, safe),
           Applies(t) \subseteq Applies(s), IsFiniteSet(t.calls), t.queue = s.queue,
           StatusTrue(t.reading.status, ends, safe),
           IsFiniteSet(t.reading.waiters)
    PROVE  Stands(t, s, ends, safe)
<1>1. Jobs(t) = Jobs(s)
  BY DEF Jobs
<1>2. Distinct(t)
  BY <1>1 DEF SessionTrue, Distinct
<1>3. Asked(t) \subseteq Asked(s)
  BY <1>1 DEF Asked
<1> QED
  BY <1>2, <1>3 DEF Stands, SessionTrue

LEMMA SessionFields ==
    ASSUME NEW s \in SessionT
    PROVE  /\ s.queue \in Seq(JobT) /\ s.calls \in SUBSET CallT
           /\ s.reading \in [step : Text, status : StatusT, waiters : SUBSET CallT]
           /\ s.reading.status \in StatusT /\ s.reading.waiters \in SUBSET CallT
           /\ s.refresh \in BOOLEAN /\ s.follow \in SUBSET Ids /\ s.published \in StatusT
BY DEF SessionT

\* A refresh is due, a helper is followed or its output has ended.
LEMMA NoticesTrue ==
    ASSUME NEW ends, NEW safe, NEW s, SessionTrue(s, ends, safe)
    PROVE  /\ Stands(s, s, ends, safe)
           /\ Stands(RefreshDue(s), s, ends, safe)
           /\ \A request : Stands(RefreshDue([s EXCEPT !.follow = @ \ {request}]), s, ends, safe)
<1>1. s \in SessionT
  BY DEF SessionTrue
<1>2. Stands(s, s, ends, safe)
  BY DEF Stands
<1>3. Stands(RefreshDue(s), s, ends, safe)
  <2> DEFINE t == RefreshDue(s)
  <2>1. t \in SessionT /\ t.calls = s.calls /\ t.queue = s.queue /\ t.reading = s.reading
    BY <1>1 DEF SessionT, RefreshDue
  <2> HIDE DEF t
  <2> QED
    BY <2>1, SameWork DEF SessionTrue, t
<1>4. ASSUME NEW request
      PROVE  Stands(RefreshDue([s EXCEPT !.follow = @ \ {request}]), s, ends, safe)
  <2> DEFINE t == RefreshDue([s EXCEPT !.follow = @ \ {request}])
  <2>1. t \in SessionT /\ t.calls = s.calls /\ t.queue = s.queue /\ t.reading = s.reading
    BY <1>1 DEF SessionT, RefreshDue
  <2> HIDE DEF t
  <2> QED
    BY <2>1, SameWork DEF SessionTrue, t
<1> QED
  BY <1>2, <1>3, <1>4

\* A status that the panel announces.
LEMMA ObservedIs ==
    ASSUME NEW s \in SessionT, NEW status \in StatusT
    PROVE  /\ Observed(s, status) \in SessionT
           /\ Observed(s, status).calls = s.calls
           /\ Observed(s, status).queue = s.queue
           /\ Observed(s, status).reading = s.reading
<1> DEFINE r == status.op.request
           said == [s EXCEPT !.published = status]
           heard == [said EXCEPT !.follow = @ \cup {r}]
           owed == RefreshDue(said)
<1>1. r \in Ids
  BY DEF StatusT, OpT
<1>2. said \in SessionT /\ said.calls = s.calls /\ said.queue = s.queue
      /\ said.reading = s.reading
  BY DEF SessionT
<1> HIDE DEF r
<1>3. heard \in SessionT /\ heard.calls = s.calls /\ heard.queue = s.queue
      /\ heard.reading = s.reading
  <2> HIDE DEF said
  <2> QED
    BY <1>1, <1>2 DEF SessionT
<1>4. owed \in SessionT /\ owed.calls = s.calls /\ owed.queue = s.queue
      /\ owed.reading = s.reading
  <2> HIDE DEF said
  <2> QED
    BY <1>2 DEF SessionT, RefreshDue
<1>5. Observed(s, status) \in {s, said, heard, owed}
  BY DEF Observed, r
<1> HIDE DEF said, heard, owed
<1> QED
  BY <1>2, <1>3, <1>4, <1>5

LEMMA ObservedTrue ==
    ASSUME NEW ends, NEW safe, NEW s, NEW status \in StatusT, SessionTrue(s, ends, safe)
    PROVE  Stands(Observed(s, status), s, ends, safe)
<1> DEFINE t == Observed(s, status)
<1>1. t \in SessionT /\ t.calls = s.calls /\ t.queue = s.queue /\ t.reading = s.reading
  BY ObservedIs DEF SessionTrue
<1> HIDE DEF t
<1> QED
  BY <1>1, SameWork DEF SessionTrue, t

LEMMA WithoutTrue ==
    ASSUME NEW ends, NEW safe, NEW s, NEW call, SessionTrue(s, ends, safe)
    PROVE  Stands(Without(s, call), s, ends, safe)
<1> DEFINE t == Without(s, call)
<1>1. t \in SessionT /\ t.calls = s.calls \ {call} /\ t.queue = s.queue /\ t.reading = s.reading
  BY DEF SessionTrue, SessionT, Without
<1> HIDE DEF t
<1>2. Applies(t) \subseteq Applies(s)
  BY <1>1 DEF Applies
<1>3. IsFiniteSet(t.calls)
  BY <1>1, FS_Subset DEF SessionTrue
<1> QED
  BY <1>1, <1>2, <1>3, FewerCalls DEF SessionTrue, t

\* A cancel goes through its steps.
LEMMA MovedTrue ==
    ASSUME NEW ends, NEW safe, NEW s, SessionTrue(s, ends, safe),
           NEW call \in s.calls, call.kind # "apply", NEW step \in Text
    PROVE  Stands(Moved(s, call, step), s, ends, safe)
<1> DEFINE t == Moved(s, call, step)
           next == [call EXCEPT !.step = step]
<1>1. call \in CallT /\ s \in SessionT
  BY DEF SessionTrue, SessionT
<1>2. next \in CallT /\ next.kind = call.kind
  BY <1>1 DEF CallT
<1>3. t = [s EXCEPT !.calls = (@ \ {call}) \cup {next}]
  BY DEF Moved
<1> HIDE DEF next
<1>4. t \in SessionT /\ t.calls = (s.calls \ {call}) \cup {next} /\ t.queue = s.queue
      /\ t.reading = s.reading
  BY <1>1, <1>2, <1>3 DEF SessionT
<1> HIDE DEF t
<1>5. Applies(t) \subseteq Applies(s)
  BY <1>2, <1>4 DEF Applies
<1>6. IsFiniteSet(t.calls)
  <2>1. IsFiniteSet(s.calls \ {call})
    BY FS_Subset DEF SessionTrue
  <2> QED
    BY <1>4, <2>1, FS_AddElement
<1> QED
  BY <1>4, <1>5, <1>6, FewerCalls DEF SessionTrue, t

\* Who asks for the status waits for the reading.
LEMMA JoinReadingTrue ==
    ASSUME NEW ends, NEW safe, NEW s, SessionTrue(s, ends, safe),
           NEW call \in s.calls, NEW step \in Text
    PROVE  Stands([Without(s, call) EXCEPT !.reading.waiters = @ \cup {call},
                                           !.reading.step = step], s, ends, safe)
<1> DEFINE w == Without(s, call)
           reading == [s.reading EXCEPT !.waiters = @ \cup {call}, !.step = step]
           t == [w EXCEPT !.reading.waiters = @ \cup {call}, !.reading.step = step]
<1>1. call \in CallT /\ s \in SessionT
  BY DEF SessionTrue, SessionT
<1>2. w \in SessionT /\ w.calls = s.calls \ {call} /\ w.queue = s.queue
      /\ w.reading = s.reading
  BY <1>1 DEF SessionT, Without
<1> HIDE DEF w
<1>3. reading \in [step : Text, status : StatusT, waiters : SUBSET CallT]
      /\ reading.waiters = s.reading.waiters \cup {call}
      /\ reading.status = s.reading.status
  BY <1>1, SessionFields
<1>4. t = [w EXCEPT !.reading = reading]
  BY <1>2 DEF SessionT
<1> HIDE DEF reading
<1>5. t \in SessionT /\ t.calls = s.calls \ {call} /\ t.queue = s.queue
      /\ t.reading = reading
  BY <1>2, <1>3, <1>4 DEF SessionT
<1> HIDE DEF t
<1>6. Applies(t) \subseteq Applies(s)
  BY <1>5 DEF Applies
<1>7. IsFiniteSet(t.calls) /\ IsFiniteSet(t.reading.waiters)
  BY <1>3, <1>5, FS_Subset, FS_AddElement DEF SessionTrue
<1> QED
  BY <1>3, <1>5, <1>6, <1>7, FewerCalls DEF SessionTrue, t, w

\* An action waits its turn.
LEMMA EnqueuedTrue ==
    ASSUME NEW ends, NEW safe, NEW s, SessionTrue(s, ends, safe),
           NEW call \in s.calls, call.kind # "status"
    PROVE  Stands(Enqueued(s, call), s, ends, safe)
<1> DEFINE w == Without(s, call)
           job == [call EXCEPT !.step = "check"]
           t == Enqueued(s, call)
<1>1. call \in CallT /\ s \in SessionT /\ "check" \in Text
  BY Texts DEF SessionTrue, SessionT
<1>2. w \in SessionT /\ w.calls = s.calls \ {call} /\ w.queue = s.queue
      /\ w.reading = s.reading
  BY <1>1 DEF SessionT, Without
<1>3. job \in JobT /\ job.kind = call.kind /\ job.request = call.request
  BY <1>1 DEF CallT, JobT
<1>4. t = [w EXCEPT !.queue = Append(@, job)]
  BY DEF Enqueued
<1> HIDE DEF job, w
<1>5. t \in SessionT /\ t.calls = s.calls \ {call} /\ t.queue = Append(s.queue, job)
      /\ t.reading = s.reading
  <2> DEFINE queue == Append(s.queue, job)
  <2>1. queue \in Seq(JobT)
    BY <1>1, <1>3, SessionFields
  <2>2. t = [w EXCEPT !.queue = queue]
    BY <1>2, <1>4
  <2> HIDE DEF queue, t
  <2>3. t \in SessionT /\ t.calls = w.calls /\ t.queue = queue /\ t.reading = w.reading
    BY <1>2, <2>1, <2>2 DEF SessionT
  <2> QED
    BY <1>2, <2>3 DEF queue
<1>6. Applies(t) = Applies(s) \ {call}
  BY <1>5 DEF Applies
<1> DEFINE last == Len(s.queue) + 1
<1>7. /\ s.queue \in Seq(JobT) /\ Len(s.queue) \in Nat
      /\ DOMAIN t.queue = 1..last /\ DOMAIN s.queue = 1..Len(s.queue)
      /\ t.queue[last] = job
      /\ \A i \in DOMAIN s.queue : t.queue[i] = s.queue[i]
  BY <1>1, <1>3, <1>5, SessionFields
<1> HIDE DEF t, last
<1>8. \A i \in Jobs(t) : \/ i \in Jobs(s) /\ t.queue[i] = s.queue[i]
                         \/ i = last /\ t.queue[i].request = call.request
                            /\ call \in Applies(s)
  BY <1>3, <1>7 DEF Jobs, last, Applies
<1>9. Distinct(t)
  <2>1. \A c, d \in Applies(t) : c.request = d.request => c = d
    BY <1>6 DEF SessionTrue, Distinct
  <2>2. \A i, j \in Jobs(t) : t.queue[i].request = t.queue[j].request => i = j
    BY <1>8 DEF SessionTrue, Distinct
  <2>3. \A c \in Applies(t), i \in Jobs(t) : c.request # t.queue[i].request
    BY <1>6, <1>8 DEF SessionTrue, Distinct
  <2> QED
    BY <2>1, <2>2, <2>3 DEF Distinct
<1>10. Asked(t) \subseteq Asked(s)
  BY <1>6, <1>8 DEF Asked
<1>11. IsFiniteSet(t.calls)
  BY <1>5, FS_Subset DEF SessionTrue
<1> QED
  BY <1>5, <1>9, <1>10, <1>11 DEF Stands, SessionTrue, t

\* The first action is done.
LEMMA JobDoneTrue ==
    ASSUME NEW ends, NEW safe, NEW s, SessionTrue(s, ends, safe), s.queue # <<>>
    PROVE  Stands(JobDone(s), s, ends, safe)
<1> DEFINE t == JobDone(s)
<1>1. s \in SessionT /\ s.queue \in Seq(JobT)
  BY SessionFields DEF SessionTrue
<1>2. t \in SessionT /\ t.calls = s.calls /\ t.queue = Tail(s.queue)
      /\ t.reading = s.reading
  <2> DEFINE queue == Tail(s.queue)
  <2>1. queue \in Seq(JobT)
    BY <1>1
  <2>2. t = [s EXCEPT !.queue = queue]
    BY DEF JobDone
  <2> HIDE DEF queue, t
  <2> QED
    BY <1>1, <2>1, <2>2 DEF SessionT, queue
<1>3. /\ DOMAIN t.queue = 1..(Len(s.queue) - 1) /\ DOMAIN s.queue = 1..Len(s.queue)
      /\ Len(s.queue) \in Nat
      /\ \A i \in DOMAIN t.queue : t.queue[i] = s.queue[i + 1]
  BY <1>1, <1>2
<1> HIDE DEF t
<1>4. \A i \in Jobs(t) : i + 1 \in Jobs(s) /\ t.queue[i] = s.queue[i + 1] /\ i \in Nat
  BY <1>3 DEF Jobs
<1>5. Applies(t) = Applies(s)
  BY <1>2 DEF Applies
<1>6. Distinct(t)
  <2>1. \A i, j \in Jobs(t) : t.queue[i].request = t.queue[j].request => i = j
    <3> SUFFICES ASSUME NEW i \in Jobs(t), NEW j \in Jobs(t),
                        t.queue[i].request = t.queue[j].request
                 PROVE  i = j
      OBVIOUS
    <3>1. i + 1 = j + 1
      BY <1>4 DEF SessionTrue, Distinct
    <3> QED
      BY <1>4, <3>1
  <2>2. \A c \in Applies(t), i \in Jobs(t) : c.request # t.queue[i].request
    BY <1>4, <1>5 DEF SessionTrue, Distinct
  <2> QED
    BY <1>5, <2>1, <2>2 DEF SessionTrue, Distinct
<1>7. Asked(t) \subseteq Asked(s)
  BY <1>4, <1>5 DEF Asked
<1> QED
  BY <1>2, <1>6, <1>7 DEF Stands, SessionTrue, t

\* The first action goes on; once it observes it starts nothing any more.
LEMMA JobMovesTrue ==
    ASSUME NEW ends, NEW safe, NEW s, SessionTrue(s, ends, safe), s.queue # <<>>,
           Head(s.queue).step # "observe", NEW step \in Text
    PROVE  LET t == [s EXCEPT !.queue[1].step = step]
           IN  /\ Stands(t, s, ends, safe)
               /\ step = "observe" /\ Head(s.queue).kind = "apply"
                    => Head(s.queue).request \notin Asked(t)
<1> DEFINE job == [s.queue[1] EXCEPT !.step = step]
           queue == [s.queue EXCEPT ![1] = job]
           t == [s EXCEPT !.queue[1].step = step]
<1>1. s \in SessionT /\ s.queue \in Seq(JobT) /\ 1 \in DOMAIN s.queue
      /\ Head(s.queue) = s.queue[1] /\ s.queue[1] \in JobT
  BY SessionFields DEF SessionTrue
<1>2. job \in JobT /\ job.kind = s.queue[1].kind /\ job.request = s.queue[1].request
      /\ job.step = step
  BY <1>1 DEF JobT, CallT
<1>3. t = [s EXCEPT !.queue = queue]
  OBVIOUS
<1> HIDE DEF job
<1>4. queue \in Seq(JobT) /\ DOMAIN queue = DOMAIN s.queue /\ queue[1] = job
      /\ \A i \in DOMAIN s.queue : i # 1 => queue[i] = s.queue[i]
  BY <1>1, <1>2
<1> HIDE DEF queue
<1>5. t \in SessionT /\ t.calls = s.calls /\ t.queue = queue /\ t.reading = s.reading
  BY <1>1, <1>3, <1>4 DEF SessionT
<1> HIDE DEF t
<1>6. \A i \in Jobs(t) : /\ i \in Jobs(s) /\ t.queue[i].request = s.queue[i].request
                         /\ i = 1 => step # "observe"
  BY <1>1, <1>2, <1>4, <1>5 DEF Jobs
<1>7. Applies(t) = Applies(s)
  BY <1>5 DEF Applies
<1>8. Distinct(t)
  BY <1>6, <1>7 DEF SessionTrue, Distinct
<1>9. Asked(t) \subseteq Asked(s)
  BY <1>6, <1>7 DEF Asked
<1>10. Stands(t, s, ends, safe)
  BY <1>5, <1>8, <1>9 DEF Stands, SessionTrue
<1>11. ASSUME step = "observe", Head(s.queue).kind = "apply"
       PROVE  Head(s.queue).request \notin Asked(t)
  <2>1. 1 \in Jobs(s)
    BY <1>1, <1>11 DEF Jobs
  <2>2. \A i \in Jobs(t) : t.queue[i].request # s.queue[1].request
    BY <1>6, <1>11, <2>1 DEF SessionTrue, Distinct
  <2>3. \A c \in Applies(t) : c.request # s.queue[1].request
    BY <1>7, <2>1 DEF SessionTrue, Distinct
  <2> QED
    BY <1>1, <2>2, <2>3 DEF Asked
<1> QED
  BY <1>10, <1>11 DEF t

\* A call whose page no longer listens is the same call.
SameCall(c, d) == c.kind = d.kind /\ c.request = d.request /\ c.step = d.step

LEMMA FiniteImage ==
    ASSUME NEW S, IsFiniteSet(S), NEW f
    PROVE  IsFiniteSet({f[x] : x \in S})
<1>1. [x \in S |-> f[x]] \in Surjection(S, {f[x] : x \in S})
  BY DEF Surjection
<1> QED
  BY <1>1, FS_Surjection

LEMMA MappedJobs ==
    ASSUME NEW queue \in Seq(JobT), NEW mute,
           \A c \in CallT : mute[c] \in CallT /\ SameCall(mute[c], c)
    PROVE  /\ [i \in DOMAIN queue |-> mute[queue[i]]] \in Seq(JobT)
           /\ \A i \in DOMAIN queue : queue[i] \in CallT
<1>1. Len(queue) \in Nat /\ DOMAIN queue = 1..Len(queue)
      /\ \A i \in DOMAIN queue : queue[i] \in JobT
  OBVIOUS
<1>2. JobT \subseteq CallT
  BY DEF JobT
<1>3. \A i \in DOMAIN queue : mute[queue[i]] \in JobT
  BY <1>1 DEF SameCall, JobT
<1> DEFINE next == [i \in DOMAIN queue |-> mute[queue[i]]]
<1>4. next \in [1..Len(queue) -> JobT]
  BY <1>1, <1>3
<1> HIDE DEF next
<1>5. next \in Seq(JobT)
  BY <1>1, <1>4
<1> QED
  BY <1>1, <1>2, <1>5 DEF next

\* Calls and jobs become what a map makes of them.
LEMMA MutedTrue ==
    ASSUME NEW ends, NEW safe, NEW s, NEW t \in SessionT, SessionTrue(s, ends, safe),
           NEW mute, \A c \in CallT : SameCall(mute[c], c),
           \A c \in t.calls : \E d \in s.calls : c = mute[d],
           DOMAIN t.queue = DOMAIN s.queue,
           \A i \in DOMAIN s.queue : SameCall(t.queue[i], s.queue[i]),
           t.reading.status = s.reading.status,
           IsFiniteSet(t.calls), IsFiniteSet(t.reading.waiters)
    PROVE  Stands(t, s, ends, safe)
<1>1. s.calls \subseteq CallT
  BY SessionFields DEF SessionTrue
<1>2. Jobs(t) = Jobs(s) /\ \A i \in Jobs(s) : t.queue[i].request = s.queue[i].request
  BY DEF Jobs, SameCall
<1>3. \A c \in Applies(t) : \E d \in Applies(s) : c = mute[d] /\ c.request = d.request
  BY <1>1 DEF Applies, SameCall
<1>4. Distinct(s)
  BY DEF SessionTrue
<1>5. Distinct(t)
  <2>1. \A c, d \in Applies(t) : c.request = d.request => c = d
    BY <1>3, <1>4 DEF Distinct
  <2>2. \A i, j \in Jobs(t) : t.queue[i].request = t.queue[j].request => i = j
    BY <1>2, <1>4 DEF Distinct
  <2>3. \A c \in Applies(t), i \in Jobs(t) : c.request # t.queue[i].request
    BY <1>2, <1>3, <1>4 DEF Distinct
  <2> QED
    BY <2>1, <2>2, <2>3 DEF Distinct
<1>6. Asked(t) \subseteq Asked(s)
  <2>1. \A c \in Applies(t) : c.request \in Asked(s)
    BY <1>3 DEF Asked
  <2>2. \A i \in Jobs(t) : t.queue[i].request \in Asked(s)
    BY <1>2 DEF Asked
  <2> QED
    BY <2>1, <2>2 DEF Asked
<1> QED
  BY <1>5, <1>6 DEF Stands, SessionTrue

LEMMA SilentIs ==
    ASSUME NEW c \in CallT, NEW p
    PROVE  Silent(c, p) \in CallT /\ SameCall(Silent(c, p), c)
<1> DEFINE next == [c EXCEPT !.page = @ \ {p}]
<1>1. next \in CallT /\ SameCall(next, c)
  BY DEF CallT, SameCall
<1> QED
  BY <1>1 DEF Silent

LEMMA DeafTrue ==
    ASSUME NEW ends, NEW safe, NEW s, NEW p, SessionTrue(s, ends, safe)
    PROVE  Stands(Deaf(s, p), s, ends, safe)
<1> DEFINE mute == [c \in CallT |-> Silent(c, p)]
           calls == {d \in s.calls : ~(d.step = "sent" /\ p \in d.page)}
           waiters == {c \in s.reading.waiters : p \notin c.page}
           image == {mute[c] : c \in calls}
           queue == [i \in DOMAIN s.queue |-> mute[s.queue[i]]]
           reading == [s.reading EXCEPT !.waiters = waiters]
           t == Deaf(s, p)
<1>1. \A c \in CallT : mute[c] \in CallT /\ SameCall(mute[c], c)
  BY SilentIs
<1>2. s \in SessionT /\ s.calls \subseteq CallT /\ s.queue \in Seq(JobT)
  BY SessionFields DEF SessionTrue
<1>3. \A i \in DOMAIN s.queue : s.queue[i] \in CallT
  <2> HIDE DEF mute
  <2> QED
    BY <1>1, <1>2, MappedJobs
<1>4. {Silent(c, p) : c \in calls} = image
  BY <1>2
<1>5. [i \in DOMAIN s.queue |-> Silent(s.queue[i], p)] = queue
  BY <1>3
<1>6. t = [s EXCEPT !.calls = {Silent(c, p) : c \in calls},
                    !.queue = [i \in DOMAIN s.queue |-> Silent(s.queue[i], p)],
                    !.reading = reading]
  BY <1>2 DEF Deaf, SessionT
<1>7. t = [s EXCEPT !.calls = image, !.queue = queue, !.reading = reading]
  <2> HIDE DEF t, image, queue, reading
  <2> QED
    BY <1>4, <1>5, <1>6
<1>8. reading \in [step : Text, status : StatusT, waiters : SUBSET CallT]
      /\ reading.status = s.reading.status /\ reading.waiters = waiters
  BY <1>2, SessionFields
<1>9. IsFiniteSet(waiters)
  BY FS_Subset DEF SessionTrue
<1> HIDE DEF mute, waiters, reading, t
<1>10. queue \in Seq(JobT)
  BY <1>1, <1>2, MappedJobs
<1>11. image \in SUBSET CallT
  BY <1>1, <1>2
<1>12. IsFiniteSet(image)
  <2>1. IsFiniteSet(calls)
    BY FS_Subset DEF SessionTrue
  <2> HIDE DEF calls
  <2> QED
    BY <2>1, FiniteImage
<1>13. \A c \in image : \E d \in s.calls : c = mute[d]
  OBVIOUS
<1>14. DOMAIN queue = DOMAIN s.queue /\ \A i \in DOMAIN s.queue : SameCall(queue[i], s.queue[i])
  BY <1>1, <1>3
<1> HIDE DEF image, queue
<1>15. t \in SessionT /\ t.calls = image /\ t.queue = queue /\ t.reading = reading
  BY <1>2, <1>7, <1>8, <1>10, <1>11 DEF SessionT
<1> QED
  BY <1>1, <1>8, <1>9, <1>12, <1>13, <1>14, <1>15, MutedTrue DEF t

LEMMA UnheardTrue ==
    ASSUME NEW ends, NEW safe, NEW s, NEW p, NEW kind, NEW request,
           SessionTrue(s, ends, safe)
    PROVE  Stands(Unheard(s, p, kind, request), s, ends, safe)
<1> DEFINE quiet(c) == IF c.kind = kind /\ c.request = request THEN Silent(c, p) ELSE c
           mute == [c \in CallT |-> quiet(c)]
           image == {mute[c] : c \in s.calls}
           waiters == {mute[c] : c \in s.reading.waiters}
           queue == [i \in DOMAIN s.queue |-> mute[s.queue[i]]]
           reading == [s.reading EXCEPT !.waiters = waiters]
           t == Unheard(s, p, kind, request)
<1>1. \A c \in CallT : quiet(c) \in CallT /\ SameCall(quiet(c), c)
  BY SilentIs DEF SameCall
<1>2. \A c \in CallT : mute[c] \in CallT /\ SameCall(mute[c], c) /\ mute[c] = quiet(c)
  <2> HIDE DEF quiet
  <2> QED
    BY <1>1
<1>3. s \in SessionT /\ s.calls \subseteq CallT /\ s.reading.waiters \subseteq CallT
      /\ s.queue \in Seq(JobT)
  BY SessionFields DEF SessionTrue
<1>4. \A i \in DOMAIN s.queue : s.queue[i] \in CallT
  <2> HIDE DEF mute
  <2> QED
    BY <1>2, <1>3, MappedJobs
<1>5. t = [s EXCEPT !.calls = {quiet(c) : c \in s.calls},
                    !.queue = [i \in DOMAIN s.queue |-> quiet(s.queue[i])],
                    !.reading = [s.reading EXCEPT
                                   !.waiters = {quiet(c) : c \in s.reading.waiters}]]
  BY <1>3 DEF Unheard, SessionT
<1> HIDE DEF quiet, mute
<1>6. {quiet(c) : c \in s.calls} = image
      /\ {quiet(c) : c \in s.reading.waiters} = waiters
      /\ [i \in DOMAIN s.queue |-> quiet(s.queue[i])] = queue
  BY <1>2, <1>3, <1>4
<1>7. t = [s EXCEPT !.calls = image, !.queue = queue, !.reading = reading]
  BY <1>5, <1>6
<1>8. waiters \in SUBSET CallT /\ image \in SUBSET CallT
  BY <1>2, <1>3
<1>9. IsFiniteSet(image) /\ IsFiniteSet(waiters)
  BY FiniteImage DEF SessionTrue
<1>10. queue \in Seq(JobT)
  BY <1>2, <1>3, MappedJobs
<1>11. \A c \in image : \E d \in s.calls : c = mute[d]
  OBVIOUS
<1>12. DOMAIN queue = DOMAIN s.queue /\ \A i \in DOMAIN s.queue : SameCall(queue[i], s.queue[i])
  BY <1>2, <1>4
<1> HIDE DEF image, waiters, queue
<1>13. reading \in [step : Text, status : StatusT, waiters : SUBSET CallT]
       /\ reading.status = s.reading.status /\ reading.waiters = waiters
  BY <1>3, <1>8, SessionFields
<1> HIDE DEF reading, t
<1>14. t \in SessionT /\ t.calls = image /\ t.queue = queue /\ t.reading = reading
  BY <1>3, <1>7, <1>8, <1>10, <1>13 DEF SessionT
<1> QED
  BY <1>2, <1>9, <1>11, <1>12, <1>13, <1>14, MutedTrue DEF t

\* A refresh has been served, a reading is taken or done with.
LEMMA ReadTrue ==
    ASSUME NEW ends, NEW safe, NEW s, NEW status, SessionTrue(s, ends, safe),
           StatusTrue(status, ends, safe), NEW step \in Text
    PROVE  /\ Stands([Observed(s, status) EXCEPT !.refresh = FALSE], s, ends, safe)
           /\ Stands([s EXCEPT !.reading.step = step, !.reading.status = status], s, ends, safe)
           /\ Stands([Observed(s, status) EXCEPT !.reading = NoReading], s, ends, safe)
<1> DEFINE o == Observed(s, status)
           fresh == [o EXCEPT !.refresh = FALSE]
           reading == [s.reading EXCEPT !.step = step, !.status = status]
           taken == [s EXCEPT !.reading.step = step, !.reading.status = status]
           done == [o EXCEPT !.reading = NoReading]
<1>1. s \in SessionT /\ status \in StatusT
  BY DEF SessionTrue, StatusTrue
<1>2. o \in SessionT /\ o.calls = s.calls /\ o.queue = s.queue /\ o.reading = s.reading
  BY <1>1, ObservedIs
<1>3. NoReading \in [step : Text, status : StatusT, waiters : SUBSET CallT]
      /\ NoReading.waiters = {} /\ NoReading.status = NoStatus
  BY NoOperationIs, Texts DEF NoReading
<1> HIDE DEF o
<1>4. fresh \in SessionT /\ fresh.calls = s.calls /\ fresh.queue = s.queue
      /\ fresh.reading = s.reading
  BY <1>2 DEF SessionT
<1>5. done \in SessionT /\ done.calls = s.calls /\ done.queue = s.queue
      /\ done.reading = NoReading
  BY <1>2, <1>3 DEF SessionT
<1>6. taken = [s EXCEPT !.reading = reading]
  OBVIOUS
<1>7. reading \in [step : Text, status : StatusT, waiters : SUBSET CallT]
      /\ reading.status = status /\ reading.waiters = s.reading.waiters
  BY <1>1, SessionFields
<1> HIDE DEF reading
<1>8. taken \in SessionT /\ taken.calls = s.calls /\ taken.queue = s.queue
      /\ taken.reading = reading
  BY <1>1, <1>6, <1>7 DEF SessionT
<1> HIDE DEF fresh, taken, done
<1>9. Stands(fresh, s, ends, safe)
  BY <1>4, SameWork DEF SessionTrue
<1>10. Stands(taken, s, ends, safe)
  BY <1>7, <1>8, SameWork DEF SessionTrue
<1>11. Stands(done, s, ends, safe)
  BY <1>3, <1>5, SameWork, NoOperationIs, FS_EmptySet
<1> QED
  BY <1>9, <1>10, <1>11 DEF fresh, taken, done, o

\* A page sends something: a question, or an action with a number of its own.
LEMMA SentTrue ==
    ASSUME NEW ends, NEW safe, NEW s, SessionTrue(s, ends, safe),
           NEW calls \in SUBSET CallT, IsFiniteSet(calls),
           NEW request,
           \A c \in calls : c.kind = "apply" => c.request = request,
           \A c, d \in calls : c.kind = "apply" /\ d.kind = "apply" => c = d,
           (\E c \in calls : c.kind = "apply") => request \notin Asked(s)
    PROVE  LET t == [s EXCEPT !.calls = @ \cup calls]
           IN  /\ SessionTrue(t, ends, safe)
               /\ Asked(t) \subseteq Asked(s) \cup {request}
               /\ (\A c \in calls : c.kind # "apply") => Stands(t, s, ends, safe)
<1> DEFINE t == [s EXCEPT !.calls = @ \cup calls]
<1>1. t \in SessionT /\ t.calls = s.calls \cup calls /\ t.queue = s.queue
      /\ t.reading = s.reading
  BY DEF SessionTrue, SessionT
<1> HIDE DEF t
<1>2. Jobs(t) = Jobs(s)
  BY <1>1 DEF Jobs
<1>3. \A c \in Applies(t) : c \in Applies(s) \/ (c \in calls /\ c.kind = "apply")
  BY <1>1 DEF Applies
<1>4. Distinct(s)
  BY DEF SessionTrue
<1>5. \A c \in Applies(s) : c.request \in Asked(s)
  BY DEF Asked
<1>6. \A i \in Jobs(s) : s.queue[i].request \in Asked(s)
  BY DEF Asked
<1>7. Distinct(t)
  <2>1. \A c, d \in Applies(t) : c.request = d.request => c = d
    BY <1>3, <1>4, <1>5 DEF Distinct
  <2>2. \A i, j \in Jobs(t) : t.queue[i].request = t.queue[j].request => i = j
    BY <1>1, <1>2, <1>4 DEF Distinct
  <2>3. \A c \in Applies(t), i \in Jobs(t) : c.request # t.queue[i].request
    BY <1>1, <1>2, <1>3, <1>4, <1>6 DEF Distinct
  <2> QED
    BY <2>1, <2>2, <2>3 DEF Distinct
<1>8. IsFiniteSet(t.calls)
  BY <1>1, FS_Union DEF SessionTrue
<1>9. SessionTrue(t, ends, safe)
  BY <1>1, <1>7, <1>8 DEF SessionTrue
<1>10. \A i \in Jobs(t) : t.queue[i].request \in Asked(s)
  BY <1>1, <1>2, <1>6
<1>11. Asked(t) \subseteq Asked(s) \cup {request}
  BY <1>3, <1>5, <1>10 DEF Asked
<1>12. (\A c \in calls : c.kind # "apply") => Asked(t) \subseteq Asked(s)
  BY <1>3, <1>5, <1>10 DEF Asked
<1> QED
  BY <1>9, <1>11, <1>12 DEF Stands, t

----------------------------------------------------------------------------
(* Messages                                                                 *)

LEMMA AckIs ==
    ASSUME NEW ends, NEW safe, NEW call \in CallT, NEW status, NEW error \in Text,
           StatusTrue(status, ends, safe)
    PROVE  Ack(call, status, error) \in Messages(ends, safe)
<1>1. call.kind \in Text /\ call.request \in AckIds /\ status \in StatusT
      /\ OpTrue(status.op, ends, safe)
  BY DEF CallT, StatusTrue
<1> QED
  BY <1>1, Texts DEF Ack, Messages

LEMMA PushOfIs ==
    ASSUME NEW ends, NEW safe, NEW status, StatusTrue(status, ends, safe)
    PROVE  PushOf(status) \in Messages(ends, safe)
<1>1. status \in StatusT /\ OpTrue(status.op, ends, safe) /\ None \in AckIds
  BY DEF StatusTrue, AckIds, Ids
<1> QED
  BY <1>1, Texts DEF PushOf, Messages

LEMMA DeliverTrue ==
    ASSUME NEW ends, NEW safe, NEW status, NEW answered \in SUBSET CallT,
           StatusTrue(status, ends, safe), IsFiniteSet(answered),
           mail \in [Pages -> Seq(Messages(ends, safe))],
           Deliver(status, answered)
    PROVE  mail' \in [Pages -> Seq(Messages(ends, safe))]
<1> DEFINE M == Messages(ends, safe)
           heard(p) == {d \in answered : p \in d.page}
           answers(p) == {Ack(c, status, "none") : c \in heard(p)}
<1>1. ASSUME NEW p \in Pages
      PROVE  Pushed(status)[p] \o SetToSeq(answers(p)) \in Seq(M)
  <2>1. Pushed(status)[p] \in Seq(M)
    <3>1. PushOf(status) \in M
      BY PushOfIs
    <3>2. mail[p] \in Seq(M)
      OBVIOUS
    <3>3. Pushed(status)[p] \in {mail[p], Append(mail[p], PushOf(status))}
      BY DEF Pushed
    <3> HIDE DEF M
    <3>4. Append(mail[p], PushOf(status)) \in Seq(M)
      <4> DEFINE push == PushOf(status)
      <4>1. push \in M
        BY <3>1
      <4> HIDE DEF push
      <4>2. Append(mail[p], push) \in Seq(M)
        BY <3>2, <4>1
      <4> QED
        BY <4>2 DEF push
    <3> QED
      BY <3>2, <3>3, <3>4
  <2>2. IsFiniteSet(heard(p)) /\ heard(p) \subseteq CallT
    BY FS_Subset
  <2>3. \A c \in heard(p) : Ack(c, status, "none") \in M
    BY <2>2, AckIs, Texts
  <2>4. IsFiniteSet(answers(p))
    <3> DEFINE f == [c \in heard(p) |-> Ack(c, status, "none")]
    <3>1. answers(p) = {f[c] : c \in heard(p)}
      OBVIOUS
    <3> HIDE DEF f, heard
    <3> QED
      BY <2>2, <3>1, FiniteImage
  <2>5. answers(p) \subseteq M
    BY <2>3
  <2> HIDE DEF answers
  <2>6. SetToSeq(answers(p)) \in Seq(answers(p))
    BY <2>4, SetToSeqIs
  <2>7. SetToSeq(answers(p)) \in Seq(M)
    BY <2>5, <2>6
  <2> HIDE DEF M
  <2> QED
    BY <2>1, <2>7
<1>2. mail' = [p \in Pages |-> Pushed(status)[p] \o SetToSeq(answers(p))]
  BY DEF Deliver
<1> HIDE DEF M, answers
<1> QED
  BY <1>1, <1>2 DEF M

LEMMA FailTrue ==
    ASSUME NEW ends, NEW safe, NEW call \in CallT, NEW error \in Text,
           mail \in [Pages -> Seq(Messages(ends, safe))],
           Fail(call, error)
    PROVE  mail' \in [Pages -> Seq(Messages(ends, safe))]
<1> DEFINE M == Messages(ends, safe)
           ack == Ack(call, NoStatus, error)
<1>1. ack \in M
  BY AckIs, NoOperationIs
<1>2. mail' = [p \in Pages |-> IF p \in call.page THEN Append(mail[p], ack) ELSE mail[p]]
  BY DEF Fail
<1> HIDE DEF M, ack
<1>3. mail \in [Pages -> Seq(M)]
  BY DEF M
<1>4. \A p \in Pages : mail[p] \in Seq(M) /\ Append(mail[p], ack) \in Seq(M)
  BY <1>1, <1>3
<1>5. mail' \in [Pages -> Seq(M)]
  BY <1>2, <1>4
<1> QED
  BY <1>5 DEF M

----------------------------------------------------------------------------
(* The host                                                                 *)

Grows == More(Ends, Untouchable, Ends', Untouchable') /\ Builds \subseteq Builds'
HostStep == HostTrue' /\ Grows
Quieter == Asked(session') \subseteq Asked(session)

ReachGrows ==
    reached' \in [Requests -> SUBSET Text] /\ \A r \in Requests : reached[r] \subseteq reached'[r]

LEMMA Numbers ==
    /\ Requests \subseteq Nat /\ Requests = Ids \ {None} /\ None \in Ids /\ None = 0
    /\ \A r \in Ids : r # None => r \in Requests
BY PanelUpdateAssumption DEF Requests, Ids, None

LEMMA ReachGrowsIs ==
    ASSUME ReachGrows
    PROVE  /\ Undone => Undone'
           /\ Builds \subseteq Builds'
           /\ \A r \in Ids : Ends[r] \subseteq Ends'[r]
<1>1. Undone => Undone'
  BY DEF Undone, ReachGrows
<1>2. Builds \subseteq Builds'
  BY <1>1, Texts DEF Builds
<1>3. \A r \in Ids : Ends[r] \subseteq Ends'[r]
  <2> SUFFICES ASSUME NEW r \in Ids
               PROVE  Ends[r] \subseteq Ends'[r]
    OBVIOUS
  <2>1. Ends[r] = IF r = None THEN {} ELSE reached[r]
    BY DEF Ends
  <2>2. Ends'[r] = IF r = None THEN {} ELSE reached'[r]
    BY DEF Ends
  <2> QED
    BY <2>1, <2>2, Numbers DEF ReachGrows
<1> QED
  BY <1>1, <1>2, <1>3

LEMMA SameReach ==
    ASSUME HostTrue, reached' = reached
    PROVE  ReachGrows
BY DEF HostTrue, Typed, ReachGrows

LEMMA NoHelperIs ==
    /\ NoHelper \in HelperT
    /\ NoHelper.request = None /\ NoHelper.state = "none" /\ NoHelper.phase = "none"
    /\ NoHelper.result = "none" /\ ~NoHelper.noChange
<1>1. None \in Ids /\ "none" \in PhaseNames
  BY Phases DEF Ids
<1> QED
  BY <1>1, Texts DEF NoHelper, HelperT, States

\* The helper of an update says what it said.
UpdateStays ==
    /\ update'.request = update.request /\ update'.state = update.state
    /\ update'.phase = update.phase /\ update'.result = update.result
    /\ update'.noChange = update.noChange
\* The helper of an update that was asked for exists.
UpdateLaunched ==
    /\ update.state = "none"
    /\ update'.request \in Asked(session) \ Asked(session')
    /\ update'.state \in {"created", "running"} /\ update'.phase = "none"
    /\ update'.result = "none" /\ ~update'.noChange
\* The helper of an update is removed.
UpdateRemoved ==
    /\ update'.request = None /\ update'.state = "none"
    /\ update'.result = "none" /\ ~update'.noChange
\* The container of an update starts after all, or never.
UpdateDecided ==
    /\ update.state = "created" /\ update'.state \in {"running", "broken"}
    /\ update'.request = update.request /\ update'.phase = update.phase
    /\ update'.result = update.result /\ update'.noChange = update.noChange

LEMMA HelperMoves ==
    ASSUME HostTrue, Quieter, helper' \in [Kinds -> HelperT],
           UpdateStays \/ UpdateLaunched \/ UpdateRemoved \/ UpdateDecided,
           UNCHANGED <<journal, previous, version, touched, reached, lastRequest>>
    PROVE  HostStep
<1> USE DEF HostTrue
<1>1. Typed'
  BY DEF Typed
<1>2. JournalTrue' /\ Progress'
  BY DEF JournalTrue, Progress, Undone
<1>3. update \in HelperT /\ update'\in HelperT /\ update.request \in Ids
      /\ update'.request \in Ids
  <2>1. update \in HelperT /\ update' \in HelperT
    BY DEF Typed, Kinds, update
  <2> QED
    BY <2>1 DEF HelperT
<1>4. lastRequest \in Nat /\ Asked(session) \subseteq 1..lastRequest
      /\ lastRequest <= MaxRequests
  BY PanelUpdateAssumption DEF Typed, Once
<1>5. Once'
  <2>1. update'.request \in Begun \cup {None} \cup (Asked(session) \ Asked(session'))
    BY DEF UpdateStays, UpdateLaunched, UpdateRemoved, UpdateDecided, Begun
  <2>2. Begun' \subseteq Begun \cup {update'.request}
    BY DEF Begun
  <2>3. None \notin Asked(session)
    BY <1>4 DEF None
  <2>4. None \in 0..lastRequest
    BY <1>4 DEF None
  <2> QED
    BY <1>4, <2>1, <2>2, <2>3, <2>4 DEF Once, Quieter
<1>6. HelperTrue'
  <2>1. CASE UpdateStays
    BY <2>1 DEF HelperTrue, UpdateStays, Unharmed
  <2>2. CASE UpdateLaunched
    <3>1. update'.request \in Requests
      <4>1. update'.request \in 1..lastRequest
        BY <1>4, <2>2 DEF UpdateLaunched
      <4> QED
        BY <1>4, <4>1, PanelUpdateAssumption DEF Requests
    <3>2. update'.request \notin touched /\ previous # update'.request
          /\ journal.request # update'.request
      BY <2>2 DEF UpdateLaunched, Once, Begun
    <3> QED
      BY <2>2, <3>1, <3>2 DEF HelperTrue, UpdateLaunched, Attained, Spared
  <2>3. CASE UpdateRemoved
    BY <2>3 DEF HelperTrue, UpdateRemoved, Attained, Spared
  <2>4. CASE UpdateDecided
    BY <2>4 DEF HelperTrue, UpdateDecided, Unharmed, Attained, Spared
  <2> QED
    BY <2>1, <2>2, <2>3, <2>4
<1>7. Untouchable \subseteq Untouchable'
  <2> SUFFICES ASSUME NEW r \in Untouchable
               PROVE  r \in Untouchable'
    OBVIOUS
  <2>1. r \in Requests /\ r <= lastRequest /\ r \notin Asked(session) /\ Unharmed(r)
        /\ (update.request = r => update.state \in {"exited", "broken"}) /\ r # None
    BY Numbers DEF Untouchable
  <2>2. r \notin Asked(session') /\ Unharmed(r)'
    BY <2>1 DEF Quieter, Unharmed
  <2>3. update'.request = r => update'.state \in {"exited", "broken"}
    BY <2>1 DEF UpdateStays, UpdateLaunched, UpdateRemoved, UpdateDecided
  <2> QED
    BY <2>1, <2>2, <2>3 DEF Untouchable
<1> QED
  BY <1>1, <1>2, <1>5, <1>6, <1>7, SameReach, ReachGrowsIs DEF HostStep, Grows, More

LEMMA LaunchedIs ==
    ASSUME HostTrue, NEW call \in JobT
    PROVE  /\ Launched(call) \in HelperT
           /\ Launched(call).request = call.request /\ Launched(call).state = "running"
           /\ Launched(call).phase = "none" /\ Launched(call).result = "none"
           /\ ~Launched(call).noChange
<1>1. call.request \in Ids /\ version \in Text
  BY Texts DEF JobT, CallT, HostTrue, Typed, Versions
<1>2. NoHelper \in HelperT /\ NoHelper.phase = "none" /\ NoHelper.result = "none"
      /\ ~NoHelper.noChange
  BY NoHelperIs
<1> QED
  BY <1>1, <1>2, Texts DEF Launched, HelperT, States

\* What the first action starts: the helper of its kind, from its request.
LEMMA StartedIs ==
    ASSUME HostTrue, NEW ends, NEW safe, SessionTrue(session, ends, safe),
           session.queue # <<>>, Head1.step # "observe",
           NEW it \in HelperT, it.request = Head1.request,
           it.state \in {"created", "running"}, it.phase = "none", it.result = "none",
           ~it.noChange,
           helper[Head1.kind].state = "none",
           helper' = [helper EXCEPT ![Head1.kind] = it],
           Head1.kind = "apply" => Head1.request \notin Asked(session')
    PROVE  helper' \in [Kinds -> HelperT] /\ (UpdateStays \/ UpdateLaunched)
<1>1. helper \in [Kinds -> HelperT]
  BY DEF HostTrue, Typed
<1>2. helper' \in [Kinds -> HelperT]
  BY <1>1
<1>3. CASE Head1.kind = "apply"
  <2>1. update' = it /\ update.state = "none"
    BY <1>1, <1>3 DEF update, Kinds
  <2>2. Head1.request \in Asked(session)
    <3>1. session.queue \in Seq(JobT) /\ 1 \in DOMAIN session.queue
          /\ Head1 = session.queue[1]
      BY SessionFields DEF SessionTrue, Head1
    <3> QED
      BY <1>3, <3>1 DEF Asked, Jobs
  <2> QED
    BY <1>2, <1>3, <2>1, <2>2 DEF UpdateLaunched
<1>4. CASE Head1.kind # "apply"
  <2>1. update' = update
    BY <1>1, <1>4 DEF update, Kinds
  <2> QED
    BY <1>2, <2>1 DEF UpdateStays
<1> QED
  BY <1>3, <1>4

LEMMA Survives ==
    ASSUME HostTrue, NEW ends, NEW safe, SessionTrue(session, ends, safe),
           LaunchSurvives(helper), Asked(session') = {}
    PROVE  helper' \in [Kinds -> HelperT] /\ (UpdateStays \/ UpdateLaunched)
<1>1. CASE helper' = helper
  BY <1>1 DEF HostTrue, Typed, UpdateStays, update
<1>2. CASE Launching /\ helper[Head1.kind].state = "none"
           /\ helper' = [helper EXCEPT ![Head1.kind] = Launched(Head1)]
  <2>1. session.queue # <<>> /\ Head1.step = "run"
    BY <1>2 DEF Launching
  <2>2. Head1 \in JobT
    BY <2>1, SessionFields DEF SessionTrue, Head1
  <2> DEFINE it == Launched(Head1)
  <2>3. /\ it \in HelperT /\ it.request = Head1.request
        /\ it.state \in {"created", "running"} /\ it.phase = "none" /\ it.result = "none"
        /\ ~it.noChange
    BY <2>2, LaunchedIs
  <2> HIDE DEF it
  <2>4. helper' = [helper EXCEPT ![Head1.kind] = it]
    BY <1>2 DEF it
  <2> QED
    BY <1>2, <2>1, <2>3, <2>4, StartedIs
<1> QED
  BY <1>1, <1>2 DEF LaunchSurvives

\* The journal of a running update goes one phase on.
LEMMA JournalMoves ==
    ASSUME HostTrue, NEW phase \in PhaseNames, MayWrite(phase), Journals(phase),
           UNCHANGED <<version, touched, lastRequest>>
    PROVE  /\ update.state = "running" /\ update.request \in Requests
           /\ journal' = [request |-> update.request, phase |-> phase]
           /\ previous' \in {previous, update.request}
           /\ ReachGrows /\ JournalTrue' /\ Progress'
           /\ phase # "none" /\ ~update.noChange
           /\ phase = "success" /\ update.phase = "prepared" =>
                update.request \notin touched /\ previous' = previous
                  /\ previous # update.request
<1> USE DEF HostTrue
<1> DEFINE r == update.request
<1>1. /\ update.state = "running" /\ r \in Requests
      /\ journal' = [request |-> r, phase |-> phase]
      /\ previous' = IF phase = "success" /\ update.phase = "stopping" THEN r ELSE previous
      /\ reached' = [reached EXCEPT ![r] = IF phase \in FinalPhases THEN @ \cup {phase} ELSE @]
  BY DEF MayWrite, InPhase, Walks, Journals, HelperTrue
<1>2. /\ phase \in {"prepared", "downloaded", "stopping", "success",
                    "failed-before-cutover", "recovered", "recovery-required"}
      /\ update.phase \in {"none", "prepared", "downloaded", "stopping"}
      /\ update.phase = "none" => phase = "prepared"
      /\ update.phase = "prepared" =>
           phase \in {"downloaded", "success", "failed-before-cutover"}
      /\ update.phase = "downloaded" => phase \in {"stopping", "failed-before-cutover"}
      /\ update.phase = "stopping" =>
           phase \in {"success", "recovered", "recovery-required"}
      /\ update.phase # "none" => journal.request = r /\ journal.phase = update.phase
      /\ phase = "downloaded" => version = "old"
      /\ phase = "success" => version = "new"
  BY DEF MayWrite, InPhase, Runs
<1>3. ~update.noChange
  BY <1>2 DEF HelperTrue
<1>4. reached \in [Requests -> SUBSET Text] /\ phase \in Text
  BY <1>2, Texts DEF Typed
<1>5. ReachGrows
  BY <1>1, <1>4 DEF ReachGrows
<1>6. r # None
  BY <1>1, Numbers
<1>7. update.phase \in {"none", "prepared", "downloaded"} => r \notin touched /\ previous # r
  BY <1>1, <1>2 DEF HelperTrue, JournalTrue
<1>8. phase \in Attained => phase \in reached'[r]
  BY <1>1, <1>4 DEF Attained, FinalPhases
<1>9. JournalTrue'
  <2>1. (journal.phase \in Attained =>
           journal.request \in Requests /\ journal.phase \in reached[journal.request])'
    BY <1>1, <1>8
  <2>2. (journal.phase \in {"prepared", "downloaded", "failed-before-cutover"} =>
           journal.request \notin touched /\ previous # journal.request)'
    BY <1>1, <1>2, <1>7
  <2>3. (journal.request = None => journal.phase = "none")'
    BY <1>1, <1>6
  <2>4. (previous # None => "success" \in reached[previous])'
    <3>1. CASE phase = "success" /\ update.phase = "stopping"
      BY <1>1, <1>8, <3>1 DEF Attained
    <3>2. CASE ~(phase = "success" /\ update.phase = "stopping")
      <4>1. previous' = previous
        BY <1>1, <3>2
      <4> QED
        BY <1>5, <4>1, Numbers DEF JournalTrue, Typed, ReachGrows
    <3> QED
      BY <3>1, <3>2
  <2> QED
    BY <2>1, <2>2, <2>3, <2>4 DEF JournalTrue
<1>10. Progress'
  <2> SUFFICES ASSUME (\E q \in Requests : "success" \in reached'[q]), ~Undone'
               PROVE  version' = "new" /\ journal'.phase \notin Cutover \cup {"downloaded"}
    BY DEF Progress
  <2>1. ~Undone
    BY <1>5, ReachGrowsIs
  <2>2. CASE phase = "success"
    BY <1>1, <1>2, <2>2 DEF Cutover
  <2>3. CASE phase # "success"
    <3>1. \E q \in Requests : "success" \in reached[q]
      BY <1>1, <1>4, <2>3
    <3>2. version = "new" /\ journal.phase \notin Cutover \cup {"downloaded"}
      BY <2>1, <3>1 DEF Progress
    <3>3. update.phase \in {"none", "prepared"} /\ phase # "downloaded"
      BY <1>2, <3>2 DEF Cutover
    <3>4. phase \notin Cutover
      BY <1>2, <3>3 DEF Cutover
    <3> QED
      BY <1>1, <3>2, <3>3, <3>4
  <2> QED
    BY <2>2, <2>3
<1>11. ASSUME phase = "success", update.phase = "prepared"
       PROVE  r \notin touched /\ previous' = previous /\ previous # r
  BY <1>1, <1>7, <1>11
<1> QED
  BY <1>1, <1>2, <1>3, <1>5, <1>9, <1>10, <1>11

\* A step of an update that runs: nobody else is concerned.
LEMMA RunMoves ==
    ASSUME HostTrue, Quieter, helper' \in [Kinds -> HelperT],
           journal' \in [request : Ids, phase : PhaseNames],
           update.state = "running",
           update'.request = update.request,
           touched' \in {touched, touched \cup {update.request}},
           previous' \in {previous, update.request},
           journal' = journal \/ journal'.request = update.request,
           version' \in Versions, ReachGrows, lastRequest' = lastRequest,
           HelperTrue', JournalTrue', Progress'
    PROVE  HostStep
<1> USE DEF HostTrue
<1>1. update.request \in Requests
  BY DEF HelperTrue
<1>2. update.request \in Ids
  BY <1>1 DEF Ids
<1>3. Typed'
  BY <1>1, <1>2 DEF Typed, ReachGrows
<1>4. Begun' \subseteq Begun
  BY DEF Begun
<1>5. Once'
  BY <1>4 DEF Once, Quieter
<1>6. Untouchable \subseteq Untouchable'
  <2> SUFFICES ASSUME NEW r \in Untouchable
               PROVE  r \in Untouchable'
    OBVIOUS
  <2>1. r \in Requests /\ r <= lastRequest /\ r \notin Asked(session) /\ Unharmed(r)
        /\ update.request # r
    BY DEF Untouchable
  <2>2. Unharmed(r)'
    BY <2>1 DEF Unharmed
  <2> QED
    BY <2>1, <2>2 DEF Untouchable, Quieter
<1> QED
  BY <1>3, <1>5, <1>6, ReachGrowsIs DEF HostStep, Grows, More

LEMMA WritesHost ==
    ASSUME HostTrue, Quieter, NEW phase \in PhaseNames, Writes(phase)
    PROVE  HostStep
<1> USE DEF HostTrue
<1> DEFINE r == update.request
           flag == phase = "success" /\ update.phase = "prepared"
           it == [update EXCEPT !.phase = phase, !.noChange = flag]
<1>1. MayWrite(phase) /\ Journals(phase) /\ UNCHANGED <<version, touched, lastRequest>>
  BY DEF Writes
<1>2. /\ update.state = "running" /\ r \in Requests
      /\ journal' = [request |-> r, phase |-> phase]
      /\ previous' \in {previous, r}
      /\ ReachGrows /\ JournalTrue' /\ Progress'
      /\ phase # "none"
      /\ flag => r \notin touched /\ previous' = previous /\ previous # r
  BY <1>1, JournalMoves
<1>3. helper \in [Kinds -> HelperT] /\ update \in HelperT
  BY DEF Typed, update, Kinds
<1>4. helper' = [helper EXCEPT !["apply"] = it]
  BY <1>3 DEF Writes, update, HelperT, Kinds
<1>5. flag \in BOOLEAN
  OBVIOUS
<1>6. it \in HelperT /\ it.request = r /\ it.state = update.state /\ it.phase = phase
      /\ it.result = update.result /\ (it.noChange <=> flag)
  <2> HIDE DEF flag
  <2> QED
    BY <1>3, <1>5 DEF HelperT
<1> HIDE DEF it
<1>7. update' = it /\ helper' \in [Kinds -> HelperT]
  BY <1>3, <1>4, <1>6 DEF update, Kinds
<1>8. r \in Ids
  BY <1>2 DEF Ids
<1>9. journal' \in [request : Ids, phase : PhaseNames]
  BY <1>2, <1>8
<1>10. HelperTrue'
  <2>1. update.result = "none"
    BY <1>2 DEF HelperTrue
  <2>2. flag => Unharmed(r)'
    <3> SUFFICES ASSUME flag
                 PROVE  update'.request \notin touched' /\ previous' # update'.request
                          /\ journal'.phase \notin Cutover
      BY DEF Unharmed
    <3> QED
      BY <1>1, <1>2, <1>6, <1>7 DEF Cutover
  <2> QED
    BY <1>2, <1>6, <1>7, <2>1, <2>2 DEF HelperTrue, Attained, Spared
<1> QED
  BY <1>1, <1>2, <1>3, <1>6, <1>7, <1>9, <1>10, RunMoves DEF Typed

LEMMA ExitsIs ==
    ASSUME HostTrue, NEW kind \in Kinds, NEW result \in Text, NEW code \in Text,
           Exits(kind, result, code)
    PROVE  /\ helper' \in [Kinds -> HelperT]
           /\ kind = "apply" =>
                /\ update'.request = update.request /\ update'.state = "exited"
                /\ update'.phase = update.phase /\ update'.result = result
                /\ update'.noChange = update.noChange
           /\ kind = "preview" => UpdateStays
           /\ UNCHANGED <<version, touched, lastRequest, conn, mail, pages>>
<1> DEFINE it == [helper[kind] EXCEPT !.state = "exited", !.exit = code, !.result = result]
<1>1. helper \in [Kinds -> HelperT] /\ helper[kind] \in HelperT
  BY DEF HostTrue, Typed
<1>2. helper' = [helper EXCEPT ![kind] = it]
  BY <1>1 DEF Exits, HelperT
<1>3. it \in HelperT /\ it.request = helper[kind].request /\ it.state = "exited"
      /\ it.phase = helper[kind].phase /\ it.result = result
      /\ it.noChange = helper[kind].noChange
  BY <1>1, Texts DEF HelperT, States
<1> HIDE DEF it
<1>4. helper' \in [Kinds -> HelperT]
  BY <1>1, <1>2, <1>3
<1>5. kind = "apply" => update' = it /\ update = helper[kind]
  BY <1>1, <1>2 DEF update, Kinds
<1>6. kind = "preview" => update' = update
  BY <1>1, <1>2 DEF update, Kinds
<1> QED
  BY <1>3, <1>4, <1>5, <1>6 DEF Exits, PanelStays, UpdateStays

LEMMA ApplyExits ==
    ASSUME HostTrue, Quieter, NEW result \in Text, NEW code \in Text,
           Exits("apply", result, code), update.state = "running",
           UNCHANGED <<journal, previous>>, ReachGrows,
           \A q \in Requests : reached'[q] \subseteq reached[q] \cup {"recovery-required"},
           result \in Attained => result \in reached'[update.request],
           result \in Spared => Unharmed(update.request)
    PROVE  HostStep
<1> USE DEF HostTrue
<1>1. /\ helper' \in [Kinds -> HelperT]
      /\ update'.request = update.request /\ update'.state = "exited"
      /\ update'.phase = update.phase /\ update'.result = result
      /\ update'.noChange = update.noChange
      /\ UNCHANGED <<version, touched, lastRequest>>
  BY ExitsIs DEF Kinds
<1>2. JournalTrue'
  BY <1>1, Numbers DEF JournalTrue, Typed, ReachGrows
<1>3. Progress'
  <2>1. ~Undone' => ~Undone
    BY ReachGrowsIs
  <2>2. \A q \in Requests : "success" \in reached'[q] => "success" \in reached[q]
    OBVIOUS
  <2> QED
    BY <1>1, <2>1, <2>2 DEF Progress
<1>4. HelperTrue'
  BY <1>1 DEF HelperTrue, Unharmed
<1> QED
  BY <1>1, <1>2, <1>3, <1>4, RunMoves DEF Typed

\* The result of a run agrees with what the run did.
LEMMA ResultOfIs ==
    ASSUME HostTrue, update.state = "running"
    PROVE  /\ ResultOf(update) \in Text
           /\ ResultOf(update) \in Attained \ {"recovery-required"} =>
                ResultOf(update) \in reached[update.request]
           /\ ResultOf(update) \in Spared => Unharmed(update.request)
           /\ update.phase \in FinalPhases /\ ResultOf(update) = "recovery-required" =>
                ResultOf(update) \in reached[update.request]
<1> USE DEF HostTrue
<1>1. CASE update.phase = "none"
  <2>1. ResultOf(update) = "refused"
    <3>1. ~update.noChange
      BY <1>1 DEF HelperTrue
    <3> QED
      BY <1>1, <3>1 DEF ResultOf, FinalPhases
  <2>2. Unharmed(update.request)
    BY <1>1 DEF HelperTrue, Unharmed
  <2> QED
    BY <2>1, <2>2, Texts DEF Attained
<1>2. CASE update.noChange
  <2>1. ResultOf(update) = "no-change" /\ Unharmed(update.request)
    BY <1>2 DEF ResultOf, HelperTrue
  <2> QED
    BY <2>1, Texts DEF Attained
<1>3. CASE update.phase \in FinalPhases /\ ~update.noChange
  <2>1. ResultOf(update) = update.phase /\ update.phase # "none"
    BY <1>3 DEF ResultOf, FinalPhases
  <2>2. journal = [request |-> update.request, phase |-> update.phase]
    BY <2>1 DEF HelperTrue
  <2>3. update.phase \in Text
    BY <1>3, Texts DEF FinalPhases
  <2>4. update.phase \in Attained => update.phase \in reached[update.request]
    BY <2>2 DEF JournalTrue
  <2>5. update.phase \in Spared => Unharmed(update.request)
    BY <1>3, <2>2 DEF JournalTrue, Spared, FinalPhases, Unharmed, Cutover
  <2> QED
    BY <2>1, <2>3, <2>4, <2>5 DEF Attained
<1>4. CASE update.phase \notin FinalPhases \cup {"none"} /\ ~update.noChange
  <2>1. ResultOf(update) = "recovery-required"
    BY <1>4 DEF ResultOf
  <2> QED
    BY <1>4, <2>1, Texts DEF Spared
<1> QED
  BY <1>1, <1>2, <1>3, <1>4

LEMMA UpdateEndsHost ==
    ASSUME HostTrue, Quieter, UpdateEnds
    PROVE  HostStep
<1> USE DEF HostTrue
<1> DEFINE result == ResultOf(update)
           code == IF result \in Successful THEN "zero" ELSE "one"
           r == update.request
<1>1. update.state = "running" /\ r \in Requests
  BY DEF UpdateEnds, Walks, HelperTrue
<1>2. /\ Exits("apply", result, code) /\ UNCHANGED <<journal, previous>>
      /\ reached' = [reached EXCEPT ![r] =
                       IF result = "recovery-required" THEN @ \cup {result} ELSE @]
  BY DEF UpdateEnds, Finishes, update
<1>3. /\ result \in Text
      /\ result \in Attained \ {"recovery-required"} => result \in reached[r]
      /\ result \in Spared => Unharmed(r)
  BY <1>1, ResultOfIs
<1>4. code \in Text
  BY Texts
<1> HIDE DEF result, code
<1>5. reached \in [Requests -> SUBSET Text]
  BY DEF Typed
<1>6. ReachGrows /\ \A q \in Requests : reached'[q] \subseteq reached[q] \cup {"recovery-required"}
  BY <1>1, <1>2, <1>3, <1>5 DEF ReachGrows
<1>7. result \in Attained => result \in reached'[r]
  BY <1>1, <1>2, <1>3, <1>5
<1> QED
  BY <1>1, <1>2, <1>3, <1>4, <1>6, <1>7, ApplyExits

LEMMA PreviewEndsHost ==
    ASSUME HostTrue, Quieter, PreviewEnds
    PROVE  HostStep
<1>1. PICK result \in {"previewed", "refused"} : Finishes("preview", result)
  BY DEF PreviewEnds
<1> DEFINE code == IF result \in Successful THEN "zero" ELSE "one"
<1>2. Exits("preview", result, code) /\ UNCHANGED <<journal, previous>>
  BY <1>1 DEF Finishes
<1>3. reached' = reached
  BY <1>1 DEF Finishes, HostTrue, Typed
<1>4. result \in Text /\ code \in Text /\ "preview" \in Kinds
  BY Texts DEF Kinds
<1> HIDE DEF code
<1>5. helper' \in [Kinds -> HelperT] /\ UpdateStays /\ UNCHANGED <<version, touched, lastRequest>>
  BY <1>2, <1>4, ExitsIs
<1> QED
  BY <1>2, <1>3, <1>5, HelperMoves

LEMMA HelperDiesHost ==
    ASSUME HostTrue, Quieter, NEW kind \in Kinds, HelperDies(kind)
    PROVE  HostStep
<1> USE DEF HostTrue
<1>1. helper[kind].state = "running" /\ "none" \in Text /\ "killed" \in Text
  BY Texts DEF HelperDies
<1>2. CASE Exits(kind, "none", "killed") /\ UNCHANGED <<journal, previous, reached>>
  <2>1. CASE kind = "apply"
    <3>1. update.state = "running"
      BY <1>1, <2>1 DEF update
    <3>2. ReachGrows /\ \A q \in Requests : reached'[q] \subseteq reached[q] \cup {"recovery-required"}
      BY <1>2, SameReach
    <3> QED
      BY <1>1, <1>2, <2>1, <3>1, <3>2, ApplyExits DEF Attained, Spared
  <2>2. CASE kind = "preview"
    <3>1. helper' \in [Kinds -> HelperT] /\ UpdateStays /\ UNCHANGED <<version, touched, lastRequest>>
      BY <1>1, <1>2, <2>2, ExitsIs
    <3> QED
      BY <1>2, <3>1, HelperMoves
  <2> QED
    BY <2>1, <2>2 DEF Kinds
<1>3. CASE /\ kind = "apply" /\ update.phase \in FinalPhases
           /\ Exits(kind, ResultOf(update), "killed")
           /\ UNCHANGED <<journal, previous, reached>>
  <2> DEFINE result == ResultOf(update)
  <2>1. update.state = "running"
    BY <1>1, <1>3 DEF update
  <2>2. ReachGrows /\ \A q \in Requests : reached'[q] \subseteq reached[q] \cup {"recovery-required"}
    BY <1>3, SameReach
  <2>3. /\ result \in Text
        /\ result \in Attained => result \in reached'[update.request]
        /\ result \in Spared => Unharmed(update.request)
    BY <1>3, <2>1, ResultOfIs
  <2>4. Exits("apply", result, "killed")
    BY <1>3
  <2> HIDE DEF result
  <2> QED
    BY <1>1, <1>3, <2>1, <2>2, <2>3, <2>4, ApplyExits
<1>4. CASE /\ kind = "apply" /\ Exits(kind, "none", "killed")
           /\ \E phase \in PhaseNames : MayWrite(phase) /\ Journals(phase)
  <2>1. PICK phase \in PhaseNames : MayWrite(phase) /\ Journals(phase)
    BY <1>4
  <2>2. /\ helper' \in [Kinds -> HelperT]
        /\ update'.request = update.request /\ update'.state = "exited"
        /\ update'.phase = update.phase /\ update'.result = "none"
        /\ update'.noChange = update.noChange
        /\ UNCHANGED <<version, touched, lastRequest>>
    BY <1>1, <1>4, ExitsIs
  <2>3. /\ update.state = "running" /\ update.request \in Requests
        /\ journal' = [request |-> update.request, phase |-> phase]
        /\ previous' \in {previous, update.request}
        /\ ReachGrows /\ JournalTrue' /\ Progress' /\ ~update.noChange
    BY <2>1, <2>2, JournalMoves
  <2>4. journal' \in [request : Ids, phase : PhaseNames]
    BY <2>3 DEF Ids
  <2>5. HelperTrue'
    BY <2>2, <2>3 DEF HelperTrue, Attained, Spared
  <2> QED
    BY <2>2, <2>3, <2>4, <2>5, RunMoves DEF Typed
<1> QED
  BY <1>2, <1>3, <1>4 DEF HelperDies

LEMMA HelperStartsHost ==
    ASSUME HostTrue, Quieter, NEW kind \in Kinds, HelperStarts(kind)
    PROVE  HostStep
<1> USE DEF HostTrue
<1>1. helper \in [Kinds -> HelperT] /\ helper[kind] \in HelperT
  BY DEF Typed
<1>2. PICK state \in {"running", "broken"} : helper' = [helper EXCEPT ![kind].state = state]
  BY DEF HelperStarts
<1> DEFINE it == [helper[kind] EXCEPT !.state = state]
<1>3. it \in HelperT /\ it.request = helper[kind].request /\ it.state = state
      /\ it.phase = helper[kind].phase /\ it.result = helper[kind].result
      /\ it.noChange = helper[kind].noChange
  BY <1>1, Texts DEF HelperT, States
<1>4. helper' = [helper EXCEPT ![kind] = it]
  BY <1>2
<1> HIDE DEF it
<1>5. helper' \in [Kinds -> HelperT]
  BY <1>1, <1>3, <1>4
<1>6. UpdateStays \/ UpdateDecided
  <2>1. CASE kind = "apply"
    <3>1. update = helper[kind] /\ update' = it
      BY <1>1, <1>4, <2>1 DEF update, Kinds
    <3>2. update.state = "created"
      BY <3>1 DEF HelperStarts
    <3> QED
      BY <1>3, <3>1, <3>2 DEF UpdateDecided
  <2>2. CASE kind # "apply"
    BY <1>1, <1>4, <2>2 DEF update, Kinds, UpdateStays
  <2> QED
    BY <2>1, <2>2
<1>7. UNCHANGED <<journal, previous, version, touched, reached, lastRequest>>
  BY DEF HelperStarts
<1> QED
  BY <1>5, <1>6, <1>7, HelperMoves

LEMMA StartPanelHost ==
    ASSUME HostTrue, Quieter, NEW v \in Versions, StartPanel(v)
    PROVE  HostStep
<1> USE DEF HostTrue
<1>1. /\ update.state = "running" /\ journal.phase = "stopping" /\ version' = v
      /\ UNCHANGED <<helper, journal, previous, touched, reached, lastRequest>>
  BY DEF StartPanel, InPhase, Walks
<1>2. ReachGrows
  BY <1>1, SameReach
<1>3. HelperTrue' /\ JournalTrue'
  BY <1>1 DEF HelperTrue, JournalTrue, Unharmed, update
<1>4. Progress'
  BY <1>1 DEF Progress, Undone, Cutover
<1> QED
  BY <1>1, <1>2, <1>3, <1>4, RunMoves DEF Typed, update

LEMMA StopPanelHost ==
    ASSUME HostTrue, NEW ends, NEW safe, SessionTrue(session, ends, safe),
           Asked(session') = {}, StopPanel
    PROVE  HostStep
<1> USE DEF HostTrue
<1>1. /\ update.state = "running" /\ update.phase = "stopping"
      /\ journal.phase = "stopping" /\ journal.request = update.request
      /\ touched' = touched \cup {update.request}
      /\ UNCHANGED <<journal, previous, version, reached, lastRequest>>
  BY DEF StopPanel, InPhase, Walks
<1>2. helper' \in [Kinds -> HelperT] /\ UpdateStays
  <2>1. helper' \in [Kinds -> HelperT] /\ (UpdateStays \/ UpdateLaunched)
    BY Survives DEF StopPanel
  <2> QED
    BY <1>1, <2>1 DEF UpdateLaunched
<1>3. ReachGrows
  BY <1>1, SameReach
<1>4. HelperTrue'
  BY <1>1, <1>2 DEF HelperTrue, UpdateStays, Attained, Spared
<1>5. JournalTrue'
  BY <1>1 DEF JournalTrue
<1>6. Progress'
  BY <1>1 DEF Progress, Undone
<1>7. Quieter
  BY DEF Quieter
<1> QED
  BY <1>1, <1>2, <1>3, <1>4, <1>5, <1>6, <1>7, RunMoves DEF Typed, UpdateStays

LEMMA HostCommandHost ==
    ASSUME HostTrue, NEW ends, NEW safe, SessionTrue(session, ends, safe),
           Quieter, HostCommand
    PROVE  HostStep
<1> USE DEF HostTrue
<1>1. PICK phase \in Settling, request \in {journal.request, previous} \ {None} :
        /\ CASE phase = "failed-before-cutover" ->
                  request = journal.request /\ journal.phase \in {"prepared", "downloaded"}
             [] phase # "failed-before-cutover"
                  /\ journal.phase \in {"stopping", "recovery-required"} ->
                  request = journal.request
             [] OTHER -> phase = "recovered" /\ journal.phase \in Settling
                           /\ request = previous
        /\ journal' = [request |-> request, phase |-> phase]
        /\ reached' = [reached EXCEPT ![request] = @ \cup {phase}]
        /\ previous' = IF phase = "success" THEN request ELSE previous
        /\ IF phase = "failed-before-cutover"
           THEN UNCHANGED <<helper, up, version, touched, session, conn, mail, due, pages>>
           ELSE /\ up' = TRUE
                /\ version' = IF phase = "success" THEN "new" ELSE "old"
                /\ touched' = touched \cup {request}
                /\ LaunchSurvives(helper)
                /\ PanelEnds
  BY DEF HostCommand
<1>2. /\ ~Walks /\ lastRequest' = lastRequest
      /\ request \in Requests /\ phase \in {"success", "recovered", "failed-before-cutover"}
  BY Numbers DEF HostCommand, Typed, Settling
\* What the operator did: end what is open, or undo what succeeded.
<1>3. \/ /\ phase = "failed-before-cutover" /\ request = journal.request
         /\ journal.phase \in {"prepared", "downloaded"}
         /\ touched' = touched /\ version' = version /\ helper' = helper
         /\ previous' = previous
      \/ /\ phase \in {"success", "recovered"} /\ request = journal.request
         /\ journal.phase \in Cutover
         /\ touched' = touched \cup {request}
         /\ version' = IF phase = "success" THEN "new" ELSE "old"
         /\ LaunchSurvives(helper) /\ session' = NewSession
         /\ previous' = IF phase = "success" THEN request ELSE previous
      \/ /\ phase = "recovered" /\ request = previous
         /\ touched' = touched \cup {request} /\ version' = "old"
         /\ LaunchSurvives(helper) /\ session' = NewSession
         /\ previous' = previous
  BY <1>1, <1>2 DEF PanelEnds, Cutover
<1>4. helper' \in [Kinds -> HelperT] /\ (UpdateStays \/ UpdateLaunched)
  <2>1. CASE helper' = helper
    BY <2>1 DEF Typed, UpdateStays, update
  <2>2. CASE LaunchSurvives(helper) /\ session' = NewSession
    BY <2>2, Survives, NewSessionTrue
  <2> QED
    BY <1>3, <2>1, <2>2
<1>5. /\ reached \in [Requests -> SUBSET Text] /\ phase \in Text
      /\ journal \in [request : Ids, phase : PhaseNames] /\ phase \in PhaseNames
      /\ version' \in Versions /\ request \in Ids
  BY <1>2, <1>3, Texts, Phases DEF Typed, Versions, Ids
<1>6. ReachGrows /\ phase \in reached'[request]
  BY <1>1, <1>2, <1>5 DEF ReachGrows
<1>7. Typed'
  BY <1>1, <1>2, <1>3, <1>4, <1>5, <1>6 DEF Typed, ReachGrows
<1>8. /\ update \in HelperT /\ update' \in HelperT
      /\ update.request \in Ids /\ update'.request \in Ids
  <2>1. update \in HelperT /\ update' \in HelperT
    BY <1>7 DEF Typed, Kinds, update
  <2> QED
    BY <2>1 DEF HelperT
<1>9. lastRequest \in Nat /\ Asked(session) \subseteq 1..lastRequest
      /\ lastRequest <= MaxRequests
  BY PanelUpdateAssumption DEF Typed, Once
<1>10. Once'
  <2>1. update'.request \in Begun \cup (Asked(session) \ Asked(session'))
    BY <1>4 DEF UpdateStays, UpdateLaunched, Begun
  <2>2. request \in Begun
    BY <1>3 DEF Begun
  <2>3. touched' \subseteq touched \cup {request} /\ previous' \in {previous, request}
        /\ journal'.request = request
    BY <1>1, <1>3
  <2>4. Begun' \subseteq Begun \cup {update'.request}
    BY <2>2, <2>3 DEF Begun
  <2> QED
    BY <1>2, <1>9, <2>1, <2>4 DEF Once, Quieter
\* An update that was spared is not the one the operator deals with.
<1>11. \A r : Unharmed(r) => /\ r \notin touched' /\ previous' # r
                             /\ (journal'.request = r => journal'.phase \notin Cutover)
  <2> SUFFICES ASSUME NEW r, Unharmed(r)
               PROVE  /\ r \notin touched' /\ previous' # r
                      /\ (journal'.request = r => journal'.phase \notin Cutover)
    OBVIOUS
  <2>1. journal'.phase = phase /\ phase \notin Cutover
    BY <1>1, <1>2 DEF Cutover
  <2> QED
    BY <1>3, <2>1 DEF Unharmed
<1>12. HelperTrue'
  <2>1. CASE UpdateStays
    <3>1. update.state \in {"created", "broken"} => request # update.request
      BY <1>1 DEF HelperTrue
    <3>2. update.state # "running"
      BY <1>2 DEF Walks
    <3>3. update.state \in {"created", "broken"} =>
            update.request \notin touched' /\ previous' # update.request
              /\ journal'.request # update.request
      BY <1>1, <1>3, <3>1 DEF HelperTrue
    <3>4. update.result \in Attained => update.result \in reached'[update.request]
      <4>1. update.result \in Attained => update.request \in Requests
        BY DEF HelperTrue, Attained
      <4> QED
        BY <1>6, <4>1 DEF HelperTrue, ReachGrows
    <3>5. Unharmed(update.request) => Unharmed(update.request)'
      BY <1>11, <2>1 DEF Unharmed, UpdateStays
    <3> QED
      BY <2>1, <3>2, <3>3, <3>4, <3>5 DEF HelperTrue, UpdateStays
  <2>2. CASE UpdateLaunched
    <3>1. update'.request \in 1..lastRequest
      BY <1>9, <2>2 DEF UpdateLaunched
    <3>2. update'.request \in Requests
      BY <1>9, <3>1, PanelUpdateAssumption DEF Requests
    <3>3. update'.request \notin Begun
      BY <2>2 DEF UpdateLaunched, Once
    <3>4. update'.request \notin touched' /\ previous' # update'.request
          /\ journal'.request # update'.request
      BY <1>1, <1>3, <3>3 DEF Begun
    <3> QED
      BY <2>2, <3>2, <3>4 DEF HelperTrue, UpdateLaunched, Attained, Spared
  <2> QED
    BY <1>4, <2>1, <2>2
<1>13. JournalTrue'
  <2>1. journal'.request = request /\ journal'.phase = phase /\ request # None
    BY <1>1
  <2>2. phase = "failed-before-cutover" => request \notin touched' /\ previous' # request
    BY <1>3 DEF JournalTrue
  <2>3. previous' # None => "success" \in reached'[previous']
    <3>1. CASE previous' = previous
      BY <1>5, <1>6, <3>1, Numbers DEF JournalTrue, ReachGrows, Typed
    <3>2. CASE previous' = request /\ phase = "success"
      BY <1>6, <3>2
    <3> QED
      BY <1>1, <3>1, <3>2
  <2> QED
    BY <1>2, <1>6, <2>1, <2>2, <2>3 DEF JournalTrue
<1>14. Progress'
  <2> SUFFICES ASSUME (\E q \in Requests : "success" \in reached'[q]), ~Undone'
               PROVE  version' = "new" /\ journal'.phase \notin Cutover \cup {"downloaded"}
    BY DEF Progress
  <2>1. ~Undone
    BY <1>6, ReachGrowsIs
  <2>2. journal'.phase = phase /\ phase \notin Cutover \cup {"downloaded"}
    BY <1>1, <1>2 DEF Cutover
  <2>3. phase # "success" => \E q \in Requests : "success" \in reached[q]
    BY <1>1, <1>2, <1>5
  <2>4. ~(phase = "recovered" /\ request = previous)
    <3> SUFFICES ASSUME phase = "recovered", request = previous
                 PROVE  FALSE
      OBVIOUS
    <3>1. "success" \in reached[request]
      BY <1>1 DEF JournalTrue
    <3> QED
      BY <1>2, <1>6, <3>1 DEF Undone, ReachGrows
  <2>5. phase \in {"success", "recovered"} /\ journal.phase \in Cutover => phase = "success"
    BY <2>1, <2>3 DEF Progress
  <2> QED
    BY <1>3, <2>1, <2>2, <2>3, <2>4, <2>5 DEF Progress
<1>15. Untouchable \subseteq Untouchable'
  <2> SUFFICES ASSUME NEW r \in Untouchable
               PROVE  r \in Untouchable'
    OBVIOUS
  <2>1. r \in Requests /\ r <= lastRequest /\ r \notin Asked(session) /\ Unharmed(r)
        /\ (update.request = r => update.state \in {"exited", "broken"})
    BY DEF Untouchable
  <2>2. r \notin Asked(session') /\ Unharmed(r)'
    BY <1>11, <2>1 DEF Quieter, Unharmed
  <2>3. update'.request = r => update'.state \in {"exited", "broken"}
    BY <1>4, <2>1 DEF UpdateStays, UpdateLaunched
  <2> QED
    BY <1>2, <2>1, <2>2, <2>3 DEF Untouchable
<1> QED
  BY <1>6, <1>7, <1>10, <1>12, <1>13, <1>14, <1>15, ReachGrowsIs DEF HostStep, Grows, More

LEMMA PanelRestartsHost ==
    ASSUME HostTrue, NEW ends, NEW safe, SessionTrue(session, ends, safe),
           Asked(session') = {}, PanelRestarts
    PROVE  HostStep
<1>1. helper' \in [Kinds -> HelperT] /\ (UpdateStays \/ UpdateLaunched)
  BY Survives DEF PanelRestarts
<1>2. UNCHANGED <<journal, previous, version, touched, reached, lastRequest>>
  BY DEF PanelRestarts
<1>3. Quieter
  BY DEF Quieter
<1> QED
  BY <1>1, <1>2, <1>3, HelperMoves

LEMMA SameHost ==
    ASSUME HostTrue, Quieter,
           UNCHANGED <<helper, journal, previous, version, touched, reached, lastRequest>>
    PROVE  HostStep
<1>1. helper' \in [Kinds -> HelperT] /\ UpdateStays
  BY DEF HostTrue, Typed, UpdateStays, update
<1> QED
  BY <1>1, HelperMoves

----------------------------------------------------------------------------
(* What the panel reads of the host                                         *)

\* What it says of an update, from its helper and the journal.
LEMMA DeriveTrue ==
    ASSUME HostTrue, update.state # "none", NEW j \in {journal, NoJournal}
    PROVE  LET op == Derive("apply", update, j, version)
           IN  op \in OpT /\ OpTrue(op, Ends, Untouchable)
<1> USE DEF HostTrue
<1> DEFINE r == update.request
           runs == update.state \in {"created", "running"}
           journaled == update.result = "none" /\ JournalBelongs(update, j)
           outcome == CASE runs -> "none"
                        [] update.state = "broken" -> "refused"
                        [] update.state = "exited" /\ update.result # "none" ->
                             FromResultLine(update, version)
                        [] OTHER -> IF journaled THEN FromJournal(j, version) ELSE "unknown"
           phase == IF ~runs /\ update.state # "broken" /\ journaled
                    THEN Furthest(update.phase, j.phase) ELSE update.phase
           op == Derive("apply", update, j, version)
<1>1. update \in HelperT
  BY DEF Typed, Kinds, update
<1>2. r \in Requests /\ r # None /\ r \in Ids
  BY Numbers DEF HelperTrue, Ids
<1>3. update.phase \in PhaseNames /\ update.result \in Text
  BY <1>1 DEF HelperT
<1>4. JournalBelongs(update, j) => j = journal /\ journal.request = r
  BY <1>2 DEF JournalBelongs, NoJournal
<1>5. j.phase \in PhaseNames
  BY Phases DEF NoJournal, Typed
<1>6. op = [request |-> r, kind |-> "apply", running |-> runs, phase |-> phase,
            outcome |-> outcome]
  BY DEF Derive
<1>7. phase \in PhaseNames
  BY <1>3, <1>5 DEF Furthest
\* Where the outcome comes from.
<1>8. \/ outcome \in {"none", "unknown"}
      \/ outcome = "refused" /\ update.state = "broken"
      \/ outcome = update.result /\ update.state = "exited"
      \/ outcome = journal.phase /\ journal.request = r /\ update.state \notin {"created", "running"}
           /\ journal.phase \in FinalPhases
  BY <1>4 DEF FromResultLine, FromJournal, Confirmed
<1>9. outcome \in Text
  BY <1>3, <1>8, Texts DEF FinalPhases
<1>10. runs \in BOOLEAN
  OBVIOUS
<1> HIDE DEF outcome, phase, runs
<1>11. op \in OpT /\ op.kind = "apply" /\ op.outcome = outcome /\ op.request = r
  BY <1>2, <1>6, <1>7, <1>9, <1>10, Texts DEF OpT
<1>12. Ends[r] = reached[r]
  BY <1>2 DEF Ends
<1>13. outcome \in Attained => outcome \in Ends[r]
  BY <1>8, <1>12 DEF HelperTrue, JournalTrue, Attained
<1>14. ASSUME outcome \in Spared
       PROVE  r \in Untouchable
  <2>1. update.state \in {"exited", "broken"}
    BY <1>1, <1>8, <1>14 DEF Spared, HelperT, States
  <2>2. Unharmed(r)
    BY <1>8, <1>14 DEF HelperTrue, JournalTrue, Spared, FinalPhases, Unharmed, Cutover
  <2>3. r \in Begun
    BY DEF Begun
  <2>4. r \notin Asked(session) /\ r \in 0..lastRequest
    BY <2>3 DEF Once
  <2> QED
    BY <1>2, <2>1, <2>2, <2>4 DEF Untouchable, Typed
<1> HIDE DEF op
<1> QED
  BY <1>11, <1>13, <1>14 DEF OpTrue, op

LEMMA StatusWithTrue ==
    ASSUME HostTrue, NEW j \in {journal, NoJournal}
    PROVE  StatusTrue(StatusWith(j), Ends, Untouchable)
<1> USE DEF HostTrue
<1> DEFINE old == helper["preview"]
           first == Derive("apply", update, j, version)
           second == Derive("preview", old, j, version)
           op == CASE update.state # "none" -> first
                   [] update.state = "none" /\ old.state # "none" -> second
                   [] OTHER -> NoOperation
<1>1. StatusWith(j) = [version |-> version, op |-> op]
  BY DEF StatusWith, update
<1>2. update.state # "none" => first \in OpT /\ OpTrue(first, Ends, Untouchable)
  BY DeriveTrue
<1>3. second \in OpT /\ OpTrue(second, Ends, Untouchable)
  <2>1. old \in HelperT
    BY DEF Typed, Kinds
  <2>2. old.request \in Ids /\ old.phase \in PhaseNames /\ old.result \in Text
    BY <2>1 DEF HelperT
  <2> DEFINE runs == old.state \in {"created", "running"}
             outcome == CASE runs -> "none"
                          [] old.state = "broken" -> "refused"
                          [] old.state = "exited" /\ old.result # "none" ->
                               FromResultLine(old, version)
                          [] OTHER -> "unknown"
  <2>3. second = [request |-> old.request, kind |-> "preview", running |-> runs,
                  phase |-> old.phase, outcome |-> outcome]
    BY DEF Derive
  <2>4. outcome \in Text
    BY <2>2, Texts DEF FromResultLine, Confirmed
  <2>5. runs \in BOOLEAN
    OBVIOUS
  <2> HIDE DEF runs, outcome
  <2>6. second \in OpT /\ second.kind = "preview"
    BY <2>2, <2>3, <2>4, <2>5, Texts DEF OpT
  <2> HIDE DEF second
  <2> QED
    BY <2>6 DEF OpTrue
<1> HIDE DEF first, second
<1>4. op \in OpT /\ OpTrue(op, Ends, Untouchable)
  BY <1>2, <1>3, NoOperationIs
<1>5. version \in Text
  BY Texts DEF Typed, Versions
<1> HIDE DEF op
<1> QED
  BY <1>1, <1>4, <1>5 DEF StatusTrue, StatusT

LEMMA ReadsTrue ==
    ASSUME HostTrue, NEW status, Reads(status)
    PROVE  StatusTrue(status, Ends, Untouchable)
<1>1. status \in {Unreadable, StatusWith(journal), StatusWith(NoJournal)}
  BY DEF Reads
<1> QED
  BY <1>1, StatusWithTrue, NoOperationIs

----------------------------------------------------------------------------
(* The panel's steps                                                        *)

\* The panel's memory and its messages stay true.
MemoryStep ==
    /\ Stands(session', session, Ends, Untouchable)
    /\ mail' \in [Pages -> Seq(Messages(Ends, Untouchable))]
\* Everything but the pages does.
Step ==
    /\ HostStep
    /\ SessionTrue(session', Ends, Untouchable)
    /\ mail' \in [Pages -> Seq(Messages(Ends, Untouchable))]

LEMMA HeadIs ==
    ASSUME PanelTrue, session.queue # <<>>
    PROVE  Head1 \in JobT /\ Head1 \in CallT /\ Head1 = Head(session.queue)
<1>1. session.queue \in Seq(JobT)
  BY SessionFields DEF PanelTrue, SessionTrue
<1> QED
  BY <1>1 DEF Head1, JobT

LEMMA CallsAre ==
    ASSUME PanelTrue, NEW call \in session.calls
    PROVE  call \in CallT
BY SessionFields DEF PanelTrue, SessionTrue

LEMMA JobFailsTrue ==
    ASSUME PanelTrue, MailTrue, session.queue # <<>>, NEW error \in Text, JobFails(error)
    PROVE  MemoryStep
<1>1. Head1 \in CallT
  BY HeadIs
<1>2. mail' \in [Pages -> Seq(Messages(Ends, Untouchable))]
  BY <1>1, FailTrue DEF JobFails, MailTrue
<1>3. Stands(session', session, Ends, Untouchable)
  BY JobDoneTrue DEF JobFails, PanelTrue
<1> QED
  BY <1>2, <1>3 DEF MemoryStep

LEMMA JobMovesOn ==
    ASSUME PanelTrue, MailTrue, session.queue # <<>>, Head1.step # "observe",
           NEW step \in Text, JobMoves(step), UNCHANGED mail
    PROVE  /\ MemoryStep
           /\ step = "observe" /\ Head1.kind = "apply" => Head1.request \notin Asked(session')
<1>1. Stands(session', session, Ends, Untouchable)
      /\ (step = "observe" /\ Head1.kind = "apply" => Head1.request \notin Asked(session'))
  BY JobMovesTrue DEF JobMoves, PanelTrue, Head1
<1> QED
  BY <1>1 DEF MemoryStep, MailTrue

LEMMA MemoryIsStep ==
    ASSUME HostStep, MemoryStep
    PROVE  Step
BY DEF MemoryStep, Step, Stands

LEMMA ReadingSteps ==
    ASSUME HostTrue, PanelTrue, MailTrue, PanelOnly, HostSame,
           Refresh \/ StatusRead \/ StatusEnds
    PROVE  Step
<1>1. CASE Refresh
  <2>1. PICK status \in Readings :
          /\ Reads(status) /\ Deliver(status, {})
          /\ session' = [Observed(session, status) EXCEPT !.refresh = FALSE]
    BY <1>1 DEF Refresh
  <2>2. StatusTrue(status, Ends, Untouchable)
    BY <2>1, ReadsTrue
  <2>3. Stands(session', session, Ends, Untouchable)
    BY <2>1, <2>2, ReadTrue, Texts DEF PanelTrue
  <2>4. mail' \in [Pages -> Seq(Messages(Ends, Untouchable))]
    BY <2>1, <2>2, DeliverTrue, FS_EmptySet DEF MailTrue
  <2> QED
    BY <2>3, <2>4, SameHost, MemoryIsStep DEF MemoryStep, Stands, Quieter, PanelOnly, HostSame
<1>2. CASE StatusRead
  <2>1. PICK status \in Readings :
          /\ Reads(status)
          /\ session' = [session EXCEPT !.reading.step = "read", !.reading.status = status]
    BY <1>2 DEF StatusRead
  <2>2. StatusTrue(status, Ends, Untouchable) /\ "read" \in Text
    BY <2>1, ReadsTrue, Texts
  <2>3. Stands(session', session, Ends, Untouchable)
    BY <2>1, <2>2, ReadTrue DEF PanelTrue
  <2>4. mail' \in [Pages -> Seq(Messages(Ends, Untouchable))]
    BY <1>2 DEF MailTrue, StatusRead
  <2> QED
    BY <2>3, <2>4, SameHost, MemoryIsStep DEF MemoryStep, Stands, Quieter, PanelOnly, HostSame
<1>3. CASE StatusEnds
  <2> DEFINE status == session.reading.status
             waiters == session.reading.waiters
  <2>1. StatusTrue(status, Ends, Untouchable) /\ waiters \in SUBSET CallT
        /\ IsFiniteSet(waiters)
    BY SessionFields DEF PanelTrue, SessionTrue
  <2>2. Deliver(status, waiters)
        /\ session' = [Observed(session, status) EXCEPT !.reading = NoReading]
    BY <1>3 DEF StatusEnds
  <2> HIDE DEF status, waiters
  <2>3. Stands(session', session, Ends, Untouchable)
    BY <2>1, <2>2, ReadTrue, Texts DEF PanelTrue
  <2>4. mail' \in [Pages -> Seq(Messages(Ends, Untouchable))]
    BY <2>1, <2>2, DeliverTrue DEF MailTrue
  <2> QED
    BY <2>3, <2>4, SameHost, MemoryIsStep DEF MemoryStep, Stands, Quieter, PanelOnly, HostSame
<1> QED
  BY <1>1, <1>2, <1>3

\* A question joins the reading, an action the queue.
LEMMA CallSteps ==
    ASSUME HostTrue, PanelTrue, MailTrue, PanelOnly, HostSame,
           NEW call \in session.calls, JoinReading(call) \/ QueueAction(call)
    PROVE  Step
<1>1. call \in CallT
  BY CallsAre
<1>2. CASE JoinReading(call)
  <2> DEFINE step == IF session.reading.step = "no" THEN "wait" ELSE session.reading.step
             w == Without(session, call)
  <2>1. session.reading.step \in Text
    BY DEF PanelTrue, SessionTrue, SessionT
  <2>2. step \in Text
    BY <2>1, Texts
  <2>3. w.reading = session.reading
    BY DEF Without, PanelTrue, SessionTrue, SessionT
  <2>4. session' = [w EXCEPT !.reading.waiters = @ \cup {call}, !.reading.step = step]
    BY <1>2, <2>3 DEF JoinReading, PanelTrue, SessionTrue, SessionT, Without
  <2> HIDE DEF step
  <2>5. Stands(session', session, Ends, Untouchable)
    BY <2>2, <2>4, JoinReadingTrue DEF PanelTrue
  <2>6. mail' \in [Pages -> Seq(Messages(Ends, Untouchable))]
    BY <1>2 DEF MailTrue, JoinReading
  <2> QED
    BY <2>5, <2>6, SameHost, MemoryIsStep DEF MemoryStep, Stands, Quieter, PanelOnly, HostSame
<1>3. CASE QueueAction(call)
  <2>1. CASE session' = Enqueued(session, call) /\ UNCHANGED mail
    <3>1. call.kind # "status"
      BY <1>3 DEF QueueAction
    <3>2. Stands(session', session, Ends, Untouchable)
      BY <2>1, <3>1, EnqueuedTrue DEF PanelTrue
    <3> QED
      BY <2>1, <3>2, SameHost, MemoryIsStep
      DEF MemoryStep, Stands, Quieter, PanelOnly, HostSame, MailTrue
  <2>2. CASE Fail(call, "password") /\ session' = Without(session, call)
    <3>1. Stands(session', session, Ends, Untouchable)
      BY <2>2, WithoutTrue DEF PanelTrue
    <3>2. mail' \in [Pages -> Seq(Messages(Ends, Untouchable))]
      BY <1>1, <2>2, FailTrue, Texts DEF MailTrue
    <3> QED
      BY <3>1, <3>2, SameHost, MemoryIsStep DEF MemoryStep, Stands, Quieter, PanelOnly, HostSame
  <2> QED
    BY <1>3, <2>1, <2>2 DEF QueueAction
<1> QED
  BY <1>2, <1>3

\* Once the first action is done nobody asks for its update any more.
LEMMA JobDoneAway ==
    ASSUME NEW ends, NEW safe, NEW s, SessionTrue(s, ends, safe), s.queue # <<>>,
           Head(s.queue).kind = "apply", Head(s.queue).step # "observe"
    PROVE  Head(s.queue).request \notin Asked(JobDone(s))
<1> DEFINE t == JobDone(s)
           queue == Tail(s.queue)
<1>1. s \in SessionT /\ s.queue \in Seq(JobT) /\ 1 \in DOMAIN s.queue
      /\ Head(s.queue) = s.queue[1]
  BY SessionFields DEF SessionTrue
<1>2. queue \in Seq(JobT)
  BY <1>1
<1>3. DOMAIN queue = 1..(Len(s.queue) - 1) /\ DOMAIN s.queue = 1..Len(s.queue)
      /\ Len(s.queue) \in Nat
      /\ \A i \in DOMAIN queue : queue[i] = s.queue[i + 1]
  BY <1>1
<1>4. t = [s EXCEPT !.queue = queue]
  BY DEF JobDone
<1> HIDE DEF t, queue
<1>5. t.calls = s.calls /\ t.queue = queue
  BY <1>1, <1>4 DEF SessionT
<1>6. 1 \in Jobs(s)
  BY <1>1 DEF Jobs
<1>7. \A i \in Jobs(t) : i + 1 \in Jobs(s) /\ t.queue[i] = s.queue[i + 1] /\ i + 1 # 1
  BY <1>3, <1>5 DEF Jobs
<1>8. \A i \in Jobs(t) : t.queue[i].request # s.queue[1].request
  BY <1>6, <1>7 DEF SessionTrue, Distinct
<1>9. \A c \in Applies(t) : c.request # s.queue[1].request
  BY <1>5, <1>6 DEF SessionTrue, Distinct, Applies
<1> QED
  BY <1>1, <1>8, <1>9 DEF Asked, t

\* A step of the panel that leaves the helpers alone.
LEMMA HelperSame ==
    ASSUME HostTrue, PanelOnly, HostSame, MemoryStep
    PROVE  Step
BY SameHost, MemoryIsStep DEF MemoryStep, Stands, Quieter, PanelOnly, HostSame

LEMMA FailSteps ==
    ASSUME HostTrue, PanelTrue, MailTrue, PanelOnly, HostSame, session.queue # <<>>,
           NEW error \in Text, JobFails(error)
    PROVE  Step
BY JobFailsTrue, HelperSame

\* The dry run or the update that is checked first.
LEMMA CheckSteps ==
    ASSUME HostTrue, PanelTrue, MailTrue, PanelOnly,
           JobUnreadable \/ PreviewCheck \/ ApplyCheck
    PROVE  Step
<1>1. CASE JobUnreadable
  BY <1>1, FailSteps, Texts DEF JobUnreadable, JobAt
<1>2. CASE PreviewCheck
  <2>1. CASE Exists("apply") \/ Busy("preview")
    BY <1>2, <2>1, FailSteps, Texts DEF PreviewCheck, JobAt
  <2>2. CASE ~(Exists("apply") \/ Busy("preview"))
    <3>1. JobMoves("run") /\ Removed("preview") /\ UNCHANGED mail
          /\ session.queue # <<>> /\ Head1.step = "check"
      BY <1>2, <2>2 DEF PreviewCheck, JobAt
    <3>2. MemoryStep
      BY <3>1, JobMovesOn, Texts
    <3>3. helper' \in [Kinds -> HelperT] /\ update' = update
      BY <3>1, NoHelperIs DEF Removed, update, Kinds, HostTrue, Typed
    <3>4. HostStep
      BY <3>2, <3>3, HelperMoves
      DEF MemoryStep, Stands, Quieter, UpdateStays, PanelOnly
    <3> QED
      BY <3>2, <3>4, MemoryIsStep
  <2> QED
    BY <2>1, <2>2
<1>3. CASE ApplyCheck
  <2>1. CASE JobMoves("run") /\ UNCHANGED mail
    <3>1. MemoryStep
      BY <1>3, <2>1, JobMovesOn, Texts DEF ApplyCheck, JobAt
    <3> QED
      BY <1>3, <3>1, HelperSame DEF ApplyCheck
  <2>2. CASE JobFails("busy") \/ JobFails("stale-preview")
    BY <1>3, <2>2, FailSteps, Texts DEF ApplyCheck, JobAt
  <2> QED
    BY <1>3, <2>1, <2>2 DEF ApplyCheck
<1> QED
  BY <1>1, <1>2, <1>3

\* A finished helper is removed: the dry run, or the update it was.
LEMMA DismissSteps ==
    ASSUME HostTrue, PanelTrue, MailTrue, PanelOnly, DismissCheck
    PROVE  Step
<1> DEFINE own == {k \in Kinds : helper[k].request = Head1.request}
<1>1. session.queue # <<>> /\ Head1.step = "check"
  BY DEF DismissCheck, JobAt
<1>2. CASE HostSame /\ (JobFails("not-found") \/ JobFails("running"))
  BY <1>1, <1>2, FailSteps, Texts
<1>3. CASE \E kind \in own : JobMoves("observe") /\ Removed(kind) /\ UNCHANGED mail
  <2>1. PICK kind \in own : JobMoves("observe") /\ Removed(kind) /\ UNCHANGED mail
    BY <1>3
  <2>2. MemoryStep
    BY <1>1, <2>1, JobMovesOn, Texts
  <2>3. kind \in Kinds /\ helper \in [Kinds -> HelperT]
    BY DEF HostTrue, Typed
  <2>4. helper' \in [Kinds -> HelperT]
    BY <2>1, <2>3, NoHelperIs DEF Removed
  <2>5. UpdateStays \/ UpdateRemoved
    <3>1. CASE kind = "apply"
      <4>1. update' = NoHelper
        BY <2>1, <2>3, <3>1 DEF Removed, update
      <4> QED
        BY <4>1, NoHelperIs DEF UpdateRemoved
    <3>2. CASE kind # "apply"
      <4>1. update' = update
        BY <2>1, <2>3, <3>2 DEF Removed, update, Kinds
      <4> QED
        BY <4>1 DEF UpdateStays
    <3> QED
      BY <3>1, <3>2
  <2>6. HostStep
    BY <2>2, <2>4, <2>5, HelperMoves DEF MemoryStep, Stands, Quieter, PanelOnly
  <2> QED
    BY <2>2, <2>6, MemoryIsStep
<1> QED
  BY <1>2, <1>3 DEF DismissCheck

\* docker run: nothing, a container, or one that may still start.
LEMMA LaunchSteps ==
    ASSUME HostTrue, PanelTrue, MailTrue, PanelOnly, Launch
    PROVE  Step
<1> DEFINE kind == Head1.kind
           run == Launched(Head1)
           left == [Launched(Head1) EXCEPT !.state = "created"]
           started == [helper EXCEPT ![kind] = run]
<1>1. session.queue # <<>> /\ Head1.step = "run" /\ Head1 \in JobT
      /\ Head1 = Head(session.queue)
  BY HeadIs DEF Launch, JobAt
<1>2. helper \in [Kinds -> HelperT]
  BY DEF HostTrue, Typed
<1>3. /\ run \in HelperT /\ run.request = Head1.request /\ run.state = "running"
      /\ run.phase = "none" /\ run.result = "none" /\ ~run.noChange
  BY <1>1, LaunchedIs
<1>4. /\ left \in HelperT /\ left.request = Head1.request /\ left.state = "created"
      /\ left.phase = "none" /\ left.result = "none" /\ ~left.noChange
  BY <1>3 DEF HelperT, States
<1>5. CASE HostSame /\ (JobFails("busy") \/ JobFails("start-failed"))
  BY <1>1, <1>5, FailSteps, Texts
<1>6. ASSUME ~Exists(kind), helper' = started,
             Stands(session', session, Ends, Untouchable),
             kind = "apply" => Head1.request \notin Asked(session')
      PROVE  HostStep
  <2>1. helper' \in [Kinds -> HelperT] /\ (UpdateStays \/ UpdateLaunched)
    <3> HIDE DEF run
    <3> QED
      BY <1>1, <1>3, <1>6, StartedIs DEF PanelTrue, Exists
  <2> QED
    BY <1>6, <2>1, HelperMoves DEF Stands, Quieter, PanelOnly
<1>7. CASE /\ ~Exists(kind) /\ JobMoves("observe") /\ UNCHANGED mail
           /\ \/ helper' = started
              \/ kind = "apply" /\ helper' = [started EXCEPT !["preview"] = NoHelper]
  <2>1. MemoryStep /\ (kind = "apply" => Head1.request \notin Asked(session'))
    BY <1>1, <1>7, JobMovesOn, Texts
  <2>2. CASE helper' = started
    BY <1>6, <1>7, <2>1, <2>2, MemoryIsStep DEF MemoryStep
  <2>3. CASE kind = "apply" /\ helper' = [started EXCEPT !["preview"] = NoHelper]
    <3> HIDE DEF run
    <3>1. update' = run /\ helper' \in [Kinds -> HelperT]
      BY <1>2, <1>3, <2>3, NoHelperIs DEF update, Kinds
    <3>2. Head1.request \in Asked(session)
      <4>1. 1 \in DOMAIN session.queue /\ Head1 = session.queue[1]
        BY <1>1, SessionFields DEF PanelTrue, SessionTrue
      <4> QED
        BY <1>1, <2>3, <4>1 DEF Asked, Jobs
    <3>3. UpdateLaunched
      BY <1>3, <1>7, <2>1, <2>3, <3>1, <3>2 DEF UpdateLaunched, Exists, update
    <3>4. HostStep
      BY <2>1, <3>1, <3>3, HelperMoves DEF MemoryStep, Stands, Quieter, PanelOnly
    <3> QED
      BY <2>1, <3>4, MemoryIsStep
  <2> QED
    BY <1>7, <2>2, <2>3
<1>8. CASE ~Exists(kind) /\ JobFails("start-failed")
           /\ helper' = [started EXCEPT ![kind].state = "created"]
  <2>1. MemoryStep
    BY <1>1, <1>8, JobFailsTrue, Texts
  <2>2. kind = "apply" => Head1.request \notin Asked(session')
    BY <1>1, <1>8, JobDoneAway DEF JobFails, PanelTrue
  <2>3. helper' = [helper EXCEPT ![kind] = left]
    <3> QED
      BY <1>8
  <2>4. helper' \in [Kinds -> HelperT] /\ (UpdateStays \/ UpdateLaunched)
    <3> HIDE DEF left
    <3> QED
      BY <1>1, <1>4, <1>8, <2>1, <2>2, <2>3, StartedIs DEF PanelTrue, Exists
  <2>5. HostStep
    BY <2>1, <2>4, HelperMoves DEF MemoryStep, Stands, Quieter, PanelOnly
  <2> QED
    BY <2>1, <2>5, MemoryIsStep
<1> QED
  BY <1>5, <1>7, <1>8 DEF Launch

\* The first action is answered with the status that was read.
LEMMA AnswerSteps ==
    ASSUME HostTrue, PanelTrue, MailTrue, PanelOnly, JobAnswers
    PROVE  Step
<1>1. PICK status \in Readings :
        /\ Reads(status) /\ Deliver(status, {Head1})
        /\ session' = JobDone(Observed(session, status))
  BY DEF JobAnswers
<1>2. session.queue # <<>> /\ {Head1} \in SUBSET CallT /\ IsFiniteSet({Head1})
  BY HeadIs, FS_Singleton DEF JobAnswers, JobAt
<1>3. StatusTrue(status, Ends, Untouchable) /\ status \in StatusT
  BY <1>1, ReadsTrue DEF StatusTrue
<1> DEFINE s == Observed(session, status)
<1>4. Stands(s, session, Ends, Untouchable) /\ s.queue # <<>>
  BY <1>2, <1>3, ObservedTrue, ObservedIs DEF PanelTrue, SessionTrue
<1> HIDE DEF s
<1>5. Stands(JobDone(s), s, Ends, Untouchable)
  BY <1>4, JobDoneTrue DEF Stands
<1>6. Stands(session', session, Ends, Untouchable)
  BY <1>1, <1>4, <1>5 DEF Stands, s
<1>7. mail' \in [Pages -> Seq(Messages(Ends, Untouchable))]
  BY <1>1, <1>2, <1>3, DeliverTrue DEF MailTrue
<1> QED
  BY <1>6, <1>7, HelperSame DEF MemoryStep, JobAnswers

\* A cancel looks, sends SIGTERM and answers.
LEMMA CancelSteps ==
    ASSUME HostTrue, PanelTrue, MailTrue, PanelOnly, NEW call \in session.calls,
           CancelReads(call) \/ CancelKills(call) \/ CancelAnswers(call)
    PROVE  Step
<1>1. call \in CallT /\ call.kind = "cancel"
  BY CallsAre DEF CancelReads, CancelKills, CancelAnswers
<1>2. ASSUME NEW error \in Text, CallFails(call, error)
      PROVE  Step
  <2>1. mail' \in [Pages -> Seq(Messages(Ends, Untouchable))]
    BY <1>1, <1>2, FailTrue DEF CallFails, MailTrue
  <2>2. Stands(session', session, Ends, Untouchable)
    BY <1>2, WithoutTrue DEF CallFails, PanelTrue
  <2> QED
    BY <1>2, <2>1, <2>2, HelperSame DEF MemoryStep, CallFails
<1>3. ASSUME NEW step \in Text, session' = Moved(session, call, step), UNCHANGED mail
      PROVE  MemoryStep
  <2>1. Stands(session', session, Ends, Untouchable)
    BY <1>1, <1>3, MovedTrue DEF PanelTrue
  <2> QED
    BY <1>3, <2>1 DEF MemoryStep, MailTrue
<1>4. CASE CancelReads(call)
  <2>1. CASE \E error \in Text : CallFails(call, error)
    BY <1>2, <2>1
  <2>2. CASE session' = Moved(session, call, "kill") /\ HostSame /\ UNCHANGED mail
    BY <1>3, <2>2, HelperSame, Texts
  <2> QED
    BY <1>4, <2>1, <2>2, Texts DEF CancelReads
<1>5. CASE CancelKills(call)
  <2>1. CASE CallFails(call, "too-late")
    BY <1>2, <2>1, Texts
  <2>2. CASE /\ \E kind \in Kinds : helper' = [helper EXCEPT ![kind].term = TRUE]
             /\ session' = Moved(session, call, "observe")
             /\ UNCHANGED mail
    <3>1. MemoryStep
      BY <1>3, <2>2, Texts
    <3>2. PICK kind \in Kinds : helper' = [helper EXCEPT ![kind].term = TRUE]
      BY <2>2
    <3>3. helper \in [Kinds -> HelperT]
      BY DEF HostTrue, Typed
    <3>4. helper' \in [Kinds -> HelperT]
      BY <3>2, <3>3 DEF HelperT
    <3>5. UpdateStays
      BY <3>2, <3>3 DEF HelperT, Kinds, update, UpdateStays
    <3>6. HostStep
      BY <3>1, <3>4, <3>5, HelperMoves DEF MemoryStep, Stands, Quieter, PanelOnly
    <3> QED
      BY <3>1, <3>6, MemoryIsStep
  <2> QED
    BY <1>5, <2>1, <2>2 DEF CancelKills
<1>6. CASE CancelAnswers(call)
  <2>1. PICK status \in Readings :
          /\ Reads(status) /\ Deliver(status, {call})
          /\ session' = Without(Observed(session, status), call)
    BY <1>6 DEF CancelAnswers
  <2>2. StatusTrue(status, Ends, Untouchable) /\ status \in StatusT
    BY <2>1, ReadsTrue DEF StatusTrue
  <2>3. Stands(Observed(session, status), session, Ends, Untouchable)
    BY <2>2, ObservedTrue DEF PanelTrue
  <2>4. Stands(session', session, Ends, Untouchable)
    BY <2>1, <2>3, WithoutTrue DEF Stands
  <2>5. {call} \in SUBSET CallT /\ IsFiniteSet({call})
    BY <1>1, FS_Singleton
  <2>6. mail' \in [Pages -> Seq(Messages(Ends, Untouchable))]
    BY <2>1, <2>2, <2>5, DeliverTrue DEF MailTrue
  <2> QED
    BY <1>6, <2>4, <2>6, HelperSame DEF MemoryStep, CancelAnswers
<1> QED
  BY <1>4, <1>5, <1>6

LEMMA PanelSteps ==
    ASSUME HostTrue, PanelTrue, MailTrue, PanelNext
    PROVE  Step /\ pages' = pages
<1>1. PanelOnly
  BY DEF PanelNext
<1>2. Step
  <2>1. CASE HostSame /\ \E call \in session.calls : JoinReading(call) \/ QueueAction(call)
    BY <1>1, <2>1, CallSteps
  <2>2. CASE HostSame /\ (Refresh \/ StatusRead \/ StatusEnds)
    BY <1>1, <2>2, ReadingSteps
  <2>3. CASE JobUnreadable \/ PreviewCheck \/ ApplyCheck
    BY <1>1, <2>3, CheckSteps
  <2>4. CASE \E call \in session.calls :
               CancelReads(call) \/ CancelKills(call) \/ CancelAnswers(call)
    BY <1>1, <2>4, CancelSteps
  <2> QED
    BY <1>1, <2>1, <2>2, <2>3, <2>4, DismissSteps, LaunchSteps, AnswerSteps DEF PanelNext
<1> QED
  BY <1>1, <1>2 DEF PanelOnly

----------------------------------------------------------------------------
(* The helpers' steps                                                       *)

\* The panel hears a line, or the end, of a helper it follows.
LEMMA Hears ==
    ASSUME PanelTrue, MailTrue, UNCHANGED mail, NEW request,
           Printed(request) \/ Closes(request)
    PROVE  MemoryStep
<1>1. Stands(session', session, Ends, Untouchable)
  BY NoticesTrue DEF PanelTrue, Printed, Closes
<1> QED
  BY <1>1 DEF MemoryStep, MailTrue

\* The panel forgets; who waits for its answers gets none.
LEMMA Forgets ==
    ASSUME MailTrue, session' = NewSession,
           UNCHANGED mail \/ mail' = [p \in Pages |-> <<>>]
    PROVE  MemoryStep /\ Asked(session') = {}
<1>1. SessionTrue(session', Ends, Untouchable) /\ Asked(session') = {}
  BY NewSessionTrue
<1>2. mail' \in [Pages -> Seq(Messages(Ends, Untouchable))]
  <2> DEFINE M == Messages(Ends, Untouchable)
  <2>1. <<>> \in Seq(M)
    <3> HIDE DEF M
    <3> QED
      OBVIOUS
  <2> HIDE DEF M
  <2>2. mail \in [Pages -> Seq(M)]
    BY DEF MailTrue, M
  <2>3. CASE mail' = [p \in Pages |-> <<>>]
    BY <2>1, <2>3 DEF M
  <2>4. CASE mail' = mail
    BY <2>2, <2>4 DEF M
  <2> QED
    BY <2>3, <2>4
<1> QED
  BY <1>1, <1>2 DEF MemoryStep, Stands

LEMMA HelperSteps ==
    ASSUME HostTrue, PanelTrue, MailTrue, HelperNext
    PROVE  Step /\ pages' = pages
<1>1. ASSUME NEW phase \in PhaseNames, Writes(phase)
      PROVE  Step /\ pages' = pages
  <2>1. MemoryStep /\ pages' = pages
    BY <1>1, Hears DEF Writes, PanelStays
  <2> QED
    BY <1>1, <2>1, WritesHost, MemoryIsStep DEF MemoryStep, Stands, Quieter
<1>2. CASE StopPanel
  <2>1. MemoryStep /\ Asked(session') = {} /\ pages' = pages
    BY <1>2, Forgets DEF StopPanel, PanelEnds
  <2> QED
    BY <1>2, <2>1, StopPanelHost, MemoryIsStep DEF PanelTrue
<1>3. ASSUME NEW v \in Versions, StartPanel(v)
      PROVE  Step /\ pages' = pages
  <2>1. MemoryStep /\ pages' = pages
    BY <1>3, Forgets DEF StartPanel, PanelStays
  <2> QED
    BY <1>3, <2>1, StartPanelHost, MemoryIsStep DEF MemoryStep, Stands, Quieter
<1>4. CASE UpdateEnds
  <2>1. MemoryStep /\ pages' = pages
    BY <1>4, Hears DEF UpdateEnds, Finishes, Exits, PanelStays
  <2> QED
    BY <1>4, <2>1, UpdateEndsHost, MemoryIsStep DEF MemoryStep, Stands, Quieter
<1>5. CASE PreviewEnds
  <2>1. MemoryStep /\ pages' = pages
    BY <1>5, Hears DEF PreviewEnds, Finishes, Exits, PanelStays
  <2> QED
    BY <1>5, <2>1, PreviewEndsHost, MemoryIsStep DEF MemoryStep, Stands, Quieter
<1>6. CASE PreviewExpires
  <2>1. MemoryStep /\ pages' = pages
    BY <1>6, NoticesTrue DEF PreviewExpires, PanelStays, MemoryStep, PanelTrue, MailTrue
  <2> QED
    BY <1>6, <2>1, SameHost, MemoryIsStep DEF PreviewExpires, MemoryStep, Stands, Quieter
<1>7. ASSUME NEW kind \in Kinds, HelperDies(kind)
      PROVE  Step /\ pages' = pages
  <2>1. MemoryStep /\ pages' = pages
    BY <1>7, Hears DEF HelperDies, Exits, PanelStays
  <2> QED
    BY <1>7, <2>1, HelperDiesHost, MemoryIsStep DEF MemoryStep, Stands, Quieter
<1>8. ASSUME NEW kind \in Kinds, HelperStarts(kind)
      PROVE  Step /\ pages' = pages
  <2>1. MemoryStep /\ pages' = pages
    BY <1>8, Hears DEF HelperStarts, PanelStays
  <2> QED
    BY <1>8, <2>1, HelperStartsHost, MemoryIsStep DEF MemoryStep, Stands, Quieter
<1>9. CASE HostCommand
  <2>1. MemoryStep /\ pages' = pages
    <3>1. CASE UNCHANGED <<session, mail, pages>>
      BY <3>1, NoticesTrue DEF MemoryStep, PanelTrue, MailTrue
    <3>2. CASE PanelEnds
      BY <3>2, Forgets DEF PanelEnds
    <3> QED
      BY <1>9, <3>1, <3>2 DEF HostCommand
  <2> QED
    BY <1>9, <2>1, HostCommandHost, MemoryIsStep DEF MemoryStep, Stands, Quieter, PanelTrue
<1>10. CASE PanelRestarts
  <2>1. MemoryStep /\ Asked(session') = {} /\ pages' = pages
    BY <1>10, Forgets DEF PanelRestarts, PanelEnds
  <2> QED
    BY <1>10, <2>1, PanelRestartsHost, MemoryIsStep DEF PanelTrue
<1> QED
  BY <1>1, <1>2, <1>3, <1>4, <1>5, <1>6, <1>7, <1>8, <1>9, <1>10 DEF HelperNext

----------------------------------------------------------------------------
(* The pages' steps                                                         *)

\* Only one page changes, and it says nothing that is not so.
Turns(p) ==
    /\ DOMAIN pages' = Pages
    /\ \A q \in Pages \ {p} : pages'[q] = pages[q]
    /\ PageTrue(pages'[p], Ends, Untouchable, Builds)
    /\ Forward(pages[p].saved, pages'[p].saved)

LEMMA TurnsIs ==
    ASSUME PagesTrue, NEW p \in Pages, NEW pg, pages' = [pages EXCEPT ![p] = pg],
           PageTrue(pg, Ends, Untouchable, Builds), Forward(pages[p].saved, pg.saved)
    PROVE  Turns(p)
<1>1. DOMAIN pages' = Pages /\ pages'[p] = pg
      /\ \A q \in Pages \ {p} : pages'[q] = pages[q]
  BY DEF PagesTrue
<1> QED
  BY <1>1 DEF Turns

\* A page waits for another answer.
LEMMA ProbeTrue ==
    ASSUME NEW ends, NEW safe, NEW builds, NEW pg, PageTrue(pg, ends, safe, builds),
           NEW n \in AckIds
    PROVE  LET next == [pg EXCEPT !.probe = n]
           IN  PageTrue(next, ends, safe, builds) /\ next.saved = pg.saved /\ next.open = pg.open
<1> DEFINE next == [pg EXCEPT !.probe = n]
<1>1. next \in PageT /\ next.node = pg.node /\ next.saved = pg.saved
      /\ next.status = pg.status /\ next.open = pg.open /\ next.build = pg.build
  BY DEF PageTrue, PageT
<1> HIDE DEF next
<1>2. PageTrue(next, ends, safe, builds)
  BY <1>1 DEF PageTrue, Follows
<1> QED
  BY <1>1, <1>2 DEF next

\* What a page sends is a question and what its step says.
LEMMA CallIs ==
    ASSUME NEW p \in Pages, NEW kind \in Text, NEW request \in AckIds, NEW preview \in Ids,
           kind # "status" => request \in Ids
    PROVE  /\ Call(p, kind, request, preview) \in CallT
           /\ Call(p, kind, request, preview).kind = kind
           /\ Call(p, kind, request, preview).request = request
BY Texts DEF Call, CallT

LEMMA PerformsTrue ==
    ASSUME MailTrue, PagesTrue, NEW p \in Pages, NEW step,
           StepTrue(step, pages[p], Ends, Untouchable, Builds),
           NEW s, SessionTrue(s, Ends, Untouchable),
           NEW c, NEW acked, NEW rest \in Seq(Messages(Ends, Untouchable)),
           step.emit.kind = "apply" => step.emit.request \notin Asked(s),
           Performs(p, step, s, c, acked, rest)
    PROVE  /\ SessionTrue(session', Ends, Untouchable)
           /\ mail' \in [Pages -> Seq(Messages(Ends, Untouchable))]
           /\ Asked(session') \subseteq Asked(s) \cup {step.emit.request}
           /\ step.emit.kind # "apply" => Asked(session') \subseteq Asked(s)
           /\ Turns(p)
<1> DEFINE n == IF FreeAsk(p) = {} THEN None ELSE Min(FreeAsk(p))
           question == Call(p, "status", n, None)
           order == Call(p, step.emit.kind, step.emit.request, step.emit.preview)
           asks == IF step.ask = "no" THEN {} ELSE {question}
           emits == IF step.emit = NoEmit THEN {} ELSE {order}
           calls == asks \cup emits
           probe == IF step.ask = "probe" THEN n ELSE step.page.probe
           sent == [s EXCEPT !.calls = @ \cup calls]
           pg == [step.page EXCEPT !.probe = probe]
<1>1. step.page \in PageT /\ step.ask \in Text /\ step.emit \in EmitT
      /\ PageTrue(step.page, Ends, Untouchable, Builds)
      /\ Forward(pages[p].saved, step.page.saved)
  BY DEF StepTrue, StepT
<1>2. n \in AckIds
  <2>1. FreeAsk(p) \in SUBSET (1..MaxAsks)
    BY DEF FreeAsk
  <2> QED
    BY <2>1, Numbers DEF AckIds
<1> HIDE DEF n
<1>3. probe \in AckIds
  BY <1>1, <1>2 DEF PageT
<1>4. question \in CallT /\ question.kind = "status"
  BY <1>2, CallIs, Texts, Numbers
<1>5. order \in CallT /\ order.kind = step.emit.kind /\ order.request = step.emit.request
  <2>1. step.emit.kind \in Text /\ step.emit.request \in Ids /\ step.emit.preview \in Ids
        /\ step.emit.request \in AckIds
    BY <1>1 DEF EmitT, AckIds
  <2> QED
    BY <2>1, CallIs
<1> HIDE DEF probe, question, order
<1>6. calls \in SUBSET CallT /\ IsFiniteSet(calls)
  <2>1. IsFiniteSet(asks) /\ IsFiniteSet(emits)
    BY FS_EmptySet, FS_Singleton
  <2> QED
    BY <1>4, <1>5, <2>1, FS_Union
<1>7. \A d \in calls : d.kind = "apply" =>
        d = order /\ d.request = step.emit.request /\ step.emit.kind = "apply"
  BY <1>4, <1>5
<1> HIDE DEF calls
<1>8. /\ SessionTrue(sent, Ends, Untouchable)
      /\ Asked(sent) \subseteq Asked(s) \cup {step.emit.request}
      /\ step.emit.kind # "apply" => Asked(sent) \subseteq Asked(s)
  <2>1. /\ SessionTrue(sent, Ends, Untouchable)
        /\ Asked(sent) \subseteq Asked(s) \cup {step.emit.request}
        /\ (\A d \in calls : d.kind # "apply") => Stands(sent, s, Ends, Untouchable)
    BY <1>6, <1>7, SentTrue
  <2> QED
    BY <1>7, <2>1 DEF Stands
<1> HIDE DEF sent
<1>9. PageTrue(pg, Ends, Untouchable, Builds) /\ pg.saved = step.page.saved
  BY <1>1, <1>3, ProbeTrue
<1>10. pages' = [pages EXCEPT ![p] = pg]
  <2>1. pages' = [pages EXCEPT ![p] =
                    [step.page EXCEPT !.probe = IF step.ask = "probe" THEN n ELSE @]]
    BY DEF Performs, n
  <2> QED
    BY <1>1, <2>1 DEF probe, PageT
<1> HIDE DEF pg
<1>11. Turns(p)
  BY <1>1, <1>9, <1>10, TurnsIs
<1>12. /\ session' \in {sent, s, Deaf(s, p)}
       /\ mail' = [mail EXCEPT ![p] = rest] \/ mail' = [mail EXCEPT ![p] = <<>>]
  BY DEF Performs, n, asks, emits, calls, question, order, sent
<1>13. Stands(Deaf(s, p), s, Ends, Untouchable)
  BY DeafTrue
<1>14. mail' \in [Pages -> Seq(Messages(Ends, Untouchable))]
  <2> DEFINE M == Messages(Ends, Untouchable)
  <2>1. rest \in Seq(M) /\ mail \in [Pages -> Seq(M)]
    BY DEF MailTrue
  <2> HIDE DEF M
  <2>2. <<>> \in Seq(M)
    OBVIOUS
  <2> QED
    BY <1>12, <2>1, <2>2 DEF M
<1> QED
  BY <1>8, <1>11, <1>12, <1>13, <1>14 DEF Stands

LEMMA NewIsBuild == "new" \in Builds
BY Texts DEF Builds

\* A page that starts no update leaves the host as it is.
LEMMA MildSteps ==
    ASSUME HostTrue, MailTrue, PagesTrue, NEW p \in Pages, NEW step,
           Mild(step, pages[p], Ends, Untouchable, Builds),
           NEW s, Stands(s, session, Ends, Untouchable),
           NEW c, NEW acked, NEW rest \in Seq(Messages(Ends, Untouchable)),
           Performs(p, step, s, c, acked, rest), PageOnly, lastRequest' = lastRequest
    PROVE  Step /\ Turns(p)
<1>1. /\ SessionTrue(session', Ends, Untouchable)
      /\ mail' \in [Pages -> Seq(Messages(Ends, Untouchable))]
      /\ Asked(session') \subseteq Asked(s) /\ Turns(p)
  BY PerformsTrue DEF Mild, Stands
<1>2. Quieter
  BY <1>1 DEF Quieter, Stands
<1> QED
  BY <1>1, <1>2, SameHost DEF Step, PageOnly

LEMMA DoesMild ==
    ASSUME HostTrue, PanelTrue, MailTrue, PagesTrue, NEW p \in Pages, NEW step,
           Mild(step, pages[p], Ends, Untouchable, Builds),
           Does(p, step), lastRequest' = lastRequest
    PROVE  Step /\ Turns(p)
<1>1. Stands(session, session, Ends, Untouchable)
  BY DEF Stands, PanelTrue
<1>2. mail[p] \in Seq(Messages(Ends, Untouchable))
  BY DEF MailTrue
<1> QED
  BY <1>1, <1>2, MildSteps DEF Does

LEMMA PageIs ==
    ASSUME PagesTrue, NEW p \in Pages
    PROVE  PageTrue(pages[p], Ends, Untouchable, Builds) /\ pages[p] \in PageT
BY DEF PagesTrue, PageTrue

\* A push, an answer, or none.
LEMMA ReceiveSteps ==
    ASSUME HostTrue, PanelTrue, MailTrue, PagesTrue, NEW p \in Pages, Receive(p)
    PROVE  Step /\ Turns(p)
<1> DEFINE m == Head(mail[p])
           step == IF m.type = "push" THEN Push(pages[p], m.status, expired)
                   ELSE OnAck(pages[p], m, expired)
           M == Messages(Ends, Untouchable)
<1>1. mail[p] \in Seq(M) /\ mail[p] # <<>>
  BY DEF MailTrue, Receive
<1>2. m \in M /\ Tail(mail[p]) \in Seq(M)
  <2> HIDE DEF M
  <2> QED
    BY <1>1
<1>3. m.status \in StatusT /\ OpTrue(m.status.op, Ends, Untouchable)
      /\ "status" \in DOMAIN m
  BY <1>2 DEF Messages
<1>4. PageTrue(pages[p], Ends, Untouchable, Builds)
  BY PageIs
<1>5. Performs(p, step, session, conn, {<<m.kind, m.request>>}, Tail(mail[p]))
      /\ PageOnly /\ lastRequest' = lastRequest
  BY DEF Receive
<1> HIDE DEF m
<1>6. Mild(step, pages[p], Ends, Untouchable, Builds)
  BY <1>3, <1>4, PushTrue, OnAckTrue, NewIsBuild, QuietIsMild DEF StatusTrue
<1>7. Stands(session, session, Ends, Untouchable)
  BY DEF Stands, PanelTrue
<1> HIDE DEF step
<1> QED
  BY <1>2, <1>5, <1>6, <1>7, MildSteps

LEMMA AckLostSteps ==
    ASSUME HostTrue, PanelTrue, MailTrue, PagesTrue, NEW p \in Pages, AckLost(p)
    PROVE  Step /\ Turns(p)
<1>1. PICK key \in due[p] :
        LET lost == [kind |-> key[1], request |-> key[2],
                     status |-> NoStatus, error |-> "lost"]
        IN  Performs(p, OnAck(pages[p], lost, expired),
                     Unheard(session, p, key[1], key[2]), conn, {key}, mail[p])
  BY DEF AckLost
<1> DEFINE lost == [kind |-> key[1], request |-> key[2],
                    status |-> NoStatus, error |-> "lost"]
           step == OnAck(pages[p], lost, expired)
           s == Unheard(session, p, key[1], key[2])
<1>2. Performs(p, step, s, conn, {key}, mail[p]) /\ PageOnly /\ lastRequest' = lastRequest
  BY <1>1 DEF AckLost
<1>3. "status" \in DOMAIN lost /\ lost.status = NoStatus
  OBVIOUS
<1> HIDE DEF lost
<1>4. Mild(step, pages[p], Ends, Untouchable, Builds)
  BY <1>3, PageIs, OnAckTrue, NewIsBuild, QuietIsMild, NoOperationIs
<1>5. Stands(s, session, Ends, Untouchable)
  BY UnheardTrue DEF PanelTrue
<1>6. mail[p] \in Seq(Messages(Ends, Untouchable))
  BY DEF MailTrue
<1> HIDE DEF step, s
<1> QED
  BY <1>2, <1>4, <1>5, <1>6, MildSteps

\* A deadline, and the connection.
LEMMA TurnSteps ==
    ASSUME HostTrue, PanelTrue, MailTrue, PagesTrue, NEW p \in Pages,
           Clock(p) \/ Disconnected(p) \/ Connected(p)
    PROVE  Step /\ Turns(p)
<1>1. PageTrue(pages[p], Ends, Untouchable, Builds)
  BY PageIs
<1>2. CASE Clock(p)
  <2> DEFINE step == Tick(pages[p])
  <2>1. Mild(step, pages[p], Ends, Untouchable, Builds)
    BY <1>1, <1>2, TickTrue, QuietIsMild DEF Clock
  <2>2. Does(p, step) /\ lastRequest' = lastRequest
    BY <1>2 DEF Clock
  <2> HIDE DEF step
  <2> QED
    BY <2>1, <2>2, DoesMild
<1>3. CASE Disconnected(p)
  <2> DEFINE step == LinkDown(pages[p])
  <2>1. Mild(step, pages[p], Ends, Untouchable, Builds)
    BY <1>1, ConnectionTrue, QuietIsMild
  <2>2. Does(p, step) /\ lastRequest' = lastRequest
    BY <1>3 DEF Disconnected
  <2> HIDE DEF step
  <2> QED
    BY <2>1, <2>2, DoesMild
<1>4. CASE Connected(p)
  <2> DEFINE step == LinkUp(pages[p])
             M == Messages(Ends, Untouchable)
             c == conn \cup {p}
  <2>1. Mild(step, pages[p], Ends, Untouchable, Builds)
    BY <1>1, LinkUpTrue, QuietIsMild
  <2>2. Performs(p, step, session, c, {}, <<>>) /\ PageOnly /\ lastRequest' = lastRequest
    BY <1>4 DEF Connected
  <2>3. <<>> \in Seq(M)
    <3> HIDE DEF M
    <3> QED
      OBVIOUS
  <2>4. Stands(session, session, Ends, Untouchable)
    BY DEF Stands, PanelTrue
  <2> HIDE DEF step, c
  <2> QED
    BY <2>1, <2>2, <2>3, <2>4, MildSteps
<1> QED
  BY <1>2, <1>3, <1>4

\* A page loads with the build of the panel that answers, or ends.
LEMMA LoadSteps ==
    ASSUME HostTrue, PanelTrue, MailTrue, PagesTrue, NEW p \in Pages, Load(p)
    PROVE  Step /\ Turns(p)
<1> DEFINE pg == pages[p]
<1>1. PageTrue(pg, Ends, Untouchable, Builds) /\ pg.saved \in RecordT
  BY PageIs, Fields
<1>2. pg.saved.success => "success" \in Ends[pg.saved.request] /\ version \in Builds
  <2> SUFFICES ASSUME pg.saved.success
               PROVE  "success" \in Ends[pg.saved.request] /\ version \in Builds
    OBVIOUS
  <2>1. "success" \in Ends[pg.saved.request] /\ pg.saved.request \in Ids
    BY <1>1 DEF PageTrue, RecordT
  <2>2. pg.saved.request \in Requests /\ "success" \in reached[pg.saved.request]
    BY <2>1, Numbers DEF Ends
  <2>3. Undone \/ version = "new"
    BY <2>2 DEF HostTrue, Progress
  <2> QED
    BY <2>1, <2>3, Texts DEF Builds, HostTrue, Typed, Versions
<1>3. version \in Text
  BY Texts DEF HostTrue, Typed, Versions
<1> DEFINE next == Boot(pg, version)
<1>4. PageTrue(next, Ends, Untouchable, Builds) /\ Forward(pg.saved, next.saved)
  BY <1>1, <1>2, <1>3, BootTrue DEF PageTrue
<1>5. pages' = [pages EXCEPT ![p] = next]
  BY DEF Load
<1> HIDE DEF next
<1>6. Turns(p)
  BY <1>4, <1>5, TurnsIs
<1>7. UNCHANGED <<session, mail, lastRequest>> /\ PageOnly
  BY DEF Load, net
<1>8. HostStep
  BY <1>7, SameHost DEF Quieter, PageOnly
<1> QED
  BY <1>6, <1>7, <1>8 DEF Step, PanelTrue, MailTrue

LEMMA BreaksSteps ==
    ASSUME HostTrue, PanelTrue, MailTrue, PagesTrue, NEW p \in Pages, Breaks(p)
    PROVE  Step /\ Turns(p)
<1> DEFINE pg == pages[p]
           gone == [pages[p] EXCEPT !.open = FALSE]
<1>1. PageTrue(pg, Ends, Untouchable, Builds)
  BY PageIs
<1>2. Stands(session', session, Ends, Untouchable)
  BY DeafTrue DEF Breaks, PanelTrue
<1>3. mail' \in [Pages -> Seq(Messages(Ends, Untouchable))]
  <2> DEFINE M == Messages(Ends, Untouchable)
  <2>1. mail \in [Pages -> Seq(M)]
    BY DEF MailTrue
  <2>2. mail' = [mail EXCEPT ![p] = <<>>]
    BY DEF Breaks
  <2> HIDE DEF M
  <2>3. <<>> \in Seq(M)
    OBVIOUS
  <2> QED
    BY <2>1, <2>2, <2>3 DEF M
<1>4. Turns(p)
  <2>1. CASE pages' = [pages EXCEPT ![p] = LinkDown(pg).page]
    <3> DEFINE next == LinkDown(pg).page
    <3>1. PageTrue(next, Ends, Untouchable, Builds) /\ Forward(pg.saved, next.saved)
      BY <1>1, ConnectionTrue DEF Quiet, StepTrue
    <3> HIDE DEF next
    <3> QED
      BY <2>1, <3>1, TurnsIs DEF next
  <2>2. CASE pages' = [pages EXCEPT ![p] = AuthLost(pg).page]
    <3> DEFINE next == AuthLost(pg).page
    <3>1. PageTrue(next, Ends, Untouchable, Builds) /\ Forward(pg.saved, next.saved)
      BY <1>1, ConnectionTrue DEF Quiet, StepTrue
    <3> HIDE DEF next
    <3> QED
      BY <2>2, <3>1, TurnsIs DEF next
  <2>3. CASE pages' = [pages EXCEPT ![p].open = FALSE]
    <3>1. pg \in PageT /\ PhaseRank(pg.saved.phase) \in Int
      BY PageIs, Fields
    <3>2. gone \in PageT /\ gone.node = pg.node /\ gone.saved = pg.saved
          /\ gone.status = pg.status /\ ~gone.open
      BY <3>1 DEF PageT
    <3>3. pages' = [pages EXCEPT ![p] = gone]
      BY <2>3
    <3> HIDE DEF gone
    <3>4. PageTrue(gone, Ends, Untouchable, Builds)
      BY <1>1, <3>2 DEF PageTrue, Follows
    <3>5. Forward(pg.saved, gone.saved)
      BY <3>1, <3>2 DEF Forward
    <3> QED
      BY <3>3, <3>4, <3>5, TurnsIs
  <2> QED
    BY <2>1, <2>2, <2>3 DEF Breaks
<1>5. lastRequest' = lastRequest /\ PageOnly
  BY DEF Breaks
<1>6. HostStep
  BY <1>2, <1>5, SameHost DEF Stands, Quieter, PageOnly
<1> QED
  BY <1>2, <1>3, <1>4, <1>6 DEF Step, Stands

\* A new number is nobody's yet, and only an update that is asked for takes it.
LEMMA NumberHost ==
    ASSUME HostTrue, lastRequest < MaxRequests, lastRequest' = lastRequest + 1,
           Asked(session') \subseteq Asked(session) \cup {lastRequest + 1}, PageOnly
    PROVE  HostStep
<1> USE DEF HostTrue
<1>1. lastRequest \in Nat /\ MaxRequests \in Nat /\ lastRequest + 1 \in 1..MaxRequests
  BY PanelUpdateAssumption DEF Typed
<1>2. Typed'
  BY <1>1 DEF Typed, PageOnly
<1>3. HelperTrue' /\ JournalTrue' /\ Progress'
  BY DEF PageOnly, HelperTrue, JournalTrue, Progress, Undone, Unharmed, update
<1>4. Begun' = Begun
  BY DEF PageOnly, Begun, update
<1>5. Once'
  BY <1>1, <1>4 DEF Once
<1>6. ReachGrows
  BY SameReach DEF PageOnly
<1>7. Untouchable \subseteq Untouchable'
  <2> SUFFICES ASSUME NEW r \in Untouchable
               PROVE  r \in Untouchable'
    OBVIOUS
  <2>1. r \in Requests /\ r <= lastRequest /\ r \notin Asked(session) /\ Unharmed(r)
        /\ (update.request = r => update.state \in {"exited", "broken"})
    BY DEF Untouchable
  <2>2. r <= lastRequest' /\ r # lastRequest + 1
    BY <1>1, <2>1, Numbers
  <2>3. r \notin Asked(session')
    BY <2>1, <2>2
  <2>4. Unharmed(r)' /\ (update'.request = r => update'.state \in {"exited", "broken"})
    BY <2>1 DEF Unharmed, PageOnly, update
  <2> QED
    BY <2>1, <2>2, <2>3, <2>4 DEF Untouchable
<1> QED
  BY <1>2, <1>3, <1>5, <1>6, <1>7, ReachGrowsIs DEF HostStep, Grows, More

LEMMA OwnerSteps ==
    ASSUME HostTrue, PanelTrue, MailTrue, PagesTrue, NEW p \in Pages, Owner(p)
    PROVE  Step /\ Turns(p)
<1> DEFINE pg == pages[p]
           r == lastRequest + 1
<1>1. PageTrue(pg, Ends, Untouchable, Builds)
  BY PageIs
<1>2. ASSUME NEW step, StepTrue(step, pg, Ends, Untouchable, Builds),
             step.emit.kind = "apply" => step.emit.request = r,
             Does(p, step), NewRequest
      PROVE  Step /\ Turns(p)
  <2>1. lastRequest \in Nat /\ Asked(session) \subseteq 1..lastRequest
    BY PanelUpdateAssumption DEF HostTrue, Typed, Once
  <2>2. r \notin Asked(session)
    BY <2>1
  <2>3. mail[p] \in Seq(Messages(Ends, Untouchable))
    BY DEF MailTrue
  <2> HIDE DEF r
  <2>4. /\ SessionTrue(session', Ends, Untouchable)
        /\ mail' \in [Pages -> Seq(Messages(Ends, Untouchable))]
        /\ Asked(session') \subseteq Asked(session) \cup {step.emit.request}
        /\ step.emit.kind # "apply" => Asked(session') \subseteq Asked(session)
        /\ Turns(p)
    BY <1>2, <2>2, <2>3, PerformsTrue DEF Does, PanelTrue
  <2>5. Asked(session') \subseteq Asked(session) \cup {r}
    BY <1>2, <2>4
  <2>6. HostStep
    BY <1>2, <2>5, NumberHost DEF r, NewRequest, Does
  <2> QED
    BY <2>4, <2>6 DEF Step
<1>3. CASE NewRequest /\ Checkable(pg) /\ Does(p, Check(pg, r))
  <2>1. r \in Ids
    BY <1>3, PanelUpdateAssumption DEF NewRequest, HostTrue, Typed, Ids, Requests
  <2> DEFINE step == Check(pg, r)
  <2>2. Mild(step, pg, Ends, Untouchable, Builds)
    <3> HIDE DEF r
    <3> QED
      BY <1>1, <1>3, <2>1, CheckTrue
  <2> HIDE DEF step
  <2>3. StepTrue(step, pg, Ends, Untouchable, Builds) /\ step.emit.kind # "apply"
    BY <2>2 DEF Mild
  <2> QED
    BY <1>2, <1>3, <2>3 DEF step
<1>4. CASE NewRequest /\ Submittable(pg, expired) /\ Does(p, Submit(pg, r))
  <2>1. r \in Ids
    BY <1>4, PanelUpdateAssumption DEF NewRequest, HostTrue, Typed, Ids, Requests
  <2> DEFINE step == Submit(pg, r)
  <2>2. StepTrue(step, pg, Ends, Untouchable, Builds) /\ step.emit.request = r
    <3> HIDE DEF r
    <3> QED
      BY <1>1, <1>4, <2>1, SubmitTrue
  <2> HIDE DEF step
  <2> QED
    BY <1>2, <1>4, <2>2 DEF step
<1>5. ASSUME NEW step, Mild(step, pg, Ends, Untouchable, Builds),
             Does(p, step), lastRequest' = lastRequest
      PROVE  Step /\ Turns(p)
  BY <1>5, DoesMild
<1>6. CASE Confirmable(pg) /\ Does(p, Confirm(pg)) /\ lastRequest' = lastRequest
  BY <1>1, <1>5, <1>6, ConfirmTrue, QuietIsMild
<1>7. CASE Dismissable(pg) /\ Does(p, Dismiss(pg)) /\ lastRequest' = lastRequest
  BY <1>1, <1>5, <1>7, DismissTrue
<1>8. CASE Closable(pg) /\ Does(p, Close(pg)) /\ lastRequest' = lastRequest
  BY <1>1, <1>5, <1>8, CloseTrue, QuietIsMild
<1>9. CASE Cancellable(pg) /\ Does(p, Cancel(pg)) /\ lastRequest' = lastRequest
  BY <1>1, <1>5, <1>9, CancelTrue
<1> QED
  BY <1>3, <1>4, <1>6, <1>7, <1>8, <1>9 DEF Owner

LEMMA PageSteps ==
    ASSUME HostTrue, PanelTrue, MailTrue, PagesTrue, NEW p \in Pages, PageNext(p)
    PROVE  Step /\ Turns(p)
BY ReceiveSteps, AckLostSteps, TurnSteps, LoadSteps, BreaksSteps, OwnerSteps DEF PageNext

----------------------------------------------------------------------------
(* The whole                                                                *)

\* No page changes, or one does and says nothing that is not so.
NextTrue == Step /\ (pages' = pages \/ \E p \in Pages : Turns(p))

LEMMA AnyStep ==
    ASSUME PanelInv, [Next]_vars
    PROVE  NextTrue
<1> USE DEF PanelInv
<1>1. CASE HelperNext
  BY <1>1, HelperSteps DEF NextTrue
<1>2. CASE PanelNext
  BY <1>2, PanelSteps DEF NextTrue
<1>3. CASE \E p \in Pages : PageNext(p)
  BY <1>3, PageSteps DEF NextTrue
<1>4. CASE UNCHANGED vars
  <2>1. HostStep
    BY <1>4, SameHost DEF Quieter, vars
  <2> QED
    BY <1>4, <2>1 DEF Step, NextTrue, PanelTrue, MailTrue, vars
<1> QED
  BY <1>1, <1>2, <1>3, <1>4 DEF Next

LEMMA NextKeeps ==
    ASSUME PanelInv, NextTrue
    PROVE  PanelInv'
<1>1. HostTrue' /\ Grows
  BY DEF NextTrue, Step, HostStep
<1>2. More(Ends, Untouchable, Ends', Untouchable') /\ Builds \subseteq Builds'
  BY <1>1 DEF Grows
<1>3. PanelTrue'
  <2>1. SessionTrue(session', Ends, Untouchable)
    BY DEF NextTrue, Step
  <2>2. SessionTrue(session', Ends', Untouchable')
    BY <1>2, <2>1, MoreTrue
  <2> QED
    BY <2>2 DEF PanelTrue
<1>4. MailTrue'
  <2> DEFINE was == Messages(Ends, Untouchable)
             now == Messages(Ends', Untouchable')
  <2>1. was \subseteq now
    BY <1>2, MoreTrue
  <2>2. mail' \in [Pages -> Seq(was)]
    BY DEF NextTrue, Step
  <2>3. mail' \in [Pages -> Seq(now)]
    <3> HIDE DEF was, now
    <3>1. Seq(was) \subseteq Seq(now)
      BY <2>1
    <3> QED
      BY <2>2, <3>1
  <2> QED
    BY <2>3 DEF MailTrue
<1>5. PagesTrue'
  <2>1. DOMAIN pages' = Pages
        /\ \A p \in Pages : PageTrue(pages'[p], Ends, Untouchable, Builds)
    BY DEF NextTrue, Turns, PanelInv, PagesTrue
  <2>2. \A p \in Pages : PageTrue(pages'[p], Ends', Untouchable', Builds')
    BY <1>2, <2>1, MorePageTrue
  <2> QED
    BY <2>1, <2>2 DEF PagesTrue
<1> QED
  BY <1>1, <1>3, <1>4, <1>5 DEF PanelInv

LEMMA InitIs == Init => PanelInv
<1> SUFFICES ASSUME Init
             PROVE  PanelInv
  OBVIOUS
<1> USE DEF Init
<1>1. MaxRequests \in Nat
  BY PanelUpdateAssumption
<1>2. update = NoHelper /\ NoHelper \in HelperT
  BY NoHelperIs DEF update, Kinds
<1>3. SessionTrue(session, Ends, Untouchable) /\ Asked(session) = {}
  BY NewSessionTrue
<1>4. journal.request = None /\ journal.phase = "none" /\ previous = None
  BY DEF NoJournal
<1>5. Typed
  <2>1. journal \in [request : Ids, phase : PhaseNames]
    BY Phases, Numbers DEF NoJournal
  <2> QED
    BY <1>1, <1>2, <2>1, Numbers DEF Typed, Versions, None
<1>6. Once
  BY <1>1, <1>2, <1>3, <1>4, NoHelperIs DEF Once, Begun, None
<1>7. HelperTrue
  BY <1>2, NoHelperIs DEF HelperTrue, Attained, Spared
<1>8. JournalTrue /\ Progress
  BY <1>4 DEF JournalTrue, Progress, Attained
<1>9. MailTrue
  <2> DEFINE M == Messages(Ends, Untouchable)
  <2> HIDE DEF M
  <2>1. <<>> \in Seq(M)
    OBVIOUS
  <2> QED
    BY <2>1 DEF MailTrue, M
<1>10. PagesTrue
  <2> DEFINE pg == Boot(Closed(NoRecord), "old")
  <2>1. PageTrue(pg, Ends, Untouchable, Builds)
    <3>1. Closed(NoRecord).saved = NoRecord
      BY DEF Closed
    <3> QED
      BY <3>1, NoRecordIs, BootTrue, Texts DEF NoRecord
  <2> HIDE DEF pg
  <2> QED
    BY <2>1 DEF PagesTrue, pg
<1> QED
  BY <1>3, <1>5, <1>6, <1>7, <1>8, <1>9, <1>10 DEF PanelInv, HostTrue, PanelTrue

\* Whatever the panel has in memory, has sent or shows of an update is true of the
\* host, whichever helper, panel or page ends in between (panel-update.ts and
\* panel-update-machine.ts together).
THEOREM PanelInvariant == Spec => []PanelInv
<1>1. PanelInv /\ [Next]_vars => PanelInv'
  BY AnyStep, NextKeeps
<1> QED
  BY <1>1, InitIs, PTL DEF Spec

\* I1 of docs/panel-update-statechart.md: the outcome a page shows is what became of
\* that update, and where it says that nothing changed the panel was not stopped
\* for it (OUTCOME_KINDS and judge of panel-update-machine.ts).
THEOREM OutcomesHonest == Spec => []OutcomeHonest
<1>1. PanelInv => OutcomeHonest
  <2> SUFFICES ASSUME PanelInv, NEW p \in Pages, pages[p].node.name = "outcome"
               PROVE  LET n == pages[p].node IN
                      /\ n.sub = "updated" => "success" \in reached[n.request]
                      /\ n.sub = "rolled-back" => "recovered" \in reached[n.request]
                      /\ n.sub = "recovery-required" => n.sub \in reached[n.request]
                      /\ n.sub = "not-changed" => n.request \notin touched
    BY DEF OutcomeHonest
  <2> DEFINE n == pages[p].node
  <2>1. NodeTrue(n, Ends, Untouchable) /\ n.request \in Ids
    BY PageIs, Fields DEF PanelInv, PageTrue, NodeT
  <2>2. \A f : f \in Ends[n.request] => f \in reached[n.request]
    BY <2>1, Numbers DEF Ends
  <2>3. n.request \in Untouchable => n.request \notin touched
    BY DEF Untouchable, Unharmed
  <2> QED
    BY <2>1, <2>2, <2>3 DEF NodeTrue
<1> QED
  BY <1>1, PanelInvariant, PTL

\* A page that shows an update as installed has loaded the new build, unless a
\* success was undone on the host (rows 19, 26 and 28: save, reload, confirm).
THEOREM ShownByItsBuild == Spec => []ShownByNewBuild
<1>1. PanelInv => ShownByNewBuild
  BY DEF PanelInv, PagesTrue, PageTrue, ShownByNewBuild, Builds
<1> QED
  BY <1>1, PanelInvariant, PTL

\* The phase a page follows never goes back, whatever statuses of two panels arrive
\* late and across a reload (row 16: advance of panel-update-machine.ts).
THEOREM PhasesForward == Spec => PhaseForward
<1>1. PanelInv /\ [Next]_vars =>
        [\A p \in Pages :
           LET was == pages[p].saved
               now == pages'[p].saved
           IN  was.request # None /\ now.request = was.request =>
                   PhaseRank(now.phase) >= PhaseRank(was.phase)]_vars
  <2> SUFFICES ASSUME PanelInv, NextTrue, NEW p \in Pages
               PROVE  Forward(pages[p].saved, pages'[p].saved)
    BY AnyStep DEF Forward
  <2>1. pages[p].saved \in RecordT
    BY PageIs, Fields DEF PanelInv
  <2>2. Forward(pages[p].saved, pages[p].saved)
    BY <2>1, Ranks DEF Forward, RecordT
  <2> QED
    BY <2>2 DEF NextTrue, Turns
<1> QED
  BY <1>1, PanelInvariant, PTL DEF Spec, PhaseForward
=============================================================================
