---------------------------- MODULE PanelUpdate ----------------------------
(***************************************************************************)
(* A panel that updates itself while pages watch.                          *)
(*                                                                         *)
(* Three parties: the helpers, containers that run the updater and outlive *)
(* the panel; the panel process (backend/panel-update.ts), which starts    *)
(* them, derives a status from their output and from the journal on the    *)
(* host, and pushes it; and the pages (PanelPage), which lose the panel in *)
(* the middle of what they follow.                                         *)
(*                                                                         *)
(* The helper of an update walks the journal phases of UpdatePhases, the   *)
(* abstract updater that Updater is shown to implement.                    *)
(***************************************************************************)
EXTENDS PanelPage, FiniteSets, FiniteSetsExt

CONSTANTS Pages,        \* browser tabs of owners
          MaxRequests,  \* request ids the pages generate
          MaxAsks,      \* status requests of one page without an answer
          MaxTroubles   \* cancelled updates, lost connections, reloads by the
                        \* user, deadlines that pass although an answer is on
                        \* its way, and everything that goes wrong

ASSUME PanelUpdateAssumption == MaxRequests \in Nat

Requests == 1..MaxRequests
Kinds == {"preview", "apply"}
Versions == {"old", "new"}

VARIABLES
    helper,     \* the helper container of each kind; its name is fixed
    journal,    \* operation.json on the host
    previous,   \* the update of previous.json: a rollback undoes it
    up,         \* whether the panel's container runs
    version,    \* the version it runs, or would run
    session,    \* what the panel process has in memory
    conn,       \* pages with a socket the panel knows
    mail,       \* what the panel sent to each page
    due,        \* acknowledgements each page waits for
    pages,      \* the state of each page, PanelPage
    expired,    \* dry runs that finished too long ago
    touched,    \* updates for which the panel was stopped
    reached,    \* final phases ever reached by each update
    disowned,   \* updates a page reported as not started
    lastRequest, troubles

host == <<helper, journal, previous, up, version, touched, reached>>
net  == <<conn, mail, due>>
vars == <<helper, journal, previous, up, version, session, conn, mail, due, pages,
          expired, touched, reached, disowned, lastRequest, troubles>>

NoHelper == [request |-> None, from |-> "none", state |-> "none",
             phase |-> "none", result |-> "none", exit |-> "none",
             noChange |-> FALSE, term |-> FALSE]
NoJournal == [request |-> None, phase |-> "none"]

(* A request on its way to the panel or in one of its handlers.              *)
Call(p, kind, request, preview) ==
    [page |-> {p}, kind |-> kind, request |-> request, preview |-> preview,
     step |-> "sent"]

(* A read of the status in progress and who waits for it.                    *)
NoReading == [step |-> "no", status |-> NoStatus, waiters |-> {}]
NewSession ==
    [queue |-> <<>>, calls |-> {}, reading |-> NoReading,
     refresh |-> TRUE, follow |-> {},
     published |-> NoStatus]

Init ==
    /\ helper = [k \in Kinds |-> NoHelper]
    /\ journal = NoJournal /\ previous = None
    /\ up = TRUE /\ version = "old"
    /\ session = NewSession
    /\ conn = {} /\ mail = [p \in Pages |-> <<>>] /\ due = [p \in Pages |-> {}]
    /\ pages = [p \in Pages |-> Boot(Closed(NoRecord), "old")]
    /\ expired = {} /\ touched = {} /\ disowned = {}
    /\ reached = [r \in Requests |-> {}]
    /\ lastRequest = None /\ troubles = 0

Trouble   == troubles < MaxTroubles /\ troubles' = troubles + 1
NoTrouble == troubles' = troubles

----------------------------------------------------------------------------
(* The status, derived from the helpers and the journal *)

Successful == {"previewed", "success", "no-change"}

(* A success counts only when the panel that answers is the target.          *)
Confirmed(outcome, v) ==
    IF outcome = "success" /\ v # "new" THEN "unknown" ELSE outcome

FromResultLine(h, v) ==
    IF (h.result \in Successful) # (h.exit = "zero") THEN "unknown"
    ELSE Confirmed(h.result, v)

(* The journal speaks for the helper only when it is about its operation.    *)
JournalBelongs(h, j) == j.request = h.request
FromJournalMutant(j, v) ==
    IF j.phase \in FinalPhases THEN Confirmed(j.phase, v)
    ELSE "failed-before-cutover"
FromJournal(j, v) ==
    IF j.phase \in FinalPhases THEN Confirmed(j.phase, v) ELSE "unknown"

Furthest(a, b) == IF PhaseRank(b) >= PhaseRank(a) THEN b ELSE a

Derive(kind, h, j, v) ==
    LET runs == h.state \in {"created", "running"}
        journaled == h.result = "none" /\ kind = "apply" /\ JournalBelongs(h, j)
    IN  [request |-> h.request, kind |-> kind, running |-> runs,
         phase |-> IF ~runs /\ h.state # "broken" /\ journaled
                   THEN Furthest(h.phase, j.phase) ELSE h.phase,
         outcome |-> CASE runs -> "none"
                       [] h.state = "broken" -> "refused"
                       [] h.state = "exited" /\ h.result # "none" ->
                            FromResultLine(h, v)
                       [] OTHER -> IF journaled THEN FromJournal(j, v)
                                   ELSE "unknown"]

(* operationOf: the update before the dry run.                               *)
StatusWith(j) ==
    [version |-> version,
     op |-> CASE helper["apply"].state # "none" ->
                   Derive("apply", helper["apply"], j, version)
              [] helper["apply"].state = "none"
                   /\ helper["preview"].state # "none" ->
                   Derive("preview", helper["preview"], j, version)
              [] OTHER -> NoOperation]

(* observe reads: Docker may not answer, nor the helper that reads the       *)
(* journal.                                                                  *)
Readings == {Unreadable, StatusWith(journal), StatusWith(NoJournal)}
Reads(status) ==
    \/ status = StatusWith(journal) /\ NoTrouble
    \/ status \in {Unreadable, StatusWith(NoJournal)} /\ Trouble

----------------------------------------------------------------------------
(* The panel's memory and its messages *)

PushOf(status) == [type |-> "push", kind |-> "status", request |-> None,
                   status |-> status, error |-> "none"]
Ack(call, status, error) ==
    [type |-> "ack", kind |-> call.kind, request |-> call.request,
     status |-> status, error |-> error]

(* refreshLater: a refresh is due; the ones that are folded into a running   *)
(* one give another round.                                                   *)
RefreshDue(s) == [s EXCEPT !.refresh = TRUE]

(* A line of a helper that is followed, and the end of its output.           *)
Printed(request) ==
    session' = IF up /\ request \in session.follow THEN RefreshDue(session)
               ELSE session
ClosesMutant(request) ==
    session' = [session EXCEPT !.follow = @ \ {request}]
Closes(request) ==
    session' = IF up /\ request \in session.follow
               THEN RefreshDue([session EXCEPT !.follow = @ \ {request}])
               ELSE session

(* A page has read what the panel sent before the panel sends more.          *)
Fits == \A p \in Pages : mail'[p] # mail[p] => mail[p] = <<>>

(* observe announces a status that changed, then the callers are answered.   *)
(* The output of a helper that ended meanwhile ends at once.                 *)
Alive(request) ==
    \E k \in Kinds : helper[k].request = request
                       /\ helper[k].state \in {"created", "running"}
Observed(s, status) ==
    LET said == [s EXCEPT !.published = status]
        r == status.op.request
    IN  CASE status = Unreadable -> s
          [] status # Unreadable /\ ~status.op.running -> said
          [] OTHER -> IF Alive(r) THEN [said EXCEPT !.follow = @ \cup {r}]
                      ELSE RefreshDue(said)
Pushed(status) ==
    [p \in Pages |-> IF status \in {Unreadable, session.published}
                          \/ p \notin conn THEN mail[p]
                     ELSE Append(mail[p], PushOf(status))]
Deliver(status, answered) ==
    /\ mail' = [p \in Pages |->
                 Pushed(status)[p] \o
                   SetToSeq({Ack(c, status, "none") :
                               c \in {d \in answered : p \in d.page}})]
    /\ Fits

Fail(call, error) ==
    /\ mail' = [p \in Pages |-> IF p \in call.page
                                THEN Append(mail[p], Ack(call, NoStatus, error))
                                ELSE mail[p]]
    /\ Fits

----------------------------------------------------------------------------
(* The panel process ends: what it had in memory is gone and its sockets are *)
(* closed.  A docker run it had begun may still go through.                  *)

Head1 == Head(session.queue)
Launching == session.queue # <<>> /\ Head1.step = "run"

Launched(call) ==
    [NoHelper EXCEPT !.request = call.request, !.from = version,
                     !.state = "running"]
(* docker run outlives the client that asked for it.                         *)
LaunchSurvives(h) ==
    \/ helper' = h
    \/ Launching /\ h[Head1.kind].state = "none"
         /\ helper' = [h EXCEPT ![Head1.kind] = Launched(Head1)]

PanelEnds ==
    /\ session' = NewSession
    /\ conn' = {}
    /\ mail' = [p \in Pages |-> <<>>]
    /\ UNCHANGED <<due, pages>>

PanelStays == UNCHANGED <<conn, mail, due, pages>>

----------------------------------------------------------------------------
(* The helper of an update: the updater, see UpdatePhases *)

update == helper["apply"]
Walks == update.state = "running"
InPhase(phase) == Walks /\ update.phase = phase
                    /\ (phase # "none" => journal.request = update.request
                                            /\ journal.phase = phase)

Runs(v) == up /\ version = v

(* The phases that accept the next update; the others are refused.           *)
Settling == {"success", "recovered", "failed-before-cutover"}

(* What the updater may write next.  "prepared" to "success" is the release  *)
(* that is installed already.                                                *)
MayWrite(phase) ==
    CASE phase = "prepared" ->
           InPhase("none") /\ ~update.term /\ journal.phase \in Settling \cup {"none"}
      [] phase = "downloaded" ->
           InPhase("prepared") /\ ~update.term /\ Runs("old")
      [] phase = "stopping" -> InPhase("downloaded") /\ ~update.term
      [] phase = "success" ->
           (InPhase("stopping") \/ InPhase("prepared")) /\ Runs("new")
      [] phase = "failed-before-cutover" ->
           InPhase("prepared") \/ InPhase("downloaded")
      [] phase = "recovered" -> InPhase("stopping") /\ Runs("old")
      [] phase = "recovery-required" -> InPhase("stopping")
      [] OTHER -> FALSE

Journals(phase) ==
    /\ journal' = [request |-> update.request, phase |-> phase]
    /\ previous' = IF phase = "success" /\ update.phase = "stopping"
                   THEN update.request ELSE previous
    /\ reached' = [reached EXCEPT ![update.request] =
                     IF phase \in FinalPhases THEN @ \cup {phase} ELSE @]

(* writeJournal: the journal, then one line.                                 *)
Writes(phase) ==
    /\ MayWrite(phase)
    /\ Journals(phase)
    /\ helper' = [helper EXCEPT
                    !["apply"].phase = phase,
                    !["apply"].noChange = phase = "success" /\ update.phase = "prepared"]
    /\ Printed(update.request)
    /\ PanelStays
    /\ UNCHANGED <<up, version, touched, expired, disowned, lastRequest, troubles>>

StopPanel ==
    /\ up
    /\ InPhase("stopping")
    /\ update.request \notin touched \/ version = "new"
    /\ up' = FALSE
    /\ touched' = touched \cup {update.request}
    /\ LaunchSurvives(helper)
    /\ PanelEnds
    /\ UNCHANGED <<journal, previous, version, reached, expired, disowned,
                   lastRequest, troubles>>

(* Only recovery brings the previous version back.                           *)
StartPanel(v) ==
    /\ ~up /\ InPhase("stopping")
    /\ v = "new" => version = "old"
    /\ up' = TRUE /\ version' = v
    /\ session' = NewSession
    /\ PanelStays
    /\ UNCHANGED <<helper, journal, previous, touched, reached, expired, disowned,
                   lastRequest, troubles>>

(* The result line, from the last phase of this run, then the exit code.     *)
ResultOf(h) ==
    CASE h.phase = "none" -> "refused"
      [] h.noChange -> "no-change"
      [] h.phase \in FinalPhases /\ ~h.noChange -> h.phase
      [] OTHER -> "recovery-required"

(* The result line and the exit; the panel hears of both when it follows.    *)
Exits(kind, result, code) ==
    /\ helper' = [helper EXCEPT ![kind].state = "exited", ![kind].exit = code,
                                ![kind].result = result]
    /\ Closes(helper[kind].request)
    /\ PanelStays
    /\ UNCHANGED <<up, version, touched, expired, disowned, lastRequest>>
Finishes(kind, result) ==
    /\ Exits(kind, result, IF result \in Successful THEN "zero" ELSE "one")
    /\ reached' = [reached EXCEPT ![helper[kind].request] =
                     IF result = "recovery-required" THEN @ \cup {result} ELSE @]
    /\ UNCHANGED <<journal, previous>>

(* A journal that cannot be written ends the run on a phase that is not      *)
(* final.                                                                    *)
UpdateEnds ==
    /\ Walks
    /\ \/ update.phase \in FinalPhases \cup {"none"} /\ NoTrouble
       \/ update.phase = "stopping" /\ Trouble
    /\ Finishes("apply", ResultOf(update))

PreviewEnds ==
    /\ helper["preview"].state = "running"
    /\ \E result \in {"previewed", "refused"} :
         /\ result = "previewed" => ~helper["preview"].term
         /\ Finishes("preview", result)
    /\ NoTrouble

(* A kill, a power cut, a full disk; the last write may have no line yet,    *)
(* and the result line may be out before the exit.                           *)
HelperDies(kind) ==
    /\ helper[kind].state = "running" /\ Trouble
    /\ \/ Exits(kind, "none", "killed") /\ UNCHANGED <<journal, previous, reached>>
       \/ kind = "apply" /\ update.phase \in FinalPhases
            /\ Exits(kind, ResultOf(update), "killed")
            /\ UNCHANGED <<journal, previous, reached>>
       \/ kind = "apply" /\ Exits(kind, "none", "killed")
            /\ \E phase \in PhaseNames : MayWrite(phase) /\ Journals(phase)

(* A container that docker run left behind starts after all, or never.       *)
HelperStarts(kind) ==
    /\ helper[kind].state = "created"
    /\ \/ /\ helper' = [helper EXCEPT ![kind].state = "running"]
          /\ Printed(helper[kind].request)
       \/ /\ helper' = [helper EXCEPT ![kind].state = "broken"]
          /\ Closes(helper[kind].request)
    /\ PanelStays
    /\ UNCHANGED <<journal, previous, up, version, touched, reached, expired,
                   disowned, lastRequest, troubles>>

(* The result authorises an update for ten minutes.                          *)
PreviewExpires ==
    /\ helper["preview"].state = "exited"
    /\ helper["preview"].request \notin expired
    /\ expired' = expired \cup {helper["preview"].request}
    /\ Trouble
    /\ PanelStays
    /\ UNCHANGED <<helper, journal, previous, up, version, touched, reached,
                   session, disowned, lastRequest>>

(* An operator on the host ends the operation that the journal left open, or *)
(* undoes the last update that succeeded; the command is one step here.      *)
HostCommand ==
    /\ ~Walks /\ Trouble
    /\ \E phase \in Settling, request \in {journal.request, previous} \ {None} :
         /\ CASE phase = "failed-before-cutover" ->
                   request = journal.request /\ journal.phase \in {"prepared", "downloaded"}
              [] phase # "failed-before-cutover"
                   /\ journal.phase \in {"stopping", "recovery-required"} ->
                   request = journal.request
              [] OTHER -> phase = "recovered" /\ journal.phase \in Settling
                            /\ request = previous
         /\ journal' = [request |-> request, phase |-> phase]
         /\ reached' = [reached EXCEPT ![request] = @ \cup {phase}]
         /\ previous' = IF phase = "success" THEN request ELSE previous
         /\ IF phase = "failed-before-cutover"
            THEN UNCHANGED <<helper, up, version, touched, session, conn, mail,
                             due, pages>>
            ELSE /\ up' = TRUE
                 /\ version' = IF phase = "success" THEN "new" ELSE "old"
                 /\ touched' = touched \cup {request}
                 /\ LaunchSurvives(helper)
                 /\ PanelEnds
    /\ UNCHANGED <<expired, disowned, lastRequest>>

(* The panel's container restarts by itself.                                 *)
PanelRestarts ==
    /\ up /\ Trouble
    /\ LaunchSurvives(helper)
    /\ PanelEnds
    /\ UNCHANGED <<journal, previous, up, version, touched, reached, expired,
                   disowned, lastRequest>>

HelperNext ==
    \/ \E phase \in PhaseNames : Writes(phase)
    \/ StopPanel
    \/ \E v \in Versions : StartPanel(v)
    \/ UpdateEnds \/ PreviewEnds \/ PreviewExpires
    \/ \E kind \in Kinds : HelperDies(kind) \/ HelperStarts(kind)
    \/ HostCommand \/ PanelRestarts

----------------------------------------------------------------------------
(* The panel process *)

PanelOnly == /\ up
             /\ UNCHANGED <<journal, previous, up, version, touched, reached,
                            conn, due, pages, expired, disowned, lastRequest>>
HostSame == UNCHANGED helper

Without(s, call) == [s EXCEPT !.calls = @ \ {call}]
Moved(s, call, step) ==
    [s EXCEPT !.calls = (@ \ {call}) \cup {[call EXCEPT !.step = step]}]
Enqueued(s, call) ==
    [Without(s, call) EXCEPT !.queue = Append(@, [call EXCEPT !.step = "check"])]
JobAt(step) == session.queue # <<>> /\ Head1.step = step
JobMoves(step) == session' = [session EXCEPT !.queue[1].step = step]
JobDone(s) == [s EXCEPT !.queue = Tail(@)]
JobFails(error) == Fail(Head1, error) /\ session' = JobDone(session)

(* Callers that ask at the same time share one reading.                      *)
JoinReading(call) ==
    /\ call.kind = "status" /\ call.step = "sent"
    /\ session' = [Without(session, call) EXCEPT
                     !.reading.waiters = @ \cup {call},
                     !.reading.step = IF @ = "no" THEN "wait" ELSE @]
    /\ NoTrouble /\ UNCHANGED mail

(* One action at a time; the password of an update is checked before.        *)
QueueAction(call) ==
    /\ call.kind \in {"preview", "apply", "dismiss"} /\ call.step = "sent"
    /\ \/ session' = Enqueued(session, call) /\ UNCHANGED mail
       \/ call.kind = "apply" /\ Fail(call, "password")
            /\ session' = Without(session, call)
    /\ NoTrouble

Refresh ==
    /\ session.refresh
    /\ \E status \in Readings :
         /\ Reads(status)
         /\ Deliver(status, {})
         /\ session' = [Observed(session, status) EXCEPT !.refresh = FALSE]

StatusRead ==
    /\ session.reading.step = "wait"
    /\ \E status \in Readings :
         /\ Reads(status)
         /\ session' = [session EXCEPT !.reading.step = "read",
                                       !.reading.status = status]
    /\ UNCHANGED mail

StatusEnds ==
    /\ session.reading.step = "read"
    /\ Deliver(session.reading.status, session.reading.waiters)
    /\ session' = [Observed(session, session.reading.status) EXCEPT
                     !.reading = NoReading]
    /\ NoTrouble

Exists(kind) == helper[kind].state # "none"
Busy(kind) == helper[kind].state \in {"created", "running"}
Removed(kind) == helper' = [helper EXCEPT ![kind] = NoHelper]

FreshPreview(call) ==
    LET h == helper["preview"] IN
    /\ h.request = call.preview /\ h.state = "exited" /\ h.from = version
    /\ Derive("preview", h, NoJournal, version).outcome = "previewed"
    /\ h.request \notin expired

(* requireManaged and requireRecord: Docker did not answer.                  *)
JobUnreadable ==
    /\ JobAt("check") /\ Trouble
    /\ JobFails("unreadable")
    /\ HostSame

PreviewCheck ==
    /\ JobAt("check") /\ Head1.kind = "preview" /\ NoTrouble
    /\ IF Exists("apply") \/ Busy("preview")
       THEN JobFails("busy") /\ HostSame
       ELSE JobMoves("run") /\ Removed("preview") /\ UNCHANGED mail

(* A finished update is a result somebody has to see.                        *)
ApplyCheck ==
    /\ JobAt("check") /\ Head1.kind = "apply" /\ NoTrouble /\ HostSame
    /\ IF Exists("apply") THEN JobFails("busy")
       ELSE IF ~FreshPreview(Head1) THEN JobFails("stale-preview")
       ELSE JobMoves("run") /\ UNCHANGED mail

DismissCheck ==
    /\ JobAt("check") /\ Head1.kind = "dismiss" /\ NoTrouble
    /\ LET own == {k \in Kinds : helper[k].request = Head1.request} IN
       IF own = {} THEN JobFails("not-found") /\ HostSame
       ELSE \E kind \in own :
              IF Busy(kind) THEN JobFails("running") /\ HostSame
              ELSE JobMoves("observe") /\ Removed(kind) /\ UNCHANGED mail

(* docker run: started (also when its client timed out), refused because of  *)
(* the fixed name, or failed with or without a container left behind.  The   *)
(* update consumes its dry run, if the removal goes through.                 *)
Launch ==
    /\ JobAt("run")
    /\ LET kind == Head1.kind
           started == [helper EXCEPT ![kind] = Launched(Head1)]
       IN  \/ Exists(kind) /\ JobFails("busy") /\ HostSame /\ NoTrouble
           \/ /\ ~Exists(kind) /\ JobMoves("observe") /\ UNCHANGED mail
              /\ \/ NoTrouble /\ helper' = IF kind = "apply"
                                        THEN [started EXCEPT !["preview"] = NoHelper]
                                        ELSE started
                 \/ Trouble /\ kind = "apply" /\ helper' = started
           \/ /\ ~Exists(kind) /\ JobFails("start-failed") /\ Trouble
              /\ \/ HostSame
                 \/ helper' = [started EXCEPT ![kind].state = "created"]

(* The reading that ends an action is delivered as it is taken; the readings *)
(* it can cross with are the shared one and the refresh.                     *)
JobAnswers ==
    /\ JobAt("observe") /\ HostSame
    /\ \E status \in Readings :
         /\ Reads(status)
         /\ Deliver(status, {Head1})
         /\ session' = JobDone(Observed(session, status))

CallFails(call, error) ==
    Fail(call, error) /\ session' = Without(session, call) /\ HostSame

(* The phase is read at this moment, not from what was pushed.               *)
TooLate(h) == h.state \notin {"created", "running"} \/ ~CanCancel(h.phase)

CancelReads(call) ==
    /\ call.kind = "cancel" /\ call.step = "sent"
    /\ LET own == {k \in Kinds : helper[k].request = call.request} IN
       \/ Trouble /\ CallFails(call, "unreadable")
       \/ NoTrouble /\ own = {} /\ CallFails(call, "not-found")
       \/ NoTrouble /\ \E kind \in own :
            IF TooLate(helper[kind]) THEN CallFails(call, "too-late")
            ELSE session' = Moved(session, call, "kill")
                   /\ HostSame /\ UNCHANGED mail

(* SIGTERM: the updater may have gone on meanwhile.                          *)
CancelKills(call) ==
    /\ call.kind = "cancel" /\ call.step = "kill" /\ NoTrouble
    /\ LET own == {k \in Kinds : helper[k].request = call.request
                                   /\ helper[k].state = "running"} IN
       IF own = {} THEN CallFails(call, "too-late")
       ELSE /\ \E kind \in own : helper' = [helper EXCEPT ![kind].term = TRUE]
            /\ session' = Moved(session, call, "observe")
            /\ UNCHANGED mail

CancelAnswers(call) ==
    /\ call.kind = "cancel" /\ call.step = "observe" /\ HostSame
    /\ \E status \in Readings :
         /\ Reads(status)
         /\ Deliver(status, {call})
         /\ session' = Without(Observed(session, status), call)

PanelNext ==
    /\ PanelOnly
    /\ \/ /\ HostSame
          /\ \/ \E call \in session.calls : JoinReading(call) \/ QueueAction(call)
             \/ Refresh \/ StatusRead \/ StatusEnds
       \/ JobUnreadable \/ PreviewCheck \/ ApplyCheck \/ DismissCheck
       \/ Launch \/ JobAnswers
       \/ \E call \in session.calls :
            CancelReads(call) \/ CancelKills(call) \/ CancelAnswers(call)

----------------------------------------------------------------------------
(* The pages *)

PageOnly ==
    UNCHANGED <<helper, journal, previous, up, version, touched, reached, expired>>

Silent(c, p) == [c EXCEPT !.page = @ \ {p}]
(* The panel has nobody to answer any more; a call it has not begun is lost  *)
(* with the connection, or was begun before.                                 *)
Deaf(s, p) ==
    [s EXCEPT !.calls = {Silent(c, p) : c \in
                           {d \in @ : ~(d.step = "sent" /\ p \in d.page)}},
              !.queue = [i \in DOMAIN @ |-> Silent(@[i], p)],
              !.reading.waiters = {c \in @ : p \notin c.page}]
(* Its acknowledgement came too late for the page.                           *)
Unheard(s, p, kind, request) ==
    LET mute(c) == IF c.kind = kind /\ c.request = request THEN Silent(c, p) ELSE c
    IN  [s EXCEPT !.calls = {mute(c) : c \in @},
                  !.queue = [i \in DOMAIN @ |-> mute(@[i])],
                  !.reading.waiters = {mute(c) : c \in @}]

FreeAsk(p) ==
    {n \in 1..MaxAsks : <<"status", n>> \notin due[p]}

(* The page performs a step: its state, and what it sends.                   *)
Performs(p, step, s, c, acked, rest) ==
    LET n == IF FreeAsk(p) = {} THEN None ELSE Min(FreeAsk(p))
        asks == IF step.ask = "no" THEN {} ELSE {Call(p, "status", n, None)}
        emits == IF step.emit = NoEmit THEN {}
                 ELSE {Call(p, step.emit.kind, step.emit.request,
                            step.emit.preview)}
        calls == asks \cup emits
    IN  /\ step.ask # "no" => FreeAsk(p) # {}
        /\ pages' = [pages EXCEPT ![p] =
                       [step.page EXCEPT !.probe = IF step.ask = "probe" THEN n
                                                   ELSE @]]
        /\ IF step.page.open
           THEN /\ session' = IF p \in c
                              THEN [s EXCEPT !.calls = @ \cup calls] ELSE s
                /\ due' = [due EXCEPT ![p] = (@ \ acked) \cup
                             {<<call.kind, call.request>> : call \in calls}]
                /\ mail' = [mail EXCEPT ![p] = rest]
                /\ conn' = c
           ELSE /\ session' = Deaf(s, p)
                /\ due' = [due EXCEPT ![p] = {}]
                /\ mail' = [mail EXCEPT ![p] = <<>>]
                /\ conn' = c \ {p}

Does(p, step) ==
    /\ Performs(p, step, session, conn, {}, mail[p])
    /\ PageOnly
    /\ UNCHANGED disowned

(* Nothing is on its way to the page and its panel has nothing to do.        *)
Idle(p) ==
    /\ mail[p] = <<>> /\ session.calls = {} /\ session.queue = <<>>
    /\ session.reading.step = "no" /\ ~session.refresh
Late(p) == IF p \notin conn \/ Idle(p) THEN NoTrouble ELSE Trouble

(* A page says an update was not started: row 14.                            *)
Disowns(p, m, step) ==
    pages[p].node.name = "running" /\ pages[p].node.sub = "submitting"
      /\ m.type = "ack" /\ m.kind = "status"
      /\ step.page.node.name \in {"idle", "preview"}

Receive(p) ==
    /\ mail[p] # <<>>
    /\ LET m == Head(mail[p])
           key == <<m.kind, m.request>>
           step == IF m.type = "push"
                   THEN Push(pages[p], m.status, expired)
                   ELSE OnAck(pages[p], m, expired)
       IN  /\ m.type = "push" \/ key \in due[p]
           /\ Performs(p, step, session, conn, {key}, Tail(mail[p]))
           /\ disowned' = IF Disowns(p, m, step)
                          THEN disowned \cup {pages[p].node.request}
                          ELSE disowned
    /\ PageOnly
    /\ UNCHANGED <<lastRequest, troubles>>

(* An acknowledgement that did not come in time, or never will.              *)
Answering(p, key) ==
    \E call \in session.calls \cup ToSet(session.queue)
                 \cup session.reading.waiters :
        p \in call.page /\ key = <<call.kind, call.request>>
AckLost(p) ==
    /\ \E key \in due[p] :
         /\ IF Answering(p, key) THEN Trouble ELSE NoTrouble
         /\ \A i \in DOMAIN mail[p] : key # <<mail[p][i].kind, mail[p][i].request>>
         /\ LET lost == [kind |-> key[1], request |-> key[2],
                         status |-> NoStatus, error |-> "lost"]
            IN  Performs(p, OnAck(pages[p], lost, expired),
                         Unheard(session, p, key[1], key[2]), conn, {key},
                         mail[p])
    /\ PageOnly
    /\ UNCHANGED <<disowned, lastRequest>>

Clock(p) ==
    /\ TickEnabled(pages[p], expired)
    /\ Does(p, Tick(pages[p]))
    /\ Late(p)
    /\ UNCHANGED lastRequest

Disconnected(p) ==
    /\ p \notin conn /\ pages[p].link = "online"
    /\ Does(p, LinkDown(pages[p]))
    /\ UNCHANGED <<lastRequest, troubles>>

Connected(p) ==
    /\ up /\ p \notin conn /\ pages[p].open /\ pages[p].link # "online"
    /\ Performs(p, LinkUp(pages[p]), session, conn \cup {p}, {}, <<>>)
    /\ PageOnly
    /\ UNCHANGED <<disowned, lastRequest, troubles>>

(* A page that reloads comes back with the build of the panel that answers.  *)
Load(p) ==
    /\ ~pages[p].open /\ up
    /\ pages' = [pages EXCEPT ![p] = Boot(@, version)]
    /\ PageOnly
    /\ UNCHANGED <<session, net, disowned, lastRequest, troubles>>

(* The connection breaks, the session ends, or the user reloads.             *)
Breaks(p) ==
    /\ p \in conn /\ Trouble
    /\ session' = Deaf(session, p)
    /\ conn' = conn \ {p} /\ mail' = [mail EXCEPT ![p] = <<>>]
    /\ \/ pages' = [pages EXCEPT ![p] = LinkDown(@).page] /\ UNCHANGED due
       \/ pages' = [pages EXCEPT ![p] = AuthLost(@).page] /\ UNCHANGED due
       \/ /\ pages' = [pages EXCEPT ![p].open = FALSE]
          /\ due' = [due EXCEPT ![p] = {}]
    /\ PageOnly
    /\ UNCHANGED <<disowned, lastRequest>>

NewRequest == lastRequest < MaxRequests /\ lastRequest' = lastRequest + 1

Owner(p) ==
    \/ /\ NewRequest /\ NoTrouble
       /\ \/ Checkable(pages[p]) /\ Does(p, Check(pages[p], lastRequest + 1))
          \/ Submittable(pages[p], expired)
               /\ Does(p, Submit(pages[p], lastRequest + 1))
    \/ /\ NoTrouble
       /\ \/ Confirmable(pages[p]) /\ Does(p, Confirm(pages[p]))
          \/ Dismissable(pages[p]) /\ Does(p, Dismiss(pages[p]))
          \/ Closable(pages[p]) /\ Does(p, Close(pages[p]))
       /\ UNCHANGED lastRequest
    \/ /\ Trouble /\ Cancellable(pages[p]) /\ Does(p, Cancel(pages[p]))
       /\ UNCHANGED lastRequest

PageNext(p) ==
    \/ pages[p].open /\ (Receive(p) \/ AckLost(p) \/ Clock(p) \/ Disconnected(p)
                           \/ Connected(p) \/ Owner(p))
    \/ Load(p) \/ Breaks(p)

Next == HelperNext \/ PanelNext \/ \E p \in Pages : PageNext(p)

Spec == Init /\ [][Next]_vars

(* The helpers walk on, Docker decides about a container it created, the     *)
(* panel serves what it was asked, and a browser delivers what arrives, gives *)
(* up on an acknowledgement, fires its timers, reconnects and loads.          *)
FairHelpers ==
    /\ WF_vars(NoTrouble /\ (UpdateEnds \/ StopPanel
                               \/ (\E phase \in PhaseNames : Writes(phase))
                               \/ (\E v \in Versions : StartPanel(v))))
    /\ WF_vars(PreviewEnds)
    /\ \A kind \in Kinds : WF_vars(HelperStarts(kind))
FairPanel ==
    /\ WF_vars(NoTrouble /\ PanelOnly /\ HostSame /\ Refresh)
    /\ WF_vars(NoTrouble /\ PanelNext)
FairPage(p) ==
    /\ WF_vars(NoTrouble /\ pages[p].open /\ Receive(p))
    /\ WF_vars(NoTrouble /\ pages[p].open /\ AckLost(p))
    /\ WF_vars(NoTrouble /\ (Disconnected(p) \/ Connected(p) \/ Load(p)))
    /\ WF_vars(NoTrouble /\ Clock(p))
Fairness == FairHelpers /\ FairPanel /\ \A p \in Pages : FairPage(p)
FairSpec == Spec /\ Fairness

----------------------------------------------------------------------------
(* Properties *)

Phase == PhaseNames
Outcomes == {"none", "previewed", "success", "no-change", "refused",
             "failed-before-cutover", "recovered", "recovery-required",
             "unknown"}
Operations == [request : Requests \cup {None}, kind : Kinds \cup {"none"},
               running : BOOLEAN, phase : PhaseNames, outcome : Outcomes]
Statuses == [version : Versions \cup {"none", "unreadable"}, op : Operations]

(* Helpers, journal, panel memory and pages stay in their ranges.            *)
TypeOK ==
    /\ helper \in [Kinds -> [request : Requests \cup {None},
                             from : Versions \cup {"none"},
                             state : {"none", "created", "running", "broken", "exited"},
                             phase : PhaseNames, result : Outcomes,
                             exit : {"none", "zero", "one", "killed"},
                             noChange : BOOLEAN, term : BOOLEAN]]
    /\ journal \in [request : Requests \cup {None}, phase : PhaseNames]
    /\ previous \in Requests \cup {None}
    /\ up \in BOOLEAN /\ version \in Versions
    /\ session.published \in Statuses /\ session.reading.status \in Statuses
    /\ session.follow \subseteq Requests
    /\ conn \subseteq Pages /\ (~up => conn = {})
    /\ \A p \in Pages :
         /\ pages[p].link \in {"online", "offline", "overdue", "need-auth"}
         /\ pages[p].node.name \in {"idle", "preview", "running", "outcome"}
         /\ pages[p].status \in Statuses
         /\ pages[p].saved.stage \in {"none", "submitting", "running", "finished"}
    /\ touched \cup disowned \cup expired \subseteq Requests
    /\ lastRequest \in 0..MaxRequests

(* I1 of docs/panel-update-statechart.md, for every outcome: what a page     *)
(* says of an update is what became of that update.  "Nothing changed" means *)
(* that the panel was not stopped for it.                                    *)
OutcomeHonest ==
    \A p \in Pages :
        LET n == pages[p].node IN
        n.name = "outcome" =>
            /\ n.sub = "updated" => "success" \in reached[n.request]
            /\ n.sub = "rolled-back" => "recovered" \in reached[n.request]
            /\ n.sub = "recovery-required" => n.sub \in reached[n.request]
            /\ n.sub = "not-changed" => n.request \notin touched

(* A page that shows the update as installed runs the new build itself: it   *)
(* reloaded into it before.  Only a host rollback of an update that had      *)
(* succeeded leaves a page of the old build that a later update confirms.    *)
Undone == \E r \in Requests : {"success", "recovered"} \subseteq reached[r]
ShownByNewBuild ==
    Undone \/ \A p \in Pages :
        LET pg == pages[p] IN
        pg.open /\ pg.node.shown = "shown" /\ ~pg.node.pending => pg.build = "new"

(* A phase is followed forward, never back, by statuses of two panels that   *)
(* arrive out of order and across a reload.                                  *)
PhaseForward ==
    [][\A p \in Pages :
         LET was == pages[p].saved
             now == pages'[p].saved
         IN  was.request # None /\ now.request = was.request =>
                 PhaseRank(now.phase) >= PhaseRank(was.phase)]_vars

(* I2 of docs/panel-update-statechart.md: what a page missed while the panel *)
(* was down comes with the status it asks for.                                *)
Told(p) == pages[p].node.name # "running"

(* Rows 28 and 29: a result kept across the reload is confirmed or withdrawn. *)
Settled(p) == ~pages[p].node.pending

(* Without a page that asks the panel learns that a helper has ended.        *)
Noticed(k) == helper[k].state = "exited" => ~session.published.op.running

(* Once the panel stays up everyone hears the end: the panel of its helpers,  *)
(* a page of the update it follows and of the result it kept over a reload    *)
(* (panel-update-machine.ts:520-565, 899-942).                                *)
OutcomeReached ==
    <>[]up => []<>((\A p \in Pages : Told(p) /\ Settled(p)) /\ \A k \in Kinds : Noticed(k))

(* Row 14 and section 5 of docs/panel-update-statechart.md: a request that   *)
(* the page reports as not started never becomes an update.                  *)
NotStartedIsFinal == \A r \in disowned : helper["apply"].request # r
====
