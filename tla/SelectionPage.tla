---------------------------- MODULE SelectionPage ----------------------------
(***************************************************************************)
(* The page of a stack (frontend/src/pages/StackInspector.vue): one        *)
(* component for every stack, so another choice changes a name under the   *)
(* requests that are on their way.  Generations (request-tracker.ts) tell  *)
(* whose an answer is, StackRun (stack-run.ts) owns the command on the     *)
(* screen, and AgentRequests (agent-requests.ts) answers every request,    *)
(* with "unknown" when the server does not.                                *)
(*                                                                         *)
(* Data shown is the stack it is about.  `details` is what getStack told   *)
(* (this.stack and this.config: services, images, ports, links), which     *)
(* another choice does not clear on an owner's page.  The page has one     *)
(* agent: a choice on another makes a new page.  Statistics, which are     *)
(* asked for with the status and in the same way, are left out.            *)
(***************************************************************************)
EXTENDS Naturals, FiniteSets

CONSTANTS
    StackNames,    \* stacks that can be chosen
    Windows,       \* windows of the availability
    MaxChoices,    \* bound on choices
    MaxRuns,       \* bound on commands
    MaxWaiting     \* requests that wait when the user does the next thing

ASSUME SelectionBoundsAssumption == {MaxChoices, MaxRuns, MaxWaiting} \subseteq Nat

VARIABLES
    screen,     \* the fields of the component, with its tracker and its StackRun
    flight,     \* requests without an answer
    owner,      \* canManageStacks
    runsBegun, editorGone   \* counted for the bound; an editor closed before its answer

screenVars == <<screen, flight, owner, runsBegun, editorGone>>

Nothing == "nothing"
NoRun == [target |-> Nothing, event |-> 0, outcome |-> Nothing]
NoWindow == 0
Blank == [status |-> Nothing, availability |-> Nothing, of |-> NoWindow,
          preview |-> Nothing, details |-> Nothing]
Request(kind, stack, generation, extra) ==
    [kind |-> kind, stack |-> stack, generation |-> generation, extra |-> extra]

SelTypeOK ==
    /\ screen.selected \in StackNames /\ screen.window \in Windows
    /\ screen.generation \in 1..(MaxChoices + 2)
    /\ {screen.hidden, screen.gone, screen.processing, screen.failed, screen.files}
         \subseteq BOOLEAN
    /\ {screen.asking, screen.timer} \subseteq 0..screen.generation
    /\ screen.run.event \in 0..MaxRuns /\ runsBegun \in 0..MaxRuns
    /\ \A r \in flight :
         /\ r.kind \in {"stack", "status", "availability", "preview", "run", "deploy"}
         /\ r.stack \in StackNames /\ r.generation \in 1..screen.generation

----------------------------------------------------------------------------
(* A step of the page is its fields and what it sends *)

Step(s) == [page |-> s, sends |-> {}]
Then(step, s, sent) == [page |-> s, sends |-> step.sends \cup sent]

\* RequestTracker
IsCurrentMutant(s, generation) == TRUE
IsCurrent(s, generation) == ~s.gone /\ generation = s.generation
AlreadyAskingMutant(s, generation) == s.asking # 0
AlreadyAsking(s, generation) == s.asking = generation

RequestServiceStatus(step, generation) ==
    LET s == step.page IN
    IF s.hidden \/ ~IsCurrent(s, generation) \/ AlreadyAsking(s, generation) THEN step
    ELSE Then(step, [s EXCEPT !.asking = generation],
              {Request("status", s.selected, generation, 0)})

RequestAvailability(step) ==
    LET s == step.page IN
    Then(step, s, {Request("availability", s.selected, s.generation, s.window)})

\* StackRun
Release(s) == [s EXCEPT !.run = NoRun]
BelongsToScreenMutant(s, target) == s.run.target # Nothing
BelongsToScreen(s, target) == s.run.target = target
Start(s, command) ==
    [s EXCEPT !.run = [target |-> s.selected, event |-> command, outcome |-> Nothing]]
Finish(s, target) ==
    [s EXCEPT !.run = [target |-> @.target, event |-> 0, outcome |-> target]]

\* A new generation: what was polled is cleared, what getStack told stays until it
\* answers again.  Who may only look is shown what the list of stacks has.
Cleared(shown) == [Blank EXCEPT !.details = shown.details]
LoadStackMutant(s, stack) ==
    Then(Step(s),
         [s EXCEPT !.selected = stack, !.generation = @ + 1, !.processing = TRUE,
                   !.failed = FALSE, !.shown = Cleared(@), !.timer = 0],
         {Request("stack", stack, s.generation + 1, 0)})
LoadStack(s, stack) ==
    LET fresh == Release([s EXCEPT
                   !.selected = stack, !.generation = @ + 1, !.processing = TRUE,
                   !.failed = FALSE, !.shown = Cleared(@), !.timer = 0])
    IN  IF owner THEN Then(Step(fresh), fresh,
                           {Request("stack", stack, fresh.generation, 0)})
        ELSE RequestAvailability(RequestServiceStatus(
               Step([fresh EXCEPT !.processing = FALSE, !.shown.details = stack]),
               fresh.generation))

Loading(s) == \E r \in flight : r.kind = "stack" /\ r.generation = s.generation

Take(step, answered) ==
    /\ screen' = step.page
    /\ flight' = (flight \ answered) \cup step.sends
    /\ UNCHANGED owner

----------------------------------------------------------------------------
(* Answers: from the server, or "unknown" after the deadline and when the    *)
(* connection is lost                                                        *)

\* A load that fails leaves the details of the stack that was shown before, with the
\* error and the button that tries again.
StackAnswersMutant(r) ==
    /\ r.kind = "stack"
    /\ IF ~IsCurrent(screen, r.generation) THEN Take(Step(screen), {r})
       ELSE Take(RequestAvailability(RequestServiceStatus(
              Step([screen EXCEPT !.processing = FALSE]), r.generation)), {r})
    /\ UNCHANGED <<runsBegun, editorGone>>
StackAnswers(r) ==
    /\ r.kind = "stack"
    /\ IF ~IsCurrent(screen, r.generation) THEN Take(Step(screen), {r})
       ELSE LET heard == [screen EXCEPT !.processing = FALSE] IN
            \/ Take(Step([heard EXCEPT !.failed = TRUE]), {r})
            \/ Take(RequestAvailability(RequestServiceStatus(
                      Step([heard EXCEPT !.shown.details = r.stack]), r.generation)), {r})
    /\ UNCHANGED <<runsBegun, editorGone>>

\* The tracker forgets its request before the answer is applied.
StatusAnswers(r) ==
    LET heard == [screen EXCEPT !.asking = IF @ = r.generation THEN 0 ELSE @] IN
    /\ r.kind = "status"
    /\ IF ~IsCurrent(heard, r.generation) THEN Take(Step(heard), {r})
       ELSE \E known \in {heard.shown.status, r.stack} :
              Take(Step([heard EXCEPT !.shown.status = known,
                                      !.timer = r.generation]), {r})
    /\ UNCHANGED <<runsBegun, editorGone>>

SameQuestionMutant(r) == IsCurrent(screen, r.generation)
SameQuestion(r) ==
    IsCurrent(screen, r.generation) /\ r.stack = screen.selected
      /\ r.extra = screen.window
AvailabilityAnswers(r) ==
    /\ r.kind = "availability"
    /\ IF ~SameQuestion(r) THEN Take(Step(screen), {r})
       ELSE \E known \in {Nothing, r.stack} :
              Take(Step([screen EXCEPT !.shown.availability = known,
                                       !.shown.of = r.extra]), {r})
    /\ UNCHANGED <<runsBegun, editorGone>>

PreviewAnswers(r) ==
    /\ r.kind = "preview"
    /\ IF ~IsCurrent(screen, r.generation) THEN Take(Step(screen), {r})
       ELSE \E known \in {screen.shown.preview, r.stack} :
              Take(Step([screen EXCEPT !.shown.preview = known]), {r})
    /\ UNCHANGED <<runsBegun, editorGone>>

\* run and runService: the answer may end the command of the screen, and only one
\* of the same choice gives the buttons back.
RunAnswers(r) ==
    /\ r.kind = "run"
    /\ LET mine == BelongsToScreen(screen, r.stack)
           ended == IF mine THEN Finish(screen, r.stack) ELSE screen
       IN  IF ~mine \/ ~IsCurrent(screen, r.generation) THEN Take(Step(ended), {r})
           ELSE Take(RequestServiceStatus(Step([ended EXCEPT !.processing = FALSE]),
                                          r.generation), {r})
    /\ UNCHANGED <<runsBegun, editorGone>>

\* run-end of the editor, which is told to the page as long as the editor is shown.
DeployAnswers(r) ==
    /\ r.kind = "deploy"
    /\ Take(Step(IF BelongsToScreen(screen, screen.selected)
                 THEN Finish(screen, screen.selected) ELSE screen), {r})
    /\ UNCHANGED <<runsBegun, editorGone>>

----------------------------------------------------------------------------
(* The user, the browser and the timers *)

Watching == ~screen.gone /\ Cardinality(flight) <= MaxWaiting

\* Deployments of the editor that is shown: a closed one tells nobody how they end.
Deployments == {r \in flight : r.kind = "deploy"}
\* The editor is keyed by the stack, so it goes with the choice.
Choose(stack) ==
    /\ Watching /\ stack # screen.selected /\ screen.generation <= MaxChoices
    /\ Take(LoadStack(screen, stack), Deployments)
    /\ editorGone' = FALSE /\ UNCHANGED runsBegun

\* The button beside the error: the same stack anew, in the same editor.
Retry ==
    /\ Watching /\ screen.failed /\ screen.generation <= MaxChoices
    /\ Take(LoadStack(screen, screen.selected), {})
    /\ editorGone' = FALSE /\ UNCHANGED runsBegun

SelectWindow(hours) ==
    /\ Watching /\ hours # screen.window
    /\ Take(RequestAvailability(Step([screen EXCEPT !.window = hours])), {})
    /\ UNCHANGED <<runsBegun, editorGone>>

OnVisibilityMutant(s) == Step([s EXCEPT !.timer = 0])
OnVisibility(s) ==
    LET stopped == Step([s EXCEPT !.timer = 0]) IN
    IF s.hidden THEN stopped
    ELSE RequestAvailability(RequestServiceStatus(stopped, s.generation))
Turns ==
    /\ Watching
    /\ Take(OnVisibility([screen EXCEPT !.hidden = ~@]), {})
    /\ UNCHANGED <<runsBegun, editorGone>>

TimerFires ==
    /\ screen.timer # 0
    /\ Take(RequestServiceStatus(Step([screen EXCEPT !.timer = 0]), screen.timer), {})
    /\ UNCHANGED <<runsBegun, editorGone>>

\* The clock of a running command asks more often.
RunTicks ==
    /\ screen.run.event # 0
    /\ Take(RequestServiceStatus(Step(screen), screen.generation), {})
    /\ UNCHANGED <<runsBegun, editorGone>>

\* The buttons of a stack wait for `processing`, and are there once some stack was loaded.
StackButtons == Watching /\ ~screen.processing /\ owner /\ screen.shown.details # Nothing
OpenUpdatePreview ==
    /\ StackButtons
    /\ Take(Then(Step(screen), [screen EXCEPT !.shown.preview = Nothing],
                 {Request("preview", screen.selected, screen.generation, 0)}), {})
    /\ UNCHANGED <<runsBegun, editorGone>>

\* An update closes its preview.
Run ==
    /\ StackButtons /\ screen.run.event = 0 /\ runsBegun < MaxRuns /\ runsBegun' = runsBegun + 1
    /\ \E preview \in {Nothing, screen.shown.preview} :
         LET s == [Start(screen, runsBegun') EXCEPT !.processing = TRUE,
                                                    !.shown.preview = preview]
         IN  Take(Then(Step(s), s, {Request("run", s.selected, s.generation,
                                            runsBegun')}), {})
    /\ UNCHANGED editorGone

\* A service's button looks at `processing` only.
RunService ==
    /\ Watching /\ ~screen.processing /\ owner
    /\ runsBegun < MaxRuns /\ runsBegun' = runsBegun + 1
    /\ LET s == [Start(screen, runsBegun') EXCEPT !.processing = TRUE]
       IN  Take(Then(Step(s), s, {Request("run", s.selected, s.generation,
                                          runsBegun')}), {})
    /\ UNCHANGED editorGone

\* The embedded editor deploys: the page is told with run-start.
EditorDeploys ==
    /\ Watching /\ screen.files /\ owner
    /\ Deployments = {}
    /\ runsBegun < MaxRuns /\ runsBegun' = runsBegun + 1
    /\ LET s == Start(screen, runsBegun')
       IN  Take(Then(Step(s), s, {Request("deploy", s.selected, s.generation,
                                          runsBegun')}), {})
    /\ UNCHANGED editorGone

\* The tab of the files is opened and closed; with it the editor goes.
FilesTab ==
    /\ ~screen.gone
    /\ Take(Step([screen EXCEPT !.files = ~@]), Deployments)
    /\ editorGone' = (editorGone \/ Deployments # {})
    /\ UNCHANGED runsBegun

Unmounted ==
    /\ ~screen.gone
    /\ Take(Step(Release([screen EXCEPT !.gone = TRUE, !.generation = @ + 1,
                                        !.timer = 0])), {})
    /\ UNCHANGED <<runsBegun, editorGone>>

SelInit ==
    /\ owner \in BOOLEAN /\ runsBegun = 0 /\ editorGone = FALSE
    /\ \E stack \in StackNames, hours \in Windows :
         LET opened == LoadStack(
               [selected |-> stack, window |-> hours, hidden |-> FALSE,
                generation |-> 0, gone |-> FALSE, files |-> FALSE,
                processing |-> TRUE, failed |-> FALSE, asking |-> 0, timer |-> 0,
                shown |-> Blank, run |-> NoRun], stack)
         IN  screen = opened.page /\ flight = opened.sends

Answers(r) ==
    \/ StackAnswers(r) \/ StatusAnswers(r) \/ AvailabilityAnswers(r)
    \/ PreviewAnswers(r) \/ RunAnswers(r) \/ DeployAnswers(r)
SelNext ==
    \/ \E r \in flight : Answers(r)
    \/ \E stack \in StackNames : Choose(stack)
    \/ Retry
    \/ \E hours \in Windows : SelectWindow(hours)
    \/ Turns \/ TimerFires \/ RunTicks \/ OpenUpdatePreview
    \/ Run \/ RunService \/ EditorDeploys \/ FilesTab \/ Unmounted
SelSpec == SelInit /\ [][SelNext]_screenVars

----------------------------------------------------------------------------
(* Properties *)

InFlight(kinds) ==
    \E r \in flight : r.kind \in kinds /\ r.generation = screen.generation

\* What was polled is about the stack and the window that are chosen now, whatever order
\* the answers come in; of another window only until the answer comes
\* (request-tracker.ts:3-13, StackInspector.vue:966).  What getStack told of the stack that
\* was chosen before is on an owner's page no longer than the load is under way, when its
\* buttons wait, or than the error that says the load failed (StackInspector.vue:1027-1039).
ShownIsChosen ==
    LET shown == screen.shown IN
    /\ {shown.status, shown.availability, shown.preview, screen.run.target,
        screen.run.outcome} \subseteq {Nothing, screen.selected}
    /\ shown.availability # Nothing /\ ~screen.gone =>
         \/ shown.of = screen.window
         \/ \E r \in flight : r.kind = "availability" /\ SameQuestion(r)
    /\ shown.details \notin {Nothing, screen.selected} /\ ~screen.gone =>
         screen.failed \/ (screen.processing /\ Loading(screen))

\* A page that is looked at goes on reading the status of its stack, unless the stack
\* could not be loaded: a slow answer, a hidden tab or another choice never ends the
\* polling (StackInspector.vue:1070-1096, 932).
StatusKeepsComing ==
    ~screen.gone /\ ~screen.hidden /\ ~screen.failed /\ ~Loading(screen) =>
        screen.timer = screen.generation \/ InFlight({"status"})

\* A command shown as running has an answer on its way that ends it, and buttons that
\* wait are given back by one, also when an earlier command of the same stack answers
\* after the user has left and come back.  Only an editor that was closed during its
\* deployment takes the end with it.
RunsEnd ==
    /\ screen.run.event # 0 =>
         \/ editorGone
         \/ \E r \in flight : r.kind \in {"run", "deploy"} /\ r.stack = screen.selected
    /\ ~screen.gone /\ screen.processing => InFlight({"stack", "run"})

\* The page shows its own stack (but for a load that is under way or has failed), keeps
\* reading it and comes out of every command.
ScreenKept == ShownIsChosen /\ StatusKeepsComing /\ RunsEnd
=============================================================================
