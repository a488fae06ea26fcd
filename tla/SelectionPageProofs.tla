------------------------- MODULE SelectionPageProofs -------------------------
(***************************************************************************)
(* That the page of a stack shows its own stack (what getStack told of     *)
(* another only while it loads, or with the error of a load that failed),  *)
(* keeps reading it and comes out of every command: for any number of      *)
(* stacks, windows, choices, commands and requests on their way.           *)
(***************************************************************************)
EXTENDS SelectionPage, TLAPS

Names == StackNames \cup {Nothing}
ShownRecord ==
    [status : Names, availability : Names, of : Windows \cup {NoWindow}, preview : Names,
     details : Names]
RunRecord == [target : Names, event : Nat, outcome : Names]
Screen ==
    [selected : StackNames, window : Windows, hidden : BOOLEAN, generation : Nat,
     gone : BOOLEAN, files : BOOLEAN, processing : BOOLEAN, failed : BOOLEAN,
     asking : Nat, timer : Nat, shown : ShownRecord, run : RunRecord]

\* A page s, the requests fl that have no answer, and ed: an editor was closed before its
\* answer.
Current(s, fl, kinds) == \E r \in fl : r.kind \in kinds /\ r.generation = s.generation

\* What the tracker knows: requests of this choice are about this stack, and the one it
\* remembers is on its way.
Tracked(s, fl) ==
    /\ s \in Screen /\ s.generation # 0 /\ s.asking <= s.generation
    /\ \A r \in fl : /\ r.generation \in Nat /\ r.generation <= s.generation
                     /\ r.generation = s.generation => r.stack = s.selected
    /\ s.asking = s.generation => Current(s, fl, {"status"})
    /\ s.timer \in {0, s.generation}

ShowsOwn(s, fl) ==
    /\ {s.shown.status, s.shown.availability, s.shown.preview, s.run.target,
        s.run.outcome} \subseteq {Nothing, s.selected}
    /\ s.shown.availability # Nothing /\ ~s.gone =>
         \/ s.shown.of = s.window
         \/ \E r \in fl : /\ r.kind = "availability" /\ r.generation = s.generation
                          /\ r.stack = s.selected /\ r.extra = s.window
    /\ s.shown.details \notin {Nothing, s.selected} /\ ~s.gone =>
         s.failed \/ Current(s, fl, {"stack"})

\* A command of this choice ends with an answer of this choice, unless its editor is gone;
\* a deployment belongs to the editor that is shown; nothing runs beside the one load.
Commands(s, fl, ed) ==
    /\ s.run.event # 0 => s.run.target = s.selected
                            /\ (ed \/ Current(s, fl, {"run", "deploy"}))
    /\ Current(s, fl, {"run", "deploy"}) => s.run.target = s.selected
    /\ \A r \in fl : r.kind = "deploy" => s.files /\ r.stack = s.selected
    /\ ~s.gone /\ s.processing => Current(s, fl, {"stack", "run"})
    /\ ~s.gone /\ Current(s, fl, {"stack"}) => s.processing /\ ~Current(s, fl, {"run"})
    /\ \A r \in fl : r.kind = "stack" /\ r.generation = s.generation =>
         r = Request("stack", s.selected, s.generation, 0)

Held(s, fl, ed) == Tracked(s, fl) /\ ShowsOwn(s, fl) /\ Commands(s, fl, ed)

Polls(s, fl) ==
    ~s.gone /\ ~s.hidden /\ ~s.failed /\ ~Current(s, fl, {"stack"}) =>
        s.timer = s.generation \/ Current(s, fl, {"status"})

SelInv == Held(screen, flight, editorGone) /\ Polls(screen, flight) /\ runsBegun \in Nat

----------------------------------------------------------------------------
(* What steps are made of *)

\* A request of this choice that asks for something about its stack.
LEMMA Sent ==
  ASSUME NEW s, NEW fl, NEW ed, Held(s, fl, ed), NEW q,
         q.generation = s.generation, q.stack = s.selected,
         q.kind \notin {"run", "deploy", "stack"}
  PROVE  /\ Held(s, fl \cup {q}, ed)
         /\ Polls(s, fl) => Polls(s, fl \cup {q})
         /\ q.kind = "status" => Polls(s, fl \cup {q})
<1>1. \A kinds : Current(s, fl, kinds) => Current(s, fl \cup {q}, kinds)
  BY DEF Current
<1>2. Current(s, fl \cup {q}, {"run", "deploy"}) => Current(s, fl, {"run", "deploy"})
  BY DEF Current
<1>3. /\ Current(s, fl \cup {q}, {"stack"}) => Current(s, fl, {"stack"})
      /\ Current(s, fl \cup {q}, {"run"}) => Current(s, fl, {"run"})
  BY DEF Current
<1>4. Tracked(s, fl \cup {q})
  BY <1>1 DEF Held, Tracked, Screen
<1>5. ShowsOwn(s, fl \cup {q})
  BY <1>1 DEF Held, ShowsOwn
<1>6. Commands(s, fl \cup {q}, ed)
  BY <1>1, <1>2, <1>3 DEF Held, Commands
<1>7. Polls(s, fl) => Polls(s, fl \cup {q})
  BY <1>1, <1>3 DEF Polls
<1>8. q.kind = "status" => Polls(s, fl \cup {q})
  BY DEF Polls, Current
<1> QED BY <1>4, <1>5, <1>6, <1>7, <1>8 DEF Held

\* An answer of another choice.
LEMMA Forgotten ==
  ASSUME NEW s, NEW fl, NEW ed, Held(s, fl, ed), NEW r \in fl,
         r.generation # s.generation
  PROVE  /\ Held(s, fl \ {r}, ed)
         /\ Polls(s, fl) => Polls(s, fl \ {r})
<1>1. \A kinds : Current(s, fl, kinds) <=> Current(s, fl \ {r}, kinds)
  BY DEF Current
<1>2. Tracked(s, fl \ {r})
  BY <1>1 DEF Held, Tracked
<1>3. ShowsOwn(s, fl \ {r})
  BY <1>1 DEF Held, ShowsOwn
<1>4. Commands(s, fl \ {r}, ed)
  BY <1>1 DEF Held, Commands
<1> QED BY <1>1, <1>2, <1>3, <1>4 DEF Held, Polls

\* requestServiceStatus of this choice: sent unless it is on its way; a page that is
\* looked at polls after it.
LEMMA StatusAsked ==
  ASSUME NEW s, NEW fl, NEW ed, Held(s, fl, ed),
         NEW t, t = RequestServiceStatus(Step(s), s.generation)
  PROVE  /\ Held(t.page, fl \cup t.sends, ed) /\ Polls(t.page, fl \cup t.sends)
         /\ t.page.selected = s.selected /\ t.page.generation = s.generation
         /\ t.page.window = s.window
<1>1. CASE s.hidden \/ s.gone \/ s.asking = s.generation
  <2>1. t = Step(s)
    BY <1>1 DEF RequestServiceStatus, IsCurrent, AlreadyAsking, Step
  <2>2. t.page = s /\ fl \cup t.sends = fl
    BY <2>1 DEF Step
  <2>3. Polls(s, fl)
    BY <1>1 DEF Polls, Held, Tracked
  <2> QED BY <2>2, <2>3
<1>2. CASE ~(s.hidden \/ s.gone \/ s.asking = s.generation)
  <2> DEFINE q == Request("status", s.selected, s.generation, 0)
             p == [s EXCEPT !.asking = s.generation]
  <2>1. t.page = p /\ t.sends = {q}
    BY <1>2 DEF RequestServiceStatus, IsCurrent, AlreadyAsking, Step, Then
  <2>2. /\ q.kind = "status" /\ q.generation = s.generation /\ q.stack = s.selected
    BY DEF Request
  <2>3. Held(s, fl \cup {q}, ed) /\ Polls(s, fl \cup {q})
    BY <2>2, Sent
  <2> HIDE DEF q
  <2>4. s \in Screen
    BY DEF Held, Tracked
  <2>5. /\ p \in Screen /\ p.asking = s.generation
        /\ p.selected = s.selected /\ p.window = s.window /\ p.hidden = s.hidden
        /\ p.generation = s.generation /\ p.gone = s.gone /\ p.files = s.files
        /\ p.processing = s.processing /\ p.failed = s.failed
        /\ p.timer = s.timer /\ p.shown = s.shown /\ p.run = s.run
    BY <2>4 DEF Screen
  <2> HIDE DEF p
  <2>6. \A fs, kinds : Current(p, fs, kinds) <=> Current(s, fs, kinds)
    BY <2>5 DEF Current
  <2>7. Tracked(p, fl \cup {q})
    <3>1. Current(p, fl \cup {q}, {"status"})
      BY <2>2, <2>5 DEF Current
    <3> QED BY <2>3, <2>5, <3>1 DEF Held, Tracked, Screen
  <2>8. ShowsOwn(p, fl \cup {q})
    BY <2>3, <2>5, <2>6 DEF Held, ShowsOwn
  <2>9. Commands(p, fl \cup {q}, ed) /\ Polls(p, fl \cup {q})
    BY <2>3, <2>5, <2>6 DEF Held, Commands, Polls
  <2> QED BY <2>1, <2>5, <2>7, <2>8, <2>9 DEF Held
<1> QED BY <1>1, <1>2

\* requestAvailability after such a step.
LEMMA AvailabilityAsked ==
  ASSUME NEW step, NEW fl, NEW ed, Held(step.page, fl \cup step.sends, ed),
         NEW t, t = RequestAvailability(step)
  PROVE  /\ t.page = step.page /\ Held(t.page, fl \cup t.sends, ed)
         /\ Polls(step.page, fl \cup step.sends) => Polls(t.page, fl \cup t.sends)
         /\ \E r \in t.sends :
              /\ r.kind = "availability" /\ r.generation = t.page.generation
              /\ r.stack = t.page.selected /\ r.extra = t.page.window
<1> DEFINE p == step.page
           q == Request("availability", p.selected, p.generation, p.window)
<1>1. t.page = p /\ t.sends = step.sends \cup {q}
  BY DEF RequestAvailability, Then
<1>2. /\ q.kind = "availability" /\ q.generation = p.generation /\ q.stack = p.selected
      /\ q.extra = p.window
  BY DEF Request
<1> HIDE DEF p, q
<1>3. fl \cup t.sends = (fl \cup step.sends) \cup {q}
  BY <1>1
<1>4. /\ Held(p, (fl \cup step.sends) \cup {q}, ed)
      /\ Polls(p, fl \cup step.sends) => Polls(p, (fl \cup step.sends) \cup {q})
  BY <1>2, Sent DEF p
<1> QED BY <1>1, <1>2, <1>3, <1>4 DEF p
\* A preview of this stack, or none.
LEMMA Previewed ==
  ASSUME NEW s, NEW fl, NEW ed, Held(s, fl, ed), Polls(s, fl),
         NEW known \in {Nothing, s.selected}
  PROVE  /\ Held([s EXCEPT !.shown.preview = known], fl, ed)
         /\ Polls([s EXCEPT !.shown.preview = known], fl)
<1> DEFINE p == [s EXCEPT !.shown.preview = known]
<1>1. s \in Screen /\ s.shown \in ShownRecord /\ s.selected \in StackNames
  BY DEF Held, Tracked, Screen
<1>2. /\ p \in Screen /\ p.asking = s.asking
      /\ p.selected = s.selected /\ p.window = s.window
      /\ p.hidden = s.hidden /\ p.generation = s.generation
      /\ p.gone = s.gone /\ p.files = s.files
      /\ p.processing = s.processing /\ p.failed = s.failed
      /\ p.run = s.run /\ p.timer = s.timer
      /\ p.shown.status = s.shown.status /\ p.shown.availability = s.shown.availability
      /\ p.shown.of = s.shown.of /\ p.shown.preview = known
      /\ p.shown.details = s.shown.details
  BY <1>1 DEF Screen, ShownRecord, Names
<1> HIDE DEF p
<1>3. \A kinds : Current(p, fl, kinds) <=> Current(s, fl, kinds)
  BY <1>2 DEF Current
<1>4. Tracked(p, fl) /\ Polls(p, fl)
  BY <1>2, <1>3 DEF Held, Tracked, Polls
<1>5. ShowsOwn(p, fl)
  BY <1>2, <1>3 DEF Held, ShowsOwn
<1>6. Commands(p, fl, ed)
  BY <1>2, <1>3 DEF Held, Commands
<1> QED BY <1>4, <1>5, <1>6 DEF Held, p

\* A step of the page is all there is to its fields and requests.
LEMMA Taken ==
  ASSUME NEW step, NEW answered, Take(step, answered),
         NEW ed, editorGone' = ed, runsBegun' \in Nat,
         Held(step.page, (flight \ answered) \cup step.sends, ed),
         Polls(step.page, (flight \ answered) \cup step.sends)
  PROVE  SelInv'
BY DEF Take, SelInv

----------------------------------------------------------------------------
(* The answers *)

\* An answer that changes nothing: of another choice, to a page that is gone, of another
\* window.
LEMMA Ignored ==
  ASSUME NEW s, NEW fl, NEW ed, Held(s, fl, ed), Polls(s, fl), NEW r \in fl,
         r.kind \in {"stack", "availability", "preview"},
         \/ s.gone \/ r.generation # s.generation \/ r.kind = "preview"
         \/ r.kind = "availability" /\ r.extra # s.window
  PROVE  Held(s, fl \ {r}, ed) /\ Polls(s, fl \ {r})
<1>1. \A kinds : Current(s, fl \ {r}, kinds) => Current(s, fl, kinds)
  BY DEF Current
<1>2. /\ Current(s, fl, {"run", "deploy"}) => Current(s, fl \ {r}, {"run", "deploy"})
      /\ Current(s, fl, {"status"}) => Current(s, fl \ {r}, {"status"})
  BY DEF Current
<1>3. ~s.gone /\ Current(s, fl, {"stack"}) => Current(s, fl \ {r}, {"stack"})
  BY DEF Current
<1>4. ~s.gone /\ Current(s, fl, {"stack", "run"}) => Current(s, fl \ {r}, {"stack", "run"})
  BY DEF Current
<1>5. Tracked(s, fl \ {r})
  BY <1>2 DEF Held, Tracked
<1>6. ShowsOwn(s, fl \ {r})
  BY <1>3 DEF Held, ShowsOwn
<1>7. Commands(s, fl \ {r}, ed)
  BY <1>1, <1>2, <1>4 DEF Held, Commands
<1> QED BY <1>2, <1>3, <1>5, <1>6, <1>7 DEF Held, Polls

\* The stack is loaded or is not: either gives the buttons back, and only a load goes on
\* with the status.
LEMMA StackAnswered ==
  ASSUME SelInv, NEW r \in flight, StackAnswers(r)
  PROVE  SelInv'
<1>1. /\ Held(screen, flight, editorGone) /\ Polls(screen, flight)
      /\ r.kind = "stack" /\ editorGone' = editorGone /\ runsBegun' \in Nat
  BY DEF SelInv, StackAnswers
<1>2. CASE ~IsCurrent(screen, r.generation)
  <2>1. Take(Step(screen), {r})
    BY <1>2 DEF StackAnswers
  <2>2. /\ Held(screen, flight \ {r}, editorGone) /\ Polls(screen, flight \ {r})
    BY <1>1, <1>2, Ignored DEF IsCurrent
  <2>3. Step(screen).page = screen /\ (flight \ {r}) \cup Step(screen).sends = flight \ {r}
    BY DEF Step
  <2> QED BY <1>1, <2>1, <2>2, <2>3, Taken
<1>3. CASE IsCurrent(screen, r.generation)
  <2> DEFINE heard == [screen EXCEPT !.processing = FALSE]
             lost == [heard EXCEPT !.failed = TRUE]
             told == [heard EXCEPT !.shown.details = r.stack]
             rest == flight \ {r}
  <2>1. /\ screen \in Screen /\ r.generation = screen.generation
        /\ r.stack = screen.selected /\ ~screen.gone
    BY <1>1, <1>3 DEF Held, Tracked, IsCurrent
  <2>2. /\ heard \in Screen /\ ~heard.processing
        /\ heard.selected = screen.selected /\ heard.window = screen.window
        /\ heard.hidden = screen.hidden /\ heard.generation = screen.generation
        /\ heard.gone = screen.gone /\ heard.files = screen.files
        /\ heard.asking = screen.asking /\ heard.timer = screen.timer
        /\ heard.shown = screen.shown /\ heard.run = screen.run
        /\ heard.failed = screen.failed
    BY <2>1 DEF Screen
  <2> HIDE DEF heard
  <2>3. /\ lost \in Screen /\ ~lost.processing /\ lost.failed
        /\ lost.selected = screen.selected /\ lost.window = screen.window
        /\ lost.hidden = screen.hidden /\ lost.generation = screen.generation
        /\ lost.gone = screen.gone /\ lost.files = screen.files
        /\ lost.asking = screen.asking /\ lost.timer = screen.timer
        /\ lost.shown = screen.shown /\ lost.run = screen.run
    BY <2>2 DEF Screen
  <2>3a. /\ told \in Screen /\ ~told.processing
         /\ told.selected = screen.selected /\ told.window = screen.window
         /\ told.hidden = screen.hidden /\ told.generation = screen.generation
         /\ told.gone = screen.gone /\ told.files = screen.files
         /\ told.asking = screen.asking /\ told.timer = screen.timer
         /\ told.run = screen.run
         /\ told.shown.status = screen.shown.status
         /\ told.shown.availability = screen.shown.availability
         /\ told.shown.of = screen.shown.of /\ told.shown.preview = screen.shown.preview
         /\ told.shown.details = screen.selected
    <3>1. heard.shown \in ShownRecord /\ screen.selected \in Names
      BY <2>1, <2>2 DEF Screen, Names
    <3>2. told \in Screen
      BY <2>1, <2>2, <3>1 DEF Screen, ShownRecord
    <3> QED BY <2>1, <2>2, <3>1, <3>2 DEF Screen, ShownRecord
  <2> HIDE DEF lost, told
  <2>3b. ~Current(screen, rest, {"stack"})
    BY <1>1, <2>1 DEF Held, Commands, Current
  <2>4. ASSUME NEW p \in {lost, told} PROVE Held(p, rest, editorGone)
    <3>1. /\ Current(screen, flight, {"run", "deploy"}) <=> Current(p, rest, {"run", "deploy"})
          /\ Current(screen, flight, {"status"}) <=> Current(p, rest, {"status"})
          /\ ~Current(p, rest, {"stack"})
      BY <1>1, <2>3, <2>3a, <2>3b DEF Current
    <3>2. Tracked(p, rest)
      BY <1>1, <2>3, <2>3a, <3>1 DEF Held, Tracked
    <3>3. ShowsOwn(p, rest)
      BY <1>1, <2>3, <2>3a DEF Held, ShowsOwn
    <3>4. Commands(p, rest, editorGone)
      BY <1>1, <2>3, <2>3a, <3>1 DEF Held, Commands
    <3> QED BY <3>2, <3>3, <3>4 DEF Held
  <2>5. CASE Take(Step(lost), {r})
    <3>1. Step(lost).page = lost /\ rest \cup Step(lost).sends = rest
      BY DEF Step
    <3>2. Polls(lost, rest)
      BY <2>3 DEF Polls
    <3> QED BY <1>1, <2>4, <2>5, <3>1, <3>2, Taken
  <2>6. CASE Take(RequestAvailability(RequestServiceStatus(Step(told), r.generation)), {r})
    <3> DEFINE asked == RequestServiceStatus(Step(told), told.generation)
               all == RequestAvailability(asked)
    <3>1. /\ Held(asked.page, rest \cup asked.sends, editorGone)
          /\ Polls(asked.page, rest \cup asked.sends)
      BY <2>4, StatusAsked
    <3> HIDE DEF asked
    <3>2. /\ Held(all.page, rest \cup all.sends, editorGone)
          /\ Polls(all.page, rest \cup all.sends)
      BY <3>1, AvailabilityAsked
    <3>3. Take(all, {r})
      BY <2>1, <2>3a, <2>6 DEF asked
    <3> HIDE DEF all
    <3> QED BY <1>1, <3>2, <3>3, Taken
  <2> QED BY <1>3, <2>5, <2>6 DEF StackAnswers, heard, lost, told
<1> QED BY <1>2, <1>3

\* The tracker forgets its own request; an answer of this choice starts the timer.
LEMMA StatusAnswered ==
  ASSUME SelInv, NEW r \in flight, StatusAnswers(r)
  PROVE  SelInv'
<1> DEFINE heard == [screen EXCEPT !.asking = IF @ = r.generation THEN 0 ELSE @]
           rest == flight \ {r}
<1>1. /\ Held(screen, flight, editorGone) /\ Polls(screen, flight)
      /\ r.kind = "status" /\ editorGone' = editorGone /\ runsBegun' \in Nat
  BY DEF SelInv, StatusAnswers
<1>2. screen \in Screen /\ screen.asking \in Nat /\ screen.generation \in Nat
  BY <1>1 DEF Held, Tracked, Screen
<1>3. /\ heard \in Screen
      /\ heard.asking = IF screen.asking = r.generation THEN 0 ELSE screen.asking
      /\ heard.selected = screen.selected /\ heard.window = screen.window
      /\ heard.hidden = screen.hidden /\ heard.generation = screen.generation
      /\ heard.gone = screen.gone /\ heard.files = screen.files
      /\ heard.processing = screen.processing /\ heard.failed = screen.failed
      /\ heard.timer = screen.timer /\ heard.shown = screen.shown /\ heard.run = screen.run
  BY <1>2 DEF Screen
<1> HIDE DEF heard
<1>4. \A kinds : "status" \notin kinds =>
        (Current(heard, rest, kinds) <=> Current(screen, flight, kinds))
  BY <1>1, <1>3 DEF Current
<1>5. heard.asking = heard.generation =>
        r.generation # screen.generation /\ Current(heard, rest, {"status"})
  BY <1>1, <1>2, <1>3 DEF Held, Tracked, Current
<1>6. Tracked(heard, rest)
  BY <1>1, <1>2, <1>3, <1>5 DEF Held, Tracked
<1>7. ShowsOwn(heard, rest)
  BY <1>1, <1>3, <1>4 DEF Held, ShowsOwn
<1>8. Commands(heard, rest, editorGone)
  BY <1>1, <1>3, <1>4 DEF Held, Commands
<1>9. CASE ~IsCurrent(heard, r.generation)
  <2>1. Take(Step(heard), {r})
    BY <1>9 DEF StatusAnswers, heard
  <2>2. Step(heard).page = heard /\ rest \cup Step(heard).sends = rest
    BY DEF Step
  <2>3. ~heard.gone => (Current(screen, flight, {"status"}) => Current(heard, rest, {"status"}))
    BY <1>1, <1>3, <1>9 DEF Current, IsCurrent
  <2>4. Polls(heard, rest)
    BY <1>1, <1>3, <1>4, <2>3 DEF Polls
  <2> QED BY <1>1, <1>6, <1>7, <1>8, <2>1, <2>2, <2>4, Taken DEF Held
<1>10. CASE IsCurrent(heard, r.generation)
  <2>1. PICK known \in {heard.shown.status, r.stack} :
          Take(Step([heard EXCEPT !.shown.status = known, !.timer = r.generation]), {r})
    BY <1>10 DEF StatusAnswers, heard
  <2> DEFINE p == [heard EXCEPT !.shown.status = known, !.timer = r.generation]
  <2>2. r.generation = screen.generation /\ r.stack = screen.selected
    BY <1>1, <1>3, <1>10 DEF IsCurrent, Held, Tracked
  <2>3. known \in {Nothing, screen.selected} /\ heard.shown \in ShownRecord
    BY <1>1, <1>3, <2>2 DEF Held, ShowsOwn, Screen
  <2>3a. screen.selected \in StackNames
    BY <1>2 DEF Screen
  <2>4. /\ p \in Screen /\ p.asking = heard.asking
        /\ p.selected = screen.selected /\ p.window = screen.window
        /\ p.hidden = screen.hidden /\ p.generation = screen.generation
        /\ p.gone = screen.gone /\ p.files = screen.files
        /\ p.processing = screen.processing /\ p.failed = screen.failed
        /\ p.run = screen.run /\ p.timer = screen.generation
        /\ p.shown.status = known /\ p.shown.availability = screen.shown.availability
        /\ p.shown.of = screen.shown.of /\ p.shown.preview = screen.shown.preview
        /\ p.shown.details = screen.shown.details
    BY <1>2, <1>3, <2>2, <2>3, <2>3a DEF Screen, ShownRecord, Names
  <2> HIDE DEF p
  <2>5. \A kinds : Current(p, rest, kinds) <=> Current(heard, rest, kinds)
    BY <1>3, <2>4 DEF Current
  <2>6. Tracked(p, rest)
    BY <1>3, <1>6, <2>4, <2>5 DEF Tracked
  <2>7. ShowsOwn(p, rest)
    BY <1>3, <1>7, <2>3, <2>4, <2>5 DEF ShowsOwn
  <2>8. Commands(p, rest, editorGone) /\ Polls(p, rest)
    BY <1>3, <1>8, <2>4, <2>5 DEF Commands, Polls
  <2>9. Step(p).page = p /\ rest \cup Step(p).sends = rest /\ Take(Step(p), {r})
    BY <2>1 DEF Step, p
  <2> QED BY <1>1, <2>6, <2>7, <2>8, <2>9, Taken DEF Held
<1> QED BY <1>9, <1>10

\* Availability counts for the window it was asked for.
LEMMA AvailabilityAnswered ==
  ASSUME SelInv, NEW r \in flight, AvailabilityAnswers(r)
  PROVE  SelInv'
<1> DEFINE rest == flight \ {r}
<1>1. /\ Held(screen, flight, editorGone) /\ Polls(screen, flight)
      /\ r.kind = "availability" /\ editorGone' = editorGone /\ runsBegun' \in Nat
  BY DEF SelInv, AvailabilityAnswers
<1>2. screen \in Screen
  BY <1>1 DEF Held, Tracked
<1>3. CASE ~SameQuestion(r)
  <2>1. Take(Step(screen), {r})
    BY <1>3 DEF AvailabilityAnswers
  <2>2. r.generation = screen.generation => r.stack = screen.selected
    BY <1>1 DEF Held, Tracked
  <2>3. Held(screen, rest, editorGone) /\ Polls(screen, rest)
    BY <1>1, <1>3, <2>2, Ignored DEF SameQuestion, IsCurrent
  <2>4. Step(screen).page = screen /\ rest \cup Step(screen).sends = rest
    BY DEF Step
  <2> QED BY <1>1, <2>1, <2>3, <2>4, Taken
<1>4. CASE SameQuestion(r)
  <2>1. PICK known \in {Nothing, r.stack} :
          Take(Step([screen EXCEPT !.shown.availability = known, !.shown.of = r.extra]), {r})
    BY <1>4 DEF AvailabilityAnswers
  <2> DEFINE p == [screen EXCEPT !.shown.availability = known, !.shown.of = r.extra]
  <2>2. /\ r.generation = screen.generation /\ r.stack = screen.selected
        /\ r.extra = screen.window
    BY <1>4 DEF SameQuestion, IsCurrent
  <2>3. /\ known \in {Nothing, screen.selected} /\ screen.shown \in ShownRecord
        /\ screen.selected \in StackNames /\ screen.window \in Windows
    BY <1>2, <2>2 DEF Screen
  <2>4. /\ p \in Screen /\ p.asking = screen.asking
        /\ p.selected = screen.selected /\ p.window = screen.window
        /\ p.hidden = screen.hidden /\ p.generation = screen.generation
        /\ p.gone = screen.gone /\ p.files = screen.files
        /\ p.processing = screen.processing /\ p.failed = screen.failed
        /\ p.run = screen.run /\ p.timer = screen.timer
        /\ p.shown.status = screen.shown.status /\ p.shown.availability = known
        /\ p.shown.of = screen.window /\ p.shown.preview = screen.shown.preview
        /\ p.shown.details = screen.shown.details
    BY <1>2, <2>2, <2>3 DEF Screen, ShownRecord, Names
  <2> HIDE DEF p
  <2>5. \A kinds : "availability" \notin kinds =>
          (Current(p, rest, kinds) <=> Current(screen, flight, kinds))
    BY <1>1, <2>4 DEF Current
  <2>6. Tracked(p, rest)
    BY <1>1, <2>4, <2>5 DEF Held, Tracked
  <2>7. ShowsOwn(p, rest)
    BY <1>1, <2>3, <2>4, <2>5 DEF Held, ShowsOwn
  <2>8. Commands(p, rest, editorGone) /\ Polls(p, rest)
    <3>1. Commands(p, rest, editorGone)
      BY <1>1, <2>4, <2>5 DEF Held, Commands
    <3>2. Polls(p, rest)
      BY <1>1, <2>4, <2>5 DEF Polls
    <3> QED BY <3>1, <3>2
  <2>9. Step(p).page = p /\ rest \cup Step(p).sends = rest /\ Take(Step(p), {r})
    BY <2>1 DEF Step, p
  <2> QED BY <1>1, <2>6, <2>7, <2>8, <2>9, Taken DEF Held
<1> QED BY <1>3, <1>4

\* A preview counts while its choice lasts.
LEMMA PreviewAnswered ==
  ASSUME SelInv, NEW r \in flight, PreviewAnswers(r)
  PROVE  SelInv'
<1> DEFINE rest == flight \ {r}
<1>1. /\ Held(screen, flight, editorGone) /\ Polls(screen, flight)
      /\ r.kind = "preview" /\ editorGone' = editorGone /\ runsBegun' \in Nat
  BY DEF SelInv, PreviewAnswers
<1>2. screen \in Screen
  BY <1>1 DEF Held, Tracked
<1>3. Held(screen, rest, editorGone) /\ Polls(screen, rest)
  BY <1>1, Ignored
<1>4. CASE ~IsCurrent(screen, r.generation)
  <2>1. Take(Step(screen), {r})
    BY <1>4 DEF PreviewAnswers
  <2>2. Step(screen).page = screen /\ rest \cup Step(screen).sends = rest
    BY DEF Step
  <2> QED BY <1>1, <1>3, <2>1, <2>2, Taken
<1>5. CASE IsCurrent(screen, r.generation)
  <2>1. PICK known \in {screen.shown.preview, r.stack} :
          Take(Step([screen EXCEPT !.shown.preview = known]), {r})
    BY <1>5 DEF PreviewAnswers
  <2>2. r.stack = screen.selected
    BY <1>1, <1>5 DEF IsCurrent, Held, Tracked
  <2>3. known \in {Nothing, screen.selected}
    BY <1>1, <2>2 DEF Held, ShowsOwn
  <2>4. Held([screen EXCEPT !.shown.preview = known], rest, editorGone)
        /\ Polls([screen EXCEPT !.shown.preview = known], rest)
    BY <1>3, <2>3, Previewed
  <2> DEFINE p == [screen EXCEPT !.shown.preview = known]
  <2>5. Step(p).page = p /\ rest \cup Step(p).sends = rest
    BY DEF Step
  <2> QED BY <1>1, <2>1, <2>4, <2>5, Taken
<1> QED BY <1>4, <1>5

\* A command of this choice is the one on the screen: its answer ends both.
LEMMA RunAnswered ==
  ASSUME SelInv, NEW r \in flight, RunAnswers(r)
  PROVE  SelInv'
<1> DEFINE mine == BelongsToScreen(screen, r.stack)
           ended == IF mine THEN Finish(screen, r.stack) ELSE screen
           free == [ended EXCEPT !.processing = FALSE]
           rest == flight \ {r}
<1>1. /\ Held(screen, flight, editorGone) /\ Polls(screen, flight)
      /\ r.kind = "run" /\ editorGone' = editorGone /\ runsBegun' \in Nat
  BY DEF SelInv, RunAnswers
<1>2. screen \in Screen /\ screen.run \in RunRecord
  BY <1>1 DEF Held, Tracked, Screen
<1>3. /\ Current(screen, rest, {"status"}) <=> Current(screen, flight, {"status"})
      /\ Current(screen, rest, {"stack"}) <=> Current(screen, flight, {"stack"})
  BY <1>1 DEF Current
<1>4. /\ Current(screen, rest, {"run", "deploy"}) => Current(screen, flight, {"run", "deploy"})
      /\ Current(screen, rest, {"run"}) => Current(screen, flight, {"run"})
  BY DEF Current
<1>5. /\ Tracked(screen, rest) /\ ShowsOwn(screen, rest) /\ Polls(screen, rest)
  BY <1>1, <1>3 DEF Held, Tracked, ShowsOwn, Polls
<1>6. CASE mine
  <2> DEFINE p == Finish(screen, r.stack)
             f == [p EXCEPT !.processing = FALSE]
  <2>1. screen.run.target = r.stack /\ r.stack \in {Nothing, screen.selected}
        /\ screen.selected \in StackNames
    BY <1>1, <1>2, <1>6 DEF BelongsToScreen, Held, ShowsOwn, Screen
  <2>2. /\ p \in Screen /\ p.asking = screen.asking
        /\ p.selected = screen.selected /\ p.window = screen.window
        /\ p.hidden = screen.hidden /\ p.generation = screen.generation
        /\ p.gone = screen.gone /\ p.files = screen.files
        /\ p.processing = screen.processing /\ p.failed = screen.failed
        /\ p.timer = screen.timer /\ p.shown = screen.shown
        /\ p.run.target = screen.run.target /\ p.run.event = 0 /\ p.run.outcome = r.stack
    BY <1>2, <2>1 DEF Screen, RunRecord, Names, Finish
  <2> HIDE DEF p
  <2>3. /\ f \in Screen /\ f.asking = screen.asking
        /\ f.selected = screen.selected /\ f.window = screen.window
        /\ f.hidden = screen.hidden /\ f.generation = screen.generation
        /\ f.gone = screen.gone /\ f.files = screen.files
        /\ ~f.processing /\ f.failed = screen.failed
        /\ f.timer = screen.timer /\ f.shown = screen.shown /\ f.run = p.run
    BY <2>2 DEF Screen
  <2> HIDE DEF f
  <2>4. ASSUME NEW q \in {p, f},
               ~q.gone /\ q.processing => Current(screen, rest, {"stack", "run"}),
               ~q.gone /\ Current(screen, rest, {"stack"}) => q.processing
        PROVE  Held(q, rest, editorGone) /\ Polls(q, rest)
    <3>1. \A kinds : Current(q, rest, kinds) <=> Current(screen, rest, kinds)
      BY <2>2, <2>3 DEF Current
    <3>2. Tracked(q, rest) /\ Polls(q, rest)
      BY <1>5, <2>2, <2>3, <3>1 DEF Tracked, Polls
    <3>3. ShowsOwn(q, rest)
      BY <1>5, <2>1, <2>2, <2>3, <3>1 DEF ShowsOwn
    <3>4. Commands(q, rest, editorGone)
      <4>1. /\ q.run.event = 0 /\ q.run.target = screen.run.target
            /\ q.selected = screen.selected /\ q.generation = screen.generation
            /\ q.files = screen.files /\ q.gone = screen.gone
        BY <2>2, <2>3
      <4> QED BY <1>1, <1>3, <1>4, <2>4, <3>1, <4>1 DEF Held, Commands
    <3> QED BY <3>2, <3>3, <3>4 DEF Held
  <2>5. CASE ~IsCurrent(screen, r.generation)
    <3>1. Take(Step(p), {r})
      BY <1>6, <2>5 DEF RunAnswers, p
    <3>2. ~p.gone /\ p.processing => Current(screen, rest, {"stack", "run"})
      BY <1>1, <2>2, <2>5 DEF IsCurrent, Held, Commands, Current
    <3>2a. ~p.gone /\ Current(screen, rest, {"stack"}) => p.processing
      BY <1>1, <1>3, <2>2 DEF Held, Commands
    <3>3. Step(p).page = p /\ rest \cup Step(p).sends = rest
      BY DEF Step
    <3> QED BY <1>1, <2>4, <3>1, <3>2, <3>2a, <3>3, Taken
  <2>6. CASE IsCurrent(screen, r.generation)
    <3> DEFINE asked == RequestServiceStatus(Step(f), f.generation)
    <3>1. Take(asked, {r})
      BY <1>6, <2>3, <2>6 DEF RunAnswers, IsCurrent, f, p
    <3>2. Held(f, rest, editorGone)
      <4>1. Current(screen, flight, {"run"}) /\ ~screen.gone
        BY <1>1, <2>6 DEF Current, IsCurrent
      <4>2. ~Current(screen, rest, {"stack"})
        BY <1>1, <1>3, <4>1 DEF Held, Commands
      <4> QED BY <2>3, <2>4, <4>2
    <3>3. /\ Held(asked.page, rest \cup asked.sends, editorGone)
          /\ Polls(asked.page, rest \cup asked.sends)
      BY <3>2, StatusAsked
    <3> HIDE DEF asked
    <3> QED BY <1>1, <3>1, <3>3, Taken
  <2> QED BY <2>5, <2>6
<1>7. CASE ~mine
  <2>1. Take(Step(screen), {r})
    BY <1>7 DEF RunAnswers
  <2>2. r.generation # screen.generation
    <3>1. r.generation = screen.generation => Current(screen, flight, {"run", "deploy"})
                                                /\ r.stack = screen.selected
      BY <1>1 DEF Current, Held, Tracked
    <3> QED BY <1>1, <1>7, <3>1 DEF BelongsToScreen, Held, Commands
  <2>3. Held(screen, rest, editorGone) /\ Polls(screen, rest)
    BY <1>1, <2>2, Forgotten
  <2>4. Step(screen).page = screen /\ rest \cup Step(screen).sends = rest
    BY DEF Step
  <2> QED BY <1>1, <2>1, <2>3, <2>4, Taken
<1> QED BY <1>6, <1>7

\* The end of a deployment reaches the page through the editor that began it.
LEMMA DeployAnswered ==
  ASSUME SelInv, NEW r \in flight, DeployAnswers(r)
  PROVE  SelInv'
<1> DEFINE shown == BelongsToScreen(screen, screen.selected)
           rest == flight \ {r}
<1>1. /\ Held(screen, flight, editorGone) /\ Polls(screen, flight)
      /\ r.kind = "deploy" /\ editorGone' = editorGone /\ runsBegun' \in Nat
      /\ Take(Step(IF shown THEN Finish(screen, screen.selected) ELSE screen), {r})
  BY DEF SelInv, DeployAnswers
<1>2. screen \in Screen /\ screen.run \in RunRecord /\ screen.selected \in StackNames
  BY <1>1 DEF Held, Tracked, Screen
<1>3. /\ \A kinds : "deploy" \notin kinds =>
           (Current(screen, rest, kinds) <=> Current(screen, flight, kinds))
      /\ Current(screen, rest, {"run", "deploy"}) => Current(screen, flight, {"run", "deploy"})
  BY <1>1 DEF Current
<1>4. Tracked(screen, rest) /\ ShowsOwn(screen, rest) /\ Polls(screen, rest)
  BY <1>1, <1>3 DEF Held, Tracked, ShowsOwn, Polls
<1>5. CASE shown
  <2> DEFINE p == Finish(screen, screen.selected)
  <2>1. /\ p \in Screen /\ p.asking = screen.asking
        /\ p.selected = screen.selected /\ p.window = screen.window
        /\ p.hidden = screen.hidden /\ p.generation = screen.generation
        /\ p.gone = screen.gone /\ p.files = screen.files
        /\ p.processing = screen.processing /\ p.failed = screen.failed
        /\ p.timer = screen.timer /\ p.shown = screen.shown
        /\ p.run.target = screen.run.target /\ p.run.event = 0
        /\ p.run.outcome = screen.selected
    BY <1>2 DEF Screen, RunRecord, Names, Finish
  <2>2. Take(Step(p), {r})
    BY <1>1, <1>5
  <2> HIDE DEF p
  <2>3. \A kinds : Current(p, rest, kinds) <=> Current(screen, rest, kinds)
    BY <2>1 DEF Current
  <2>4. Tracked(p, rest) /\ Polls(p, rest)
    BY <1>4, <2>1, <2>3 DEF Tracked, Polls
  <2>5. ShowsOwn(p, rest)
    BY <1>4, <2>1, <2>3 DEF ShowsOwn
  <2>6. Commands(p, rest, editorGone)
    BY <1>1, <1>3, <2>1, <2>3 DEF Held, Commands
  <2>7. Step(p).page = p /\ rest \cup Step(p).sends = rest
    BY DEF Step
  <2> QED BY <1>1, <2>2, <2>4, <2>5, <2>6, <2>7, Taken DEF Held
<1>6. CASE ~shown
  <2>1. Take(Step(screen), {r})
    BY <1>1, <1>6
  <2>2. /\ screen.run.event = 0
        /\ ~Current(screen, flight, {"run", "deploy"})
    BY <1>1, <1>6 DEF Held, Commands, BelongsToScreen
  <2>3. Commands(screen, rest, editorGone)
    BY <1>1, <1>3, <2>2 DEF Held, Commands
  <2>4. Step(screen).page = screen /\ rest \cup Step(screen).sends = rest
    BY DEF Step
  <2> QED BY <1>1, <1>4, <2>1, <2>3, <2>4, Taken DEF Held
<1> QED BY <1>5, <1>6

----------------------------------------------------------------------------
(* The user, the browser and the timers *)

\* Another choice leaves every request on its way to an earlier one.  What getStack told
\* stays until the load ends.
LEMMA Loaded ==
  ASSUME NEW s \in Screen, s.asking <= s.generation, NEW fl,
         \A r \in fl : r.generation \in Nat /\ r.generation <= s.generation,
         NEW stack \in StackNames,
         \A r \in fl : r.kind = "deploy" => s.files /\ r.stack = stack,
         NEW ed, NEW t, t = LoadStack(s, stack)
  PROVE  Held(t.page, fl \cup t.sends, ed) /\ Polls(t.page, fl \cup t.sends)
<1> DEFINE cleared == Cleared(s.shown)
           moved == [s EXCEPT
                      !.selected = stack, !.generation = @ + 1, !.processing = TRUE,
                      !.failed = FALSE, !.shown = Cleared(@), !.timer = 0]
           fresh == Release(moved)
           quiet == [fresh EXCEPT !.processing = FALSE, !.shown.details = stack]
           q == Request("stack", stack, fresh.generation, 0)
<1>1. /\ NoRun \in RunRecord
      /\ cleared \in ShownRecord /\ cleared.status = Nothing
      /\ cleared.availability = Nothing /\ cleared.preview = Nothing
  <2>1. s.shown.details \in Names
    BY DEF Screen, ShownRecord
  <2>2. Blank \in ShownRecord
    BY DEF Blank, ShownRecord, Names
  <2> QED BY <2>1, <2>2 DEF NoRun, RunRecord, Names, Cleared, Blank, ShownRecord
<1>2. s.generation \in Nat /\ s.asking \in Nat
  BY DEF Screen
<1>3. /\ fresh \in Screen /\ fresh.asking = s.asking
      /\ fresh.selected = stack /\ fresh.generation = s.generation + 1
      /\ fresh.processing /\ fresh.timer = 0 /\ fresh.shown = cleared
      /\ fresh.run = NoRun /\ fresh.files = s.files
  <2> HIDE DEF cleared
  <2>1. /\ moved \in Screen /\ moved.asking = s.asking
        /\ moved.selected = stack /\ moved.generation = s.generation + 1
        /\ moved.processing /\ moved.timer = 0 /\ moved.shown = cleared
        /\ moved.files = s.files
    <3>1. s.generation + 1 \in Nat
      BY <1>2
    <3>2. moved = [s EXCEPT
                      !.selected = stack, !.generation = @ + 1, !.processing = TRUE,
                      !.failed = FALSE, !.shown = cleared, !.timer = 0]
      BY DEF Screen, cleared
    <3> HIDE DEF moved
    <3>3. moved \in Screen
      BY <1>1, <3>1, <3>2 DEF Screen
    <3> QED BY <3>2, <3>3 DEF Screen
  <2> HIDE DEF moved
  <2> QED BY <1>1, <2>1 DEF Screen, Release
<1> HIDE DEF fresh, cleared
<1>4. /\ quiet \in Screen /\ quiet.asking = s.asking
      /\ quiet.selected = stack /\ quiet.generation = s.generation + 1
      /\ ~quiet.processing /\ quiet.timer = 0 /\ quiet.files = s.files
      /\ quiet.shown.status = Nothing /\ quiet.shown.availability = Nothing
      /\ quiet.shown.preview = Nothing /\ quiet.shown.details = stack
      /\ quiet.run = NoRun
  <2>1. stack \in Names
    BY DEF Names
  <2>2. quiet \in Screen
    BY <1>1, <1>3, <2>1 DEF Screen, ShownRecord
  <2> QED BY <1>1, <1>3, <2>1, <2>2 DEF Screen, ShownRecord
<1>5. q.kind = "stack" /\ q.stack = stack /\ q.generation = fresh.generation
  BY DEF Request
<1> HIDE DEF quiet
<1>6. ASSUME NEW p \in {fresh, quiet}
      PROVE  /\ Tracked(p, fl) /\ \A kinds : ~Current(p, fl, kinds)
             /\ p.run.event = 0 /\ p.run.target = Nothing /\ p.run.outcome = Nothing
  <2>1. \A kinds : ~Current(p, fl, kinds)
    BY <1>2, <1>3, <1>4 DEF Current
  <2> QED BY <1>2, <1>3, <1>4, <2>1 DEF Tracked, NoRun
<1>7. CASE owner
  <2>1. t.page = fresh /\ t.sends = {q}
    BY <1>7 DEF LoadStack, Then, Step, fresh, q, moved
  <2>2. q = Request("stack", fresh.selected, fresh.generation, 0)
    BY <1>3
  <2> HIDE DEF q
  <2>3. /\ Current(fresh, fl \cup {q}, {"stack"}) /\ Current(fresh, fl \cup {q}, {"stack", "run"})
        /\ ~Current(fresh, fl \cup {q}, {"run", "deploy"})
        /\ ~Current(fresh, fl \cup {q}, {"run"})
        /\ ~Current(fresh, fl \cup {q}, {"status"})
    BY <1>5, <1>6 DEF Current
  <2>4. Tracked(fresh, fl \cup {q})
    BY <1>2, <1>3, <1>5, <1>6 DEF Tracked
  <2>5. ShowsOwn(fresh, fl \cup {q})
    BY <1>1, <1>3, <1>6, <2>3 DEF ShowsOwn
  <2>6. Commands(fresh, fl \cup {q}, ed)
    <3>1. \A r \in fl : r.generation # fresh.generation
      BY <1>2, <1>3
    <3> QED BY <1>3, <1>5, <1>6, <2>2, <2>3, <3>1 DEF Commands
  <2>7. Polls(fresh, fl \cup {q})
    BY <2>3 DEF Polls
  <2> QED BY <2>1, <2>4, <2>5, <2>6, <2>7 DEF Held
<1>8. CASE ~owner
  <2> HIDE DEF q
  <2> DEFINE asked == RequestServiceStatus(Step(quiet), quiet.generation)
             all == RequestAvailability(asked)
  <2>1. t = all
    BY <1>3, <1>4, <1>8 DEF LoadStack, fresh, quiet, moved
  <2>2. Held(quiet, fl, ed)
    <3>1. \A r \in fl : r.generation # quiet.generation
      BY <1>2, <1>4
    <3>2. ShowsOwn(quiet, fl) /\ Commands(quiet, fl, ed)
      BY <1>4, <1>6, <3>1 DEF ShowsOwn, Commands
    <3> QED BY <1>6, <3>2 DEF Held
  <2>3. /\ Held(asked.page, fl \cup asked.sends, ed)
        /\ Polls(asked.page, fl \cup asked.sends)
    BY <2>2, StatusAsked
  <2> HIDE DEF asked
  <2>4. Held(all.page, fl \cup all.sends, ed) /\ Polls(all.page, fl \cup all.sends)
    BY <2>3, AvailabilityAsked
  <2> QED BY <2>1, <2>4
<1> QED BY <1>7, <1>8

\* The page opens as if its first stack had been chosen.
LEMMA Opened ==
  ASSUME SelInit
  PROVE  SelInv
<1>1. PICK stack \in StackNames, hours \in Windows :
        LET opened == LoadStack(
               [selected |-> stack, window |-> hours, hidden |-> FALSE,
                generation |-> 0, gone |-> FALSE, files |-> FALSE,
                processing |-> TRUE, failed |-> FALSE, asking |-> 0, timer |-> 0,
                shown |-> Blank, run |-> NoRun], stack)
        IN  screen = opened.page /\ flight = opened.sends
  BY DEF SelInit
<1> DEFINE blank == [selected |-> stack, window |-> hours, hidden |-> FALSE,
                     generation |-> 0, gone |-> FALSE, files |-> FALSE,
                     processing |-> TRUE, failed |-> FALSE, asking |-> 0, timer |-> 0,
                     shown |-> Blank, run |-> NoRun]
           t == LoadStack(blank, stack)
<1>2. NoRun \in RunRecord /\ Blank \in ShownRecord
  BY DEF NoRun, Blank, RunRecord, ShownRecord, Names
<1>3. blank \in Screen /\ blank.asking <= blank.generation
  BY <1>2 DEF Screen
<1>4. screen = t.page /\ flight = t.sends
  BY <1>1
<1> HIDE DEF blank
<1>5. Held(t.page, {} \cup t.sends, editorGone) /\ Polls(t.page, {} \cup t.sends)
  BY <1>3, Loaded
<1> HIDE DEF t
<1>6. Held(screen, flight, editorGone) /\ Polls(screen, flight)
  BY <1>4, <1>5
<1> QED BY <1>6 DEF SelInv, SelInit

\* Choose, which forgets the editor with the choice it belonged to.
LEMMA Chosen ==
  ASSUME SelInv, NEW stack \in StackNames, Choose(stack)
  PROVE  SelInv'
<1> DEFINE t == LoadStack(screen, stack)
           rest == flight \ Deployments
<1>1. /\ screen \in Screen /\ screen.asking <= screen.generation
      /\ \A r \in rest : r.generation \in Nat /\ r.generation <= screen.generation
      /\ runsBegun' \in Nat /\ Take(t, Deployments) /\ editorGone' = FALSE
  BY DEF SelInv, Held, Tracked, Choose
<1>2. \A r \in rest : r.kind # "deploy"
  BY DEF Deployments
<1> HIDE DEF rest
<1>3. Held(t.page, rest \cup t.sends, FALSE) /\ Polls(t.page, rest \cup t.sends)
  BY <1>1, <1>2, Loaded
<1> HIDE DEF t
<1> QED BY <1>1, <1>3, Taken DEF rest

\* Retry, which leaves the editor where it is.
LEMMA Retried ==
  ASSUME SelInv, Retry
  PROVE  SelInv'
<1> DEFINE t == LoadStack(screen, screen.selected)
<1>1. /\ screen \in Screen /\ screen.asking <= screen.generation
      /\ \A r \in flight : r.generation \in Nat /\ r.generation <= screen.generation
      /\ \A r \in flight : r.kind = "deploy" => screen.files /\ r.stack = screen.selected
      /\ runsBegun' \in Nat /\ Take(t, {}) /\ editorGone' = FALSE
  BY DEF SelInv, Held, Tracked, Commands, Retry
<1>2. screen.selected \in StackNames
  BY <1>1 DEF Screen
<1>3. Held(t.page, flight \cup t.sends, FALSE) /\ Polls(t.page, flight \cup t.sends)
  BY <1>1, <1>2, Loaded
<1>4. (flight \ {}) \cup t.sends = flight \cup t.sends
  OBVIOUS
<1> HIDE DEF t
<1> QED BY <1>1, <1>3, <1>4, Taken

\* SelectWindow leaves what is shown of the old window until the new answer.
LEMMA WindowSelected ==
  ASSUME SelInv, NEW hours \in Windows, SelectWindow(hours)
  PROVE  SelInv'
<1> DEFINE p == [screen EXCEPT !.window = hours]
           q == Request("availability", p.selected, p.generation, p.window)
           t == RequestAvailability(Step(p))
<1>1. /\ Held(screen, flight, editorGone) /\ Polls(screen, flight) /\ screen \in Screen
      /\ Take(t, {}) /\ editorGone' = editorGone /\ runsBegun' \in Nat
  BY DEF SelInv, Held, Tracked, SelectWindow
<1>2. /\ p \in Screen /\ p.asking = screen.asking
      /\ p.selected = screen.selected /\ p.window = hours
      /\ p.hidden = screen.hidden /\ p.generation = screen.generation
      /\ p.gone = screen.gone /\ p.files = screen.files
      /\ p.processing = screen.processing /\ p.failed = screen.failed
      /\ p.run = screen.run /\ p.timer = screen.timer /\ p.shown = screen.shown
  BY <1>1 DEF Screen
<1>3. t.page = p /\ t.sends = {q}
  BY DEF RequestAvailability, Then, Step
<1> HIDE DEF p, t
<1>4. /\ q.kind = "availability" /\ q.generation = screen.generation
      /\ q.stack = screen.selected /\ q.extra = p.window
  BY <1>2 DEF Request
<1> HIDE DEF q
<1>5. /\ Held(screen, flight \cup {q}, editorGone) /\ Polls(screen, flight \cup {q})
  BY <1>1, <1>4, Sent
<1>6. \A kinds : Current(p, flight \cup {q}, kinds) <=> Current(screen, flight \cup {q}, kinds)
  BY <1>2 DEF Current
<1>7. Tracked(p, flight \cup {q}) /\ Polls(p, flight \cup {q})
  BY <1>2, <1>5, <1>6 DEF Held, Tracked, Polls
<1>8. ShowsOwn(p, flight \cup {q})
  BY <1>2, <1>4, <1>5, <1>6 DEF Held, ShowsOwn
<1>9. Commands(p, flight \cup {q}, editorGone)
  BY <1>2, <1>5, <1>6 DEF Held, Commands
<1>10. (flight \ {}) \cup t.sends = flight \cup {q}
  BY <1>3
<1> QED BY <1>1, <1>3, <1>7, <1>8, <1>9, <1>10, Taken DEF Held

\* A page whose timer is stopped, by itself or by a change of visibility.
LEMMA Stopped ==
  ASSUME NEW s, NEW fl, NEW ed, Held(s, fl, ed)
  PROVE  Held([s EXCEPT !.timer = 0], fl, ed)
<1> DEFINE p == [s EXCEPT !.timer = 0]
<1>1. s \in Screen
  BY DEF Held, Tracked
<1>2. /\ p \in Screen /\ p.asking = s.asking
      /\ p.selected = s.selected /\ p.window = s.window
      /\ p.hidden = s.hidden /\ p.generation = s.generation
      /\ p.gone = s.gone /\ p.files = s.files
      /\ p.processing = s.processing /\ p.failed = s.failed
      /\ p.run = s.run /\ p.timer = 0 /\ p.shown = s.shown
  BY <1>1 DEF Screen
<1> HIDE DEF p
<1>3. \A kinds : Current(p, fl, kinds) <=> Current(s, fl, kinds)
  BY <1>2 DEF Current
<1>4. Tracked(p, fl)
  BY <1>2, <1>3 DEF Held, Tracked
<1>5. ShowsOwn(p, fl)
  BY <1>2, <1>3 DEF Held, ShowsOwn
<1>6. Commands(p, fl, ed)
  BY <1>2, <1>3 DEF Held, Commands
<1> QED BY <1>4, <1>5, <1>6 DEF Held, p

\* A page that is looked at again asks at once.
LEMMA Turned ==
  ASSUME SelInv, Turns
  PROVE  SelInv'
<1> DEFINE s == [screen EXCEPT !.hidden = ~@]
           p == [s EXCEPT !.timer = 0]
           t == OnVisibility(s)
<1>1. /\ Held(screen, flight, editorGone) /\ screen \in Screen
      /\ Take(t, {}) /\ editorGone' = editorGone /\ runsBegun' \in Nat
  BY DEF SelInv, Held, Tracked, Turns
<1>2. screen.hidden \in BOOLEAN
  BY <1>1 DEF Screen
<1>3. /\ s \in Screen /\ s.asking = screen.asking
      /\ s.selected = screen.selected /\ s.window = screen.window
      /\ s.generation = screen.generation
      /\ s.gone = screen.gone /\ s.files = screen.files
      /\ s.processing = screen.processing /\ s.failed = screen.failed
      /\ s.run = screen.run /\ s.timer = screen.timer /\ s.shown = screen.shown
  BY <1>1, <1>2 DEF Screen
<1> HIDE DEF s
<1>4. \A kinds : Current(s, flight, kinds) <=> Current(screen, flight, kinds)
  BY <1>3 DEF Current
<1>5. Tracked(s, flight)
  BY <1>1, <1>3, <1>4 DEF Held, Tracked
<1>6. ShowsOwn(s, flight)
  BY <1>1, <1>3, <1>4 DEF Held, ShowsOwn
<1>7. Commands(s, flight, editorGone)
  BY <1>1, <1>3, <1>4 DEF Held, Commands
<1>8. Held(p, flight, editorGone)
  BY <1>5, <1>6, <1>7, Stopped DEF Held
<1>9. p.hidden = s.hidden /\ p.generation = s.generation
  BY <1>3 DEF Screen
<1> HIDE DEF p
<1>10. flight \ {} = flight
  OBVIOUS
<1>11. CASE s.hidden
  <2>1. t = Step(p)
    BY <1>11 DEF OnVisibility, p
  <2>2. t.page = p /\ flight \cup t.sends = flight
    BY <2>1 DEF Step
  <2>3. Polls(p, flight)
    BY <1>9, <1>11 DEF Polls
  <2> HIDE DEF t
  <2> QED BY <1>1, <1>8, <1>10, <2>2, <2>3, Taken
<1>12. CASE ~s.hidden
  <2> DEFINE asked == RequestServiceStatus(Step(p), p.generation)
             all == RequestAvailability(asked)
  <2>1. t = all
    BY <1>9, <1>12 DEF OnVisibility, p
  <2>2. /\ Held(asked.page, flight \cup asked.sends, editorGone)
        /\ Polls(asked.page, flight \cup asked.sends)
    BY <1>8, StatusAsked
  <2> HIDE DEF asked
  <2>3. /\ Held(all.page, flight \cup all.sends, editorGone)
        /\ Polls(all.page, flight \cup all.sends)
    BY <2>2, AvailabilityAsked
  <2> HIDE DEF all, t
  <2> QED BY <1>1, <1>10, <2>1, <2>3, Taken
<1> QED BY <1>11, <1>12

\* The timer is of this choice: it asks again, or an earlier question is on its way.
LEMMA Fired ==
  ASSUME SelInv, TimerFires
  PROVE  SelInv'
<1> DEFINE p == [screen EXCEPT !.timer = 0]
           t == RequestServiceStatus(Step(p), p.generation)
<1>1. /\ Held(screen, flight, editorGone) /\ screen \in Screen
      /\ editorGone' = editorGone /\ runsBegun' \in Nat
      /\ screen.timer = screen.generation
  BY DEF SelInv, Held, Tracked, TimerFires
<1>2. p.generation = screen.generation
  BY <1>1 DEF Screen
<1>3. Take(t, {})
  BY <1>1, <1>2 DEF TimerFires
<1>4. Held(p, flight, editorGone)
  BY <1>1, Stopped
<1> HIDE DEF p
<1>5. Held(t.page, flight \cup t.sends, editorGone) /\ Polls(t.page, flight \cup t.sends)
  BY <1>4, StatusAsked
<1> HIDE DEF t
<1>6. (flight \ {}) \cup t.sends = flight \cup t.sends
  OBVIOUS
<1> QED BY <1>1, <1>3, <1>5, <1>6, Taken

\* The clock of a command only asks.
LEMMA Ticked ==
  ASSUME SelInv, RunTicks
  PROVE  SelInv'
<1> DEFINE t == RequestServiceStatus(Step(screen), screen.generation)
<1>1. /\ Held(screen, flight, editorGone) /\ Take(t, {})
      /\ editorGone' = editorGone /\ runsBegun' \in Nat
  BY DEF SelInv, RunTicks
<1>2. Held(t.page, flight \cup t.sends, editorGone) /\ Polls(t.page, flight \cup t.sends)
  BY <1>1, StatusAsked
<1> HIDE DEF t
<1>3. (flight \ {}) \cup t.sends = flight \cup t.sends
  OBVIOUS
<1> QED BY <1>1, <1>2, <1>3, Taken

\* The preview of before goes, and one of this choice is asked for.
LEMMA PreviewOpened ==
  ASSUME SelInv, OpenUpdatePreview
  PROVE  SelInv'
<1> DEFINE p == [screen EXCEPT !.shown.preview = Nothing]
           q == Request("preview", screen.selected, screen.generation, 0)
           t == Then(Step(screen), p, {q})
<1>1. /\ Held(screen, flight, editorGone) /\ Polls(screen, flight) /\ screen \in Screen
      /\ Take(t, {}) /\ editorGone' = editorGone /\ runsBegun' \in Nat
  BY DEF SelInv, Held, Tracked, OpenUpdatePreview
<1>2. t.page = p /\ t.sends = {q}
  BY DEF Then, Step
<1>3. p.generation = screen.generation /\ p.selected = screen.selected
  BY <1>1 DEF Screen
<1>4. Held(p, flight, editorGone) /\ Polls(p, flight)
  BY <1>1, Previewed
<1>5. q.kind = "preview" /\ q.generation = p.generation /\ q.stack = p.selected
  BY <1>3 DEF Request
<1> HIDE DEF p, q, t
<1>6. Held(p, flight \cup {q}, editorGone) /\ Polls(p, flight \cup {q})
  BY <1>4, <1>5, Sent
<1>7. (flight \ {}) \cup t.sends = flight \cup {q}
  BY <1>2
<1> QED BY <1>1, <1>2, <1>6, <1>7, Taken

\* From the page s to p with a command q of this choice, on the screen and on its way.
Commanding(s, p, q) ==
    /\ p \in Screen /\ p.asking = s.asking
    /\ p.selected = s.selected /\ p.window = s.window /\ p.hidden = s.hidden
    /\ p.generation = s.generation /\ p.gone = s.gone /\ p.files = s.files
    /\ p.failed = s.failed /\ p.timer = s.timer
    /\ p.shown.status = s.shown.status /\ p.shown.availability = s.shown.availability
    /\ p.shown.of = s.shown.of /\ p.shown.preview \in {Nothing, s.shown.preview}
    /\ p.shown.details = s.shown.details
    /\ p.run.target = s.selected /\ p.run.outcome = Nothing
    /\ q.kind \in {"run", "deploy"} /\ q.generation = s.generation /\ q.stack = s.selected
    /\ q.kind = "deploy" => s.files
    /\ q.kind = "run" => p.processing /\ ~s.processing
    /\ q.kind = "deploy" => p.processing = s.processing

\* Such a command keeps the page.
LEMMA Commanded ==
  ASSUME NEW s, NEW fl, NEW ed, Held(s, fl, ed), Polls(s, fl), NEW p, NEW q,
         Commanding(s, p, q)
  PROVE  Held(p, fl \cup {q}, ed) /\ Polls(p, fl \cup {q})
<1>1. \A kinds : Current(s, fl, kinds) => Current(p, fl \cup {q}, kinds)
  BY DEF Current, Commanding
<1>2. /\ Current(p, fl \cup {q}, {"run", "deploy"})
      /\ q.kind = "run" => Current(p, fl \cup {q}, {"stack", "run"})
      /\ q.kind = "deploy" => (Current(p, fl \cup {q}, {"run"}) => Current(s, fl, {"run"}))
      /\ Current(p, fl \cup {q}, {"stack"}) => Current(s, fl, {"stack"})
  BY DEF Current, Commanding
<1>3. Tracked(p, fl \cup {q})
  <2>1. s.generation \in Nat /\ s.generation <= s.generation
    BY DEF Held, Tracked, Screen
  <2> QED BY <1>1, <2>1 DEF Held, Tracked, Commanding
<1>4. ShowsOwn(p, fl \cup {q})
  BY <1>1 DEF Held, ShowsOwn, Commanding
<1>5. Commands(p, fl \cup {q}, ed)
  BY <1>1, <1>2 DEF Held, Commands, Commanding
<1>6. Polls(p, fl \cup {q})
  BY <1>1, <1>2 DEF Polls, Commanding
<1> QED BY <1>3, <1>4, <1>5, <1>6 DEF Held

\* What StackRun.start changes.
LEMMA Started ==
  ASSUME NEW s \in Screen, NEW command \in Nat
  PROVE  LET p == Start(s, command) IN
         /\ p \in Screen /\ p.asking = s.asking
         /\ p.selected = s.selected /\ p.window = s.window
         /\ p.hidden = s.hidden /\ p.generation = s.generation
         /\ p.gone = s.gone /\ p.files = s.files
         /\ p.processing = s.processing /\ p.failed = s.failed
         /\ p.timer = s.timer /\ p.shown = s.shown
         /\ p.run.target = s.selected /\ p.run.outcome = Nothing
<1> DEFINE r == [target |-> s.selected, event |-> command, outcome |-> Nothing]
<1>1. r \in RunRecord /\ r.target = s.selected /\ r.outcome = Nothing
  BY DEF RunRecord, Names, Screen
<1>2. Start(s, command) = [s EXCEPT !.run = r]
  BY DEF Start
<1> HIDE DEF r
<1> QED BY <1>1, <1>2 DEF Screen

\* Both kinds of buttons begin a command of this choice.
LEMMA RunClicked ==
  ASSUME SelInv, Run \/ RunService
  PROVE  SelInv'
<1> DEFINE a == Start(screen, runsBegun')
           b == [a EXCEPT !.processing = TRUE]
<1>1. /\ Held(screen, flight, editorGone) /\ Polls(screen, flight) /\ screen \in Screen
      /\ runsBegun' \in Nat /\ editorGone' = editorGone /\ ~screen.processing
  BY DEF SelInv, Held, Tracked, Run, RunService, StackButtons
<1>2. /\ a \in Screen /\ a.asking = screen.asking
      /\ a.selected = screen.selected /\ a.window = screen.window
      /\ a.hidden = screen.hidden /\ a.generation = screen.generation
      /\ a.gone = screen.gone /\ a.files = screen.files
      /\ a.processing = screen.processing /\ a.failed = screen.failed
      /\ a.timer = screen.timer /\ a.shown = screen.shown
      /\ a.run.target = screen.selected /\ a.run.outcome = Nothing
  BY <1>1, Started
<1> HIDE DEF a
<1>3. /\ b \in Screen /\ b.asking = screen.asking
      /\ b.selected = screen.selected /\ b.window = screen.window
      /\ b.hidden = screen.hidden /\ b.generation = screen.generation
      /\ b.gone = screen.gone /\ b.files = screen.files
      /\ b.failed = screen.failed /\ b.processing
      /\ b.timer = screen.timer /\ b.shown = screen.shown
      /\ b.run = a.run
  BY <1>2 DEF Screen
<1> HIDE DEF b
<1>4. ASSUME NEW c \in Screen,
             c.asking = screen.asking, c.selected = screen.selected,
             c.window = screen.window, c.hidden = screen.hidden,
             c.generation = screen.generation, c.gone = screen.gone,
             c.files = screen.files, c.failed = screen.failed, c.timer = screen.timer,
             c.processing, c.shown.details = screen.shown.details,
             c.shown.status = screen.shown.status,
             c.shown.availability = screen.shown.availability,
             c.shown.of = screen.shown.of,
             c.shown.preview \in {Nothing, screen.shown.preview}, c.run = a.run,
             Take(Then(Step(c), c, {Request("run", c.selected, c.generation, runsBegun')}),
                  {})
      PROVE  SelInv'
  <2> DEFINE q == Request("run", c.selected, c.generation, runsBegun')
             t == Then(Step(c), c, {q})
  <2>1. t.page = c /\ t.sends = {q}
    BY DEF Then, Step
  <2>2. q.kind = "run" /\ q.generation = screen.generation /\ q.stack = screen.selected
    BY <1>4 DEF Request
  <2>3. Take(t, {})
    BY <1>4
  <2> HIDE DEF q, t
  <2>4. c.run.target = screen.selected /\ c.run.outcome = Nothing
    BY <1>2, <1>4
  <2>5. Held(c, flight \cup {q}, editorGone) /\ Polls(c, flight \cup {q})
    <3>1. Commanding(screen, c, q)
      BY <1>1, <1>4, <2>2, <2>4 DEF Commanding
    <3> QED BY <1>1, <3>1, Commanded
  <2>6. (flight \ {}) \cup t.sends = flight \cup {q}
    BY <2>1
  <2> QED BY <1>1, <2>1, <2>3, <2>5, <2>6, Taken
<1>5. CASE Run
  <2>1. PICK preview \in {Nothing, screen.shown.preview} :
          LET c == [a EXCEPT !.processing = TRUE, !.shown.preview = preview]
          IN  Take(Then(Step(c), c, {Request("run", c.selected, c.generation, runsBegun')}),
                   {})
    BY <1>5 DEF Run, a
  <2> DEFINE c == [a EXCEPT !.processing = TRUE, !.shown.preview = preview]
  <2>2. a.shown \in ShownRecord /\ preview \in Names
    BY <1>1, <1>2 DEF Screen, ShownRecord, Names
  <2>3. /\ c \in Screen /\ c.asking = screen.asking
        /\ c.selected = screen.selected /\ c.window = screen.window
        /\ c.hidden = screen.hidden /\ c.generation = screen.generation
        /\ c.gone = screen.gone /\ c.files = screen.files
        /\ c.failed = screen.failed /\ c.timer = screen.timer
        /\ c.shown.status = screen.shown.status
        /\ c.shown.availability = screen.shown.availability
        /\ c.shown.of = screen.shown.of /\ c.shown.preview = preview
        /\ c.processing /\ c.shown.details = screen.shown.details
        /\ c.run = a.run
    <3>1. c \in Screen
      BY <1>2, <2>2 DEF Screen, ShownRecord
    <3> QED BY <1>2, <2>2, <3>1 DEF Screen, ShownRecord
  <2> QED BY <1>4, <2>1, <2>3
<1>6. CASE RunService
  <2>1. Take(Then(Step(b), b, {Request("run", b.selected, b.generation, runsBegun')}), {})
    BY <1>6 DEF RunService, a, b
  <2> QED BY <1>3, <1>4, <2>1
<1> QED BY <1>5, <1>6

\* So does the editor, which is shown while it begins one.
LEMMA EditorDeployed ==
  ASSUME SelInv, EditorDeploys
  PROVE  SelInv'
<1> DEFINE a == Start(screen, runsBegun')
           q == Request("deploy", a.selected, a.generation, runsBegun')
           t == Then(Step(a), a, {q})
<1>1. /\ Held(screen, flight, editorGone) /\ Polls(screen, flight) /\ screen \in Screen
      /\ runsBegun' \in Nat /\ editorGone' = editorGone /\ screen.files /\ Take(t, {})
  BY DEF SelInv, Held, Tracked, EditorDeploys
<1>2. /\ a \in Screen /\ a.asking = screen.asking
      /\ a.selected = screen.selected /\ a.window = screen.window
      /\ a.hidden = screen.hidden /\ a.generation = screen.generation
      /\ a.gone = screen.gone /\ a.files = screen.files
      /\ a.processing = screen.processing /\ a.failed = screen.failed
      /\ a.timer = screen.timer /\ a.shown = screen.shown
      /\ a.run.target = screen.selected /\ a.run.outcome = Nothing
  BY <1>1, Started
<1>3. t.page = a /\ t.sends = {q}
  BY DEF Then, Step
<1> HIDE DEF a, t
<1>4. q.kind = "deploy" /\ q.generation = screen.generation /\ q.stack = screen.selected
  BY <1>2 DEF Request
<1> HIDE DEF q
<1>5. Held(a, flight \cup {q}, editorGone) /\ Polls(a, flight \cup {q})
  <2>1. Commanding(screen, a, q)
    BY <1>1, <1>2, <1>4 DEF Commanding
  <2> QED BY <1>1, <2>1, Commanded
<1>6. (flight \ {}) \cup t.sends = flight \cup {q}
  BY <1>3
<1> QED BY <1>1, <1>3, <1>5, <1>6, Taken

\* An editor that is closed during its deployment is remembered.
LEMMA TabTurned ==
  ASSUME SelInv, FilesTab
  PROVE  SelInv'
<1> DEFINE p == [screen EXCEPT !.files = ~@]
           ed == editorGone'
           rest == flight \ Deployments
<1>1. /\ Held(screen, flight, editorGone) /\ Polls(screen, flight) /\ screen \in Screen
      /\ runsBegun' \in Nat /\ Take(Step(p), Deployments)
      /\ ed <=> editorGone \/ Deployments # {}
  BY DEF SelInv, Held, Tracked, FilesTab
<1>2. screen.files \in BOOLEAN
  BY <1>1 DEF Screen
<1>3. /\ p \in Screen /\ p.asking = screen.asking
      /\ p.selected = screen.selected /\ p.window = screen.window
      /\ p.hidden = screen.hidden /\ p.generation = screen.generation
      /\ p.gone = screen.gone /\ p.files = ~screen.files
      /\ p.processing = screen.processing /\ p.failed = screen.failed
      /\ p.run = screen.run /\ p.timer = screen.timer /\ p.shown = screen.shown
  BY <1>1, <1>2 DEF Screen
<1> HIDE DEF p
<1>4. /\ \A kinds : "deploy" \notin kinds =>
           (Current(p, rest, kinds) <=> Current(screen, flight, kinds))
      /\ Current(p, rest, {"run", "deploy"}) => Current(screen, flight, {"run", "deploy"})
      /\ Current(screen, flight, {"run", "deploy"}) =>
           ed \/ Current(p, rest, {"run", "deploy"})
      /\ \A r \in rest : r.kind # "deploy"
  BY <1>1, <1>3 DEF Current, Deployments
<1>5. Tracked(p, rest) /\ Polls(p, rest)
  BY <1>1, <1>3, <1>4 DEF Held, Tracked, Polls
<1>6. ShowsOwn(p, rest)
  <2>1. \A r \in flight : r.kind = "availability" => r \in rest
    BY DEF Deployments
  <2> QED BY <1>1, <1>3, <1>4, <2>1 DEF Held, ShowsOwn
<1>7. Commands(p, rest, ed)
  BY <1>1, <1>3, <1>4 DEF Held, Commands
<1>8. Step(p).page = p /\ rest \cup Step(p).sends = rest
  BY DEF Step
<1> QED BY <1>1, <1>5, <1>6, <1>7, <1>8, Taken DEF Held

\* A page that is gone has no request of its generation.
LEMMA Left ==
  ASSUME SelInv, Unmounted
  PROVE  SelInv'
<1> DEFINE gone == [screen EXCEPT !.gone = TRUE, !.generation = @ + 1, !.timer = 0]
           p == Release(gone)
<1>1. /\ Held(screen, flight, editorGone) /\ screen \in Screen
      /\ runsBegun' \in Nat /\ Take(Step(p), {}) /\ editorGone' = editorGone
  BY DEF SelInv, Held, Tracked, Unmounted
<1>2. NoRun \in RunRecord
  BY DEF NoRun, RunRecord, Names
<1>3. screen.generation \in Nat /\ screen.asking \in Nat
  BY <1>1 DEF Screen
<1>4. /\ p \in Screen /\ p.asking = screen.asking
      /\ p.selected = screen.selected /\ p.generation = screen.generation + 1
      /\ p.gone /\ p.timer = 0 /\ p.shown = screen.shown /\ p.run = NoRun
      /\ p.files = screen.files
  <2>1. /\ gone \in Screen /\ gone.asking = screen.asking
        /\ gone.selected = screen.selected /\ gone.generation = screen.generation + 1
        /\ gone.gone /\ gone.timer = 0 /\ gone.shown = screen.shown
        /\ gone.files = screen.files
    <3>1. screen.generation + 1 \in Nat
      BY <1>3
    <3>2. gone \in Screen
      BY <1>1, <3>1 DEF Screen
    <3> QED BY <1>1, <3>2 DEF Screen
  <2> HIDE DEF gone
  <2> QED BY <1>2, <2>1 DEF Screen, Release
<1> HIDE DEF p
<1>5. \A kinds : ~Current(p, flight, kinds)
  BY <1>1, <1>3, <1>4 DEF Current, Held, Tracked
<1>6. Tracked(p, flight)
  BY <1>1, <1>3, <1>4 DEF Held, Tracked
<1>7. ShowsOwn(p, flight)
  BY <1>1, <1>4 DEF Held, ShowsOwn, NoRun
<1>8. Commands(p, flight, editorGone) /\ Polls(p, flight)
  <2>1. \A r \in flight : r.generation # p.generation
    BY <1>1, <1>3, <1>4 DEF Held, Tracked
  <2> QED BY <1>1, <1>4, <1>5, <2>1 DEF Held, Commands, Polls, NoRun
<1>9. Step(p).page = p /\ (flight \ {}) \cup Step(p).sends = flight
  BY DEF Step
<1> QED BY <1>1, <1>6, <1>7, <1>8, <1>9, Taken DEF Held

----------------------------------------------------------------------------
(* The theorems *)

\* Whatever was chosen, asked and answered in whatever order, the tracker's generations
\* tell whose each request is, and an owner's page has the details of another stack only
\* while getStack is under way or after it failed (StackInspector.vue:995-1042,
\* request-tracker.ts, stack-run.ts).
THEOREM SelectionInvariance == SelSpec => []SelInv
<1>1. SelInit => SelInv
  BY Opened
<1>2. SelInv /\ [SelNext]_screenVars => SelInv'
  <2> SUFFICES ASSUME SelInv, [SelNext]_screenVars PROVE SelInv'
    OBVIOUS
  <2>1. CASE UNCHANGED screenVars
    BY <2>1 DEF SelInv, screenVars
  <2>2. ASSUME NEW r \in flight, Answers(r) PROVE SelInv'
    BY <2>2, StackAnswered, StatusAnswered, AvailabilityAnswered, PreviewAnswered,
       RunAnswered, DeployAnswered DEF Answers
  <2>3. CASE \E stack \in StackNames : Choose(stack)
    BY <2>3, Chosen
  <2>4. CASE \E hours \in Windows : SelectWindow(hours)
    BY <2>4, WindowSelected
  <2>5. CASE Turns
    BY <2>5, Turned
  <2>6. CASE TimerFires
    BY <2>6, Fired
  <2>7. CASE RunTicks
    BY <2>7, Ticked
  <2>8. CASE OpenUpdatePreview
    BY <2>8, PreviewOpened
  <2>9. CASE Run \/ RunService
    BY <2>9, RunClicked
  <2>10. CASE EditorDeploys
    BY <2>10, EditorDeployed
  <2>11. CASE FilesTab
    BY <2>11, TabTurned
  <2>12. CASE Unmounted
    BY <2>12, Left
  <2>13. CASE Retry
    BY <2>13, Retried
  <2> QED BY <2>1, <2>2, <2>3, <2>4, <2>5, <2>6, <2>7, <2>8, <2>9, <2>10, <2>11, <2>12,
             <2>13
          DEF SelNext
<1> QED BY <1>1, <1>2, PTL DEF SelSpec

\* What a page polls and runs belongs to the stack and the window that are chosen; details
\* of the stack before stay only while getStack is under way, with the buttons waiting, or
\* under the error of a load that failed.  The page goes on reading its stack, and has an
\* answer on its way for every command and button that waits (StackInspector.vue:995-1096).
THEOREM PageKeepsItsStack == SelSpec => []ScreenKept
<1>1. SelInv => ScreenKept
  <2> SUFFICES ASSUME SelInv PROVE ScreenKept
    OBVIOUS
  <2>1. Held(screen, flight, editorGone) /\ Polls(screen, flight)
    BY DEF SelInv
  <2>2. ShownIsChosen
    <3>1. Current(screen, flight, {"stack"}) <=> Loading(screen)
      BY DEF Current, Loading
    <3> QED BY <2>1, <3>1 DEF Held, ShowsOwn, Commands, ShownIsChosen, SameQuestion, IsCurrent
  <2>3. StatusKeepsComing
    BY <2>1 DEF Polls, Current, StatusKeepsComing, Loading, InFlight
  <2>4. RunsEnd
    <3>1. screen.run.event # 0 => editorGone \/ Current(screen, flight, {"run", "deploy"})
      BY <2>1 DEF Held, Commands
    <3>2. Current(screen, flight, {"run", "deploy"}) =>
            \E r \in flight : r.kind \in {"run", "deploy"} /\ r.stack = screen.selected
      BY <2>1 DEF Current, Held, Tracked
    <3>3. ~screen.gone /\ screen.processing => InFlight({"stack", "run"})
      BY <2>1 DEF Held, Commands, Current, InFlight
    <3> QED BY <3>1, <3>2, <3>3 DEF RunsEnd
  <2> QED BY <2>2, <2>3, <2>4 DEF ScreenKept
<1> QED BY <1>1, SelectionInvariance, PTL
=============================================================================
