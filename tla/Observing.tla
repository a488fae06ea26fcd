----------------------------- MODULE Observing -----------------------------
(***************************************************************************)
(* What the panel writes down about its stacks while nobody looks, and how *)
(* it stops: the round of every ten seconds (scheduled-rounds.ts,          *)
(* dockge-server.ts), the intervals it confirms (observations.ts), the     *)
(* availability read from them (common/availability.ts), the ordered       *)
(* shutdown (resource-owner.ts) and the exit after an error nobody handled *)
(* (fatal-error.ts).                                                       *)
(*                                                                         *)
(* The clock counts scans.  What the collector of container states writes  *)
(* at the end of a round (stability.ts) follows the same rules; only that  *)
(* the round waits for it is modelled.                                     *)
(***************************************************************************)
EXTENDS Integers, FiniteSets, FiniteSetsExt, Sequences

CONSTANTS
    Watched,      \* stacks in the list
    MaxClock,     \* bound on the clock
    MaxGap,       \* MAX_SCAN_GAP_MS in scans
    MaxStarts     \* bound on starts of the panel

ASSUME ObsBoundsAssumption ==
    MaxClock \in Nat /\ MaxGap \in Nat /\ MaxStarts \in Nat

\* "unknown" while Docker does not answer; what else it says is one status here.
Statuses == {"known", "unknown"}

VARIABLES
    clock,
    due,         \* the cron fires for this tick of the clock
    rows,        \* table stack_observation
    last,        \* lastStatus: the interval each stack is in
    rounds,      \* rounds that run: one, unless the guard of runOnce fails
    stopping,    \* ResourceOwner: what is left to stop, or that it was not asked
    database,    \* "open" or "closed"
    late,        \* resources that exceeded their share of the shutdown
    starts       \* starts so far, 0 while the panel is down

history == <<rows, last>>
shutdown == <<stopping, database, late, starts>>
obsVars == <<clock, due, history, rounds, shutdown>>

\* In the order of registration (dockge-server.ts:598-671), stopped in reverse.
Resources == <<"database", "terminals", "observation">>
NotAsked == <<"unasked">>
Nothing == [id |-> 0]

RoundSteps == {"list", "next", "update", "insert", "collect", "publish"}
ObsTypeOK ==
    /\ clock \in 0..MaxClock /\ due \in BOOLEAN
    /\ \A r \in rows : /\ r.stack \in Watched /\ r.status \in Statuses
                       /\ r.at <= r.until /\ r.until <= clock
    /\ \A s \in Watched : last[s] # Nothing => \E r \in rows : r.id = last[s].id
    /\ \A w \in rounds : /\ w.step \in RoundSteps /\ w.now \in 0..clock
                         /\ w.todo \subseteq Watched /\ w.aborted \in BOOLEAN
    /\ late \subseteq {Resources[i] : i \in 1..Len(Resources)}
    /\ database \in {"open", "closed"}

ObsInit ==
    /\ clock = 0 /\ due = TRUE
    /\ rows = {} /\ last = [s \in Watched |-> Nothing]
    /\ rounds = {}
    /\ stopping = NotAsked /\ database = "open" /\ late = {} /\ starts = 1

Up == starts > 0
Stopping == stopping # NotAsked
NewId == Cardinality(rows) + 1

----------------------------------------------------------------------------
(* A round *)

Replace(w, new) == rounds' = (rounds \ {w}) \cup {new}
RoundEnds(w) == rounds' = rounds \ {w}

\* Cron and runOnce: one round at a time, none once stop was called.
NewRound == [step |-> "list", now |-> 0, seen |-> [s \in Watched |-> "unknown"],
             todo |-> {}, stack |-> "", previous |-> Nothing, aborted |-> FALSE]
RoundBeginsMutant ==
    /\ Up /\ due /\ ~Stopping /\ due' = FALSE
    /\ Cardinality({w \in rounds : w.step # "list"}) < 2 /\ NewRound \notin rounds
    /\ rounds' = rounds \cup {NewRound}
    /\ UNCHANGED <<clock, history, shutdown>>
RoundBegins ==
    /\ Up /\ due /\ ~Stopping /\ due' = FALSE
    /\ rounds = {}
    /\ rounds' = {NewRound}
    /\ UNCHANGED <<clock, history, shutdown>>

\* An interval nobody confirmed for MAX_SCAN_GAP_MS is not continued.
TooOldMutant(previous, now) == FALSE
TooOld(previous, now) == now - previous.at > MaxGap
Near(previous, now) ==
    previous # Nothing /\ now >= previous.at /\ ~TooOld(previous, now)

\* The list arrived, with what Docker says of each stack.
RoundLists(w) ==
    /\ w.step = "list"
    /\ IF w.aborted THEN RoundEnds(w) /\ UNCHANGED last
       ELSE /\ \E seen \in [Watched -> Statuses] :
                 Replace(w, [w EXCEPT !.step = "next", !.now = clock, !.seen = seen,
                                      !.todo = Watched])
            \* recordScan drops what it did not confirm for too long.
            /\ last' = [s \in Watched |->
                 IF last[s] # Nothing /\ TooOld(last[s], clock) THEN Nothing ELSE last[s]]
    /\ UNCHANGED <<clock, due, rows, shutdown>>

\* One stack after the other, each asks again whether the round was called back.
RoundNext(w) ==
    /\ w.step = "next"
    /\ \/ w.aborted /\ RoundEnds(w)
       \/ ~w.aborted /\ w.todo = {} /\ Replace(w, [w EXCEPT !.step = "collect"])
       \/ /\ ~w.aborted
          /\ \E s \in w.todo :
               Replace(w, [w EXCEPT !.stack = s, !.todo = w.todo \ {s}, !.previous = last[s],
                             !.step = IF Near(last[s], w.now) THEN "update" ELSE "insert"])
    /\ UNCHANGED <<clock, due, history, shutdown>>

\* recordStatus extends it, also when the stack is deleted and its interval is
\* forgotten meanwhile.  A write to a closed database is logged and forgotten.
RoundUpdates(w) ==
    /\ w.step = "update"
    /\ LET s == w.stack
           extended == database = "open" /\ w.previous.status = w.seen[s]
       IN
       /\ rows' = IF database = "closed" THEN rows
                  ELSE {IF r.id = w.previous.id THEN [r EXCEPT !.until = w.now] ELSE r :
                          r \in rows}
       /\ last' = IF extended /\ last[s] = w.previous THEN [last EXCEPT ![s].at = w.now]
                  ELSE last
       /\ Replace(w, [w EXCEPT !.step = IF extended \/ database = "closed" THEN "next"
                                        ELSE "insert"])
    /\ UNCHANGED <<clock, due, shutdown>>

\* A new interval, of no length yet.
RoundInserts(w) ==
    /\ w.step = "insert"
    /\ LET s == w.stack IN
       IF database = "closed" THEN UNCHANGED <<rows, last>>
       ELSE /\ rows' = rows \cup {[id |-> NewId, stack |-> s, status |-> w.seen[s],
                                   at |-> w.now, until |-> w.now,
                                   life |-> starts]}
            /\ last' = [last EXCEPT ![s] = [id |-> NewId, status |-> w.seen[s],
                                            at |-> w.now]]
    /\ Replace(w, [w EXCEPT !.step = "next"])
    /\ UNCHANGED <<clock, due, shutdown>>

\* The collector reads Docker, and gives up before its first write and before
\* each container: the transaction is rolled back.
RoundCollects(w) ==
    /\ w.step = "collect"
    /\ IF w.aborted THEN RoundEnds(w) ELSE Replace(w, [w EXCEPT !.step = "publish"])
    /\ UNCHANGED <<clock, due, history, shutdown>>

\* The list is sent and revoked sessions are dropped, unless it was called back.
RoundPublishes(w) ==
    /\ w.step = "publish"
    /\ RoundEnds(w)
    /\ UNCHANGED <<clock, due, history, shutdown>>

RoundStep(w) ==
    \/ RoundLists(w) \/ RoundNext(w) \/ RoundUpdates(w) \/ RoundInserts(w)
    \/ RoundCollects(w) \/ RoundPublishes(w)

----------------------------------------------------------------------------
(* Stopping *)

Reversed(s) == [i \in 1..Len(s) |-> s[Len(s) + 1 - i]]

\* A signal, or an error nobody handled: the first starts to stop everything,
\* newest first, the others wait for it.
StopOrderMutant(list) == list
StopOrder(list) == Reversed(list)
Stop ==
    /\ Up /\ ~Stopping
    /\ stopping' = StopOrder(Resources)
    /\ rounds' = {[w EXCEPT !.aborted = TRUE] : w \in rounds}
    /\ UNCHANGED <<clock, due, history, database, late, starts>>

\* stop() of the observation waits for the round that runs; of the terminals, and
\* of what else is closed the same way, for as long as that takes.
Stopped(name) == name = "observation" => rounds = {}
StopNext ==
    /\ Up /\ Stopping /\ stopping # <<>>
    /\ Stopped(Head(stopping))
    /\ stopping' = Tail(stopping)
    /\ database' = IF Head(stopping) = "database" THEN "closed" ELSE database
    /\ UNCHANGED <<clock, due, history, rounds, late, starts>>

\* stopOne stops waiting after its share, and what it waited for goes on.
StopExpiresMutant ==
    /\ Up /\ Stopping /\ stopping # <<>>
    /\ Head(stopping) = "observation"
    /\ late' = late \cup {Head(stopping)}
    /\ stopping' = Tail(stopping)
    /\ UNCHANGED <<clock, due, history, rounds, database, starts>>
StopExpires ==
    /\ Up /\ Stopping /\ stopping # <<>>
    /\ Head(stopping) # "database"
    /\ late' = late \cup {Head(stopping)}
    /\ stopping' = Tail(stopping)
    /\ UNCHANGED <<clock, due, history, rounds, database, starts>>

Leaves == starts' = -starts /\ rounds' = {} /\ UNCHANGED <<clock, due, history>>
\* After the list the process exits.
Exit ==
    /\ Up /\ stopping = <<>>
    /\ Leaves /\ UNCHANGED <<stopping, database, late>>

\* The exit after a fatal error does not wait for a cleanup that hangs, and
\* neither does a kill.
Killed ==
    /\ Up
    /\ Leaves /\ UNCHANGED <<stopping, database, late>>

\* The panel starts again: the rows are still there, lastStatus is not.
Start ==
    /\ ~Up /\ -starts < MaxStarts
    /\ starts' = 1 - starts
    /\ last' = [s \in Watched |-> Nothing]
    /\ stopping' = NotAsked /\ database' = "open" /\ late' = {}
    /\ UNCHANGED <<clock, due, rows, rounds>>

----------------------------------------------------------------------------
(* Everything else *)

Tick ==
    /\ clock < MaxClock /\ clock' = clock + 1 /\ due' = TRUE
    /\ UNCHANGED <<history, rounds, shutdown>>

\* A stack is deleted: forgetObservation.  Its name may be used again.
Forget(s) ==
    /\ Up /\ last[s] # Nothing
    /\ last' = [last EXCEPT ![s] = Nothing]
    /\ UNCHANGED <<clock, due, rows, rounds, shutdown>>

ObsNext ==
    \/ RoundBegins \/ \E w \in rounds : RoundStep(w)
    \/ Stop \/ StopNext \/ StopExpires \/ Exit \/ Killed \/ Start
    \/ Tick \/ \E s \in Watched : Forget(s)

\* The timers of the shutdown fire, the database closes and the process exits.
\* Nothing is assumed of Docker, of a round or of terminals: they may hang.
ObsFairness ==
    /\ WF_obsVars(StopExpires) /\ WF_obsVars(Exit)
    /\ WF_obsVars(StopNext /\ Head(stopping) = "database")
ObsSpec == ObsInit /\ [][ObsNext]_obsVars /\ ObsFairness

----------------------------------------------------------------------------
(* Availability *)

\* Rows of a stack in the order they started, and where the next one starts.
Follows(r, other) == other.at > r.at \/ (other.at = r.at /\ other.id > r.id)
NextAt(r, of, now) ==
    LET later == {o \in of : Follows(r, o)} IN
    IF later = {} THEN now ELSE Min({o.at : o \in later})
Lower(a, b) == IF a < b THEN a ELSE b

\* What measure adds up for one interval of the window [from, now].
DurationMutant(r, of, from, now) ==
    LET start == IF r.at < from THEN from ELSE r.at
        end == Lower(NextAt(r, of, now), now)
    IN IF r.status = "unknown" \/ end <= start THEN 0 ELSE end - start
Duration(r, of, from, now) ==
    LET start == IF r.at < from THEN from ELSE r.at
        end == Lower(r.until, Lower(NextAt(r, of, now), now))
    IN IF r.status = "unknown" \/ end <= start THEN 0 ELSE end - start
\* The durations added up, as pairs of a row and a number.
Measured(of, from, now) ==
    Cardinality({m \in of \X (1..now) : m[2] <= Duration(m[1], of, from, now)})

----------------------------------------------------------------------------
(* Properties *)

RowsOf(s) == {r \in rows : r.stack = s}

Confirmed ==
    \A r \in rows, n \in rows' :
        n.id = r.id /\ n.until # r.until =>
            /\ n.until - r.until \in 1..MaxGap
            /\ r.life = starts
            /\ n.at = r.at /\ n.status = r.status
\* An interval grows only from one sample to the next of the same life of the panel,
\* never over a gap of more than MAX_SCAN_GAP_MS (observations.ts:52): time nobody
\* looked at is not recorded as a state.
IntervalsConfirmed == [][Confirmed]_obsVars

\* No two intervals of a stack claim the same time, whatever was deleted, restarted
\* or slow in between (observations.ts:46-78).
IntervalsDisjoint ==
    \A s \in Watched : \A a, b \in RowsOf(s) :
        Follows(a, b) => a.until <= b.at

\* The availability of a window counts each moment once, and only moments inside an
\* interval with a known state (common/availability.ts:63-95).
AvailabilityMeasured ==
    \A s \in Watched : \A from \in 0..clock :
        Measured(RowsOf(s), from, clock) =
            Cardinality({t \in from..(clock - 1) :
                \E r \in RowsOf(s) : r.status # "unknown" /\ r.at <= t /\ t < r.until})

\* The database is closed after the round that was running is really over, unless it
\* did not end within its share (dockge-server.ts:661).
RoundOverBeforeClose ==
    database = "closed" /\ "observation" \notin late => rounds = {}

\* A shutdown that began ends, although a resource may never stop
\* (resource-owner.ts:92): then the process is gone.
ShutdownEnds == []<>~(Up /\ Stopping)

\* The record of the past is true: intervals claim only time that was watched, no two
\* the same time (observations.ts:46-78), and a shutdown closes the database after what
\* writes to it (resource-owner.ts:99, dockge-server.ts:661).
HistoryTrue ==
    [](ObsTypeOK /\ IntervalsDisjoint /\ RoundOverBeforeClose) /\ IntervalsConfirmed
=============================================================================
