---------------------------- MODULE ChildProcess ----------------------------
(***************************************************************************)
(* The commands the panel waits for (child-process.ts) and the processes   *)
(* they start (process-group.ts): the caller is answered within a bounded  *)
(* time, and what was told to stop is stopped, also when it outlives the   *)
(* answer.                                                                 *)
(*                                                                         *)
(* A command starts as one process, and may leave children in its group    *)
(* that hold its output open and ignore the first signal.                  *)
(***************************************************************************)
EXTENDS FiniteSets

CONSTANT Calls    \* calls of spawn with a timeout

ASSUME CallsAssumption == IsFiniteSet(Calls)

VARIABLES
    command,      \* the process itself: "none" before the call, "running", "done",
                  \* "failed", "stopped"
    children,     \* what it started: "none", "running", "ended"
    holdsOutput,  \* whether they inherited its output
    error,        \* what the caller will be told went wrong
    timeout,      \* the timer of the call
    closeTimer,   \* runs from the exit of the command
    killTimer,    \* runs from the order to stop
    answered,     \* what the caller was told: "no", "result", "error"
    signalled     \* the group was sent a signal

group == <<command, children, holdsOutput, signalled>>
timers == <<timeout, closeTimer, killTimer>>
callVars == <<group, timers, error, answered>>

CallTypeOK ==
    /\ command \in [Calls -> {"none", "running", "done", "failed", "stopped"}]
    /\ children \in [Calls -> {"none", "running", "ended"}]
    /\ holdsOutput \in [Calls -> BOOLEAN] /\ error \in [Calls -> BOOLEAN]
    /\ timeout \in [Calls -> BOOLEAN]
    /\ closeTimer \in [Calls -> BOOLEAN] /\ killTimer \in [Calls -> BOOLEAN]
    /\ answered \in [Calls -> {"no", "result", "error"}]
    /\ signalled \in [Calls -> BOOLEAN]
    \* The wait for the streams is bounded only from the exit on.
    /\ \A c \in Calls :
         closeTimer[c] => command[c] \notin {"none", "running"} /\ answered[c] = "no"

CallInit ==
    /\ command = [c \in Calls |-> "none"] /\ children = [c \in Calls |-> "none"]
    /\ holdsOutput = [c \in Calls |-> FALSE] /\ error = [c \in Calls |-> FALSE]
    /\ timeout = [c \in Calls |-> FALSE] /\ closeTimer = [c \in Calls |-> FALSE]
    /\ killTimer = [c \in Calls |-> FALSE]
    /\ answered = [c \in Calls |-> "no"] /\ signalled = [c \in Calls |-> FALSE]

\* Signal 0 to the group: one process of it is left.
GroupAlive(c) == command[c] = "running" \/ children[c] = "running"

----------------------------------------------------------------------------
(* The processes *)

\* The call: a process in a group of its own, and the timer of the caller.
Spawns(c) ==
    /\ command[c] = "none"
    /\ command' = [command EXCEPT ![c] = "running"]
    /\ timeout' = [timeout EXCEPT ![c] = TRUE]
    /\ UNCHANGED <<children, holdsOutput, signalled, closeTimer, killTimer, error,
                   answered>>

StartsChild(c) ==
    /\ command[c] = "running" /\ children[c] = "none"
    /\ children' = [children EXCEPT ![c] = "running"]
    /\ \E holds \in BOOLEAN : holdsOutput' = [holdsOutput EXCEPT ![c] = holds]
    /\ UNCHANGED <<command, signalled, timers, error, answered>>

\* onExit: the output may be held open, so the wait for it is bounded apart.
CommandExits(c) ==
    /\ command[c] = "running"
    /\ \E how \in {"done", "failed"} \cup (IF signalled[c] THEN {"stopped"} ELSE {}) :
         command' = [command EXCEPT ![c] = how]
    /\ closeTimer' = [closeTimer EXCEPT ![c] = answered[c] = "no"]
    /\ UNCHANGED <<children, holdsOutput, signalled, timeout, killTimer, error, answered>>

\* Nothing makes a child end by itself.
ChildEnds(c) ==
    /\ children[c] = "running"
    /\ children' = [children EXCEPT ![c] = "ended"]
    /\ UNCHANGED <<command, holdsOutput, signalled, timers, error, answered>>

----------------------------------------------------------------------------
(* Stopping *)

\* requestStop: the first signal, which may be ignored, and the timer of the second.
Stops(c) ==
    /\ error' = [error EXCEPT ![c] = TRUE]
    /\ signalled' = [signalled EXCEPT ![c] = TRUE]
    /\ killTimer' = [killTimer EXCEPT ![c] = TRUE]

TimesOut(c) ==
    /\ timeout[c]
    /\ timeout' = [timeout EXCEPT ![c] = FALSE]
    /\ Stops(c)
    /\ UNCHANGED <<command, children, holdsOutput, closeTimer, answered>>

\* The output exceeds maxBuffer; a child that holds it may write it.
Overflows(c) ==
    /\ answered[c] = "no"
    /\ command[c] = "running" \/ (children[c] = "running" /\ holdsOutput[c])
    /\ Stops(c)
    /\ UNCHANGED <<command, children, holdsOutput, timeout, closeTimer, answered>>

\* The timer ends with SIGKILL to the group, which nothing survives.
Kills(c) ==
    /\ killTimer[c]
    /\ killTimer' = [killTimer EXCEPT ![c] = FALSE]
    /\ IF GroupAlive(c)
       THEN /\ children' = [children EXCEPT ![c] = IF @ = "running" THEN "ended" ELSE @]
            /\ command' = [command EXCEPT ![c] = IF @ = "running" THEN "stopped" ELSE @]
            /\ closeTimer' = [closeTimer EXCEPT ![c] =
                 @ \/ (command[c] = "running" /\ answered[c] = "no")]
       ELSE UNCHANGED <<children, command, closeTimer>>
    /\ UNCHANGED <<holdsOutput, signalled, timeout, error, answered>>

----------------------------------------------------------------------------
(* The answer *)

\* release: a stop that was ordered stays on until the group is gone.
ReleaseMutant(c) == FALSE
Release(c) == killTimer[c] /\ GroupAlive(c)

\* settle ends the waiting and its two timers, then the group is released.
SettleMutant(c) ==
    /\ answered[c] = "no"
    /\ answered' = [answered EXCEPT ![c] =
         IF error[c] \/ command[c] # "done" THEN "error" ELSE "result"]
    /\ closeTimer' = [closeTimer EXCEPT ![c] = FALSE]
    /\ killTimer' = [killTimer EXCEPT ![c] = Release(c)]
    /\ UNCHANGED <<group, timeout, error>>
Settle(c) ==
    /\ answered[c] = "no"
    /\ answered' = [answered EXCEPT ![c] =
         IF error[c] \/ command[c] # "done" THEN "error" ELSE "result"]
    /\ timeout' = [timeout EXCEPT ![c] = FALSE]
    /\ closeTimer' = [closeTimer EXCEPT ![c] = FALSE]
    /\ killTimer' = [killTimer EXCEPT ![c] = Release(c)]
    /\ UNCHANGED <<group, error>>

\* "close": the command exited and nobody holds its output.
Closes(c) ==
    /\ command[c] \notin {"none", "running"}
    /\ ~(children[c] = "running" /\ holdsOutput[c])
    /\ Settle(c)

\* The grace after the exit is over.
CloseExpiresMutant(c) == closeTimer[c] /\ ~holdsOutput[c] /\ Settle(c)
CloseExpires(c) ==
    /\ closeTimer[c]
    /\ Settle(c)

CallStep(c) ==
    \/ Spawns(c) \/ StartsChild(c) \/ CommandExits(c) \/ ChildEnds(c)
    \/ TimesOut(c) \/ Overflows(c) \/ Kills(c) \/ Closes(c) \/ CloseExpires(c)
CallNext == \E c \in Calls : CallStep(c)

\* The timers fire.  Nothing is assumed of the processes: they may run for ever and
\* ignore the first signal.
CallFairness ==
    \A c \in Calls :
        WF_callVars(TimesOut(c)) /\ WF_callVars(Kills(c)) /\ WF_callVars(CloseExpires(c))
CallSpec == CallInit /\ [][CallNext]_callVars /\ CallFairness

----------------------------------------------------------------------------
(* Properties *)

\* "The call always ends within a bounded time" (child-process.ts:73): a command that
\* hangs, that ignores the first signal, or whose child keeps the output open.
IsAnswered(c) == command[c] # "none" => answered[c] # "no"

\* "once this call has ordered a stop, SpawnedGroup sees it through even after the
\* promise is settled" (child-process.ts:75): a child that ignored the first signal is
\* gone in the end, although the command obeyed and the caller was answered.
SeenThrough(c) == signalled[c] => ~GroupAlive(c)
CallsEnd == []<>(\A c \in Calls : IsAnswered(c) /\ SeenThrough(c))

\* Until a call is answered one of its timers runs, and from the order to stop until the
\* group is gone the one that kills it, also after the answer (child-process.ts:73-75).
TimersRun ==
    \A c \in Calls :
        /\ command[c] # "none" /\ answered[c] = "no" =>
             IF command[c] = "running" THEN timeout[c] \/ killTimer[c] ELSE closeTimer[c]
        /\ signalled[c] /\ GroupAlive(c) => killTimer[c]

BackgroundStays ==
    \A c \in Calls : answered[c] # "no" /\ ~signalled[c] => ~signalled'[c]
\* "A command that finished on its own is left alone, including anything it started
\* deliberately in the background" (process-group.ts:108): a call that is answered
\* orders no stop afterwards.
BackgroundLeftAlone == [][BackgroundStays]_callVars

\* A call is never without the timer that ends its wait or its group, and orders no stop
\* after its answer (child-process.ts:73-75, process-group.ts:108).
CallsSettle == [](CallTypeOK /\ TimersRun) /\ BackgroundLeftAlone
=============================================================================
