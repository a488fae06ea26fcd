------------------------------ MODULE MCServer ------------------------------
(***************************************************************************)
(* The components of the panel's server that share no state: a behaviour   *)
(* is one of the component in focus, while the others stay as they start.  *)
(* Since no action of one reads a variable of another, what holds in these *)
(* behaviours holds when all of them take their steps.                     *)
(***************************************************************************)
EXTENDS Observing, ChildProcess, Terminals, SharedReading, BoundedCache,
        StackGit, StackDirectory

CONSTANTS p1, p2, w1, c1, up, sh, k1, k2, k3, f1, f2, g1, s1, r1, r2

VARIABLE focus

Components ==
    {"observing", "calls", "terminals", "reading", "cache", "git", "directory"}
\* Only the component in focus moves.
Moves(component) == focus = component /\ UNCHANGED focus
Rest(component) ==
    /\ component # "observing" => UNCHANGED obsVars
    /\ component # "calls" => UNCHANGED callVars
    /\ component # "terminals" => UNCHANGED termVars
    /\ component # "reading" => UNCHANGED readingVars
    /\ component # "cache" => UNCHANGED cacheVars
    /\ component # "git" => UNCHANGED gitVars
    /\ component # "directory" => UNCHANGED dirVars

\* A component at rest starts in one of its initial states.
MCInit ==
    /\ focus \in Components
    /\ ObsInit /\ CallInit /\ TermInit /\ ReadingInit /\ CacheInit /\ GitInit /\ DirInit
    /\ focus # "directory" => files = [s \in Stacks |-> NoDirectory]
MCNext ==
    \/ Moves("observing") /\ ObsNext /\ Rest("observing")
    \/ Moves("calls") /\ CallNext /\ Rest("calls")
    \/ Moves("terminals") /\ TermNext /\ Rest("terminals")
    \/ Moves("reading") /\ ReadingNext /\ Rest("reading")
    \/ Moves("cache") /\ CacheNext /\ Rest("cache")
    \/ Moves("git") /\ GitNext /\ Rest("git")
    \/ Moves("directory") /\ DirNext /\ Rest("directory")
mcVars ==
    <<obsVars, callVars, termVars, readingVars, cacheVars, gitVars, dirVars, focus>>
\* Nothing fair is enabled in the initial states of a component: the fairness of each
\* binds its own behaviours only.
MCSpec == MCInit /\ [][MCNext]_mcVars /\ ObsFairness /\ CallFairness /\ TermFairness

\* What is under way comes to its end: a shutdown although a resource may never stop
\* (resource-owner.ts:92), a command that hangs with its answer and its group
\* (child-process.ts:73), and a shell whose last client went (terminal.ts:181).
ServerProgress == ShutdownEnds /\ CallsEnd /\ ShellsEnd
=============================================================================
