------------------------- MODULE UpdaterRefinement -------------------------
(* The updater, with its processes, files and containers, implements the   *)
(* phases its readers see.                                                 *)
EXTENDS Updater

Named(o) == [id |-> o.id, from |-> o.prev, to |-> o.target]

Abstract == INSTANCE UpdatePhases
    WITH Releases <- Versions, Operations <- Ids,
         journal <- [id |-> journal.id, phase |-> journal.phase,
                     from |-> journal.prev, to |-> journal.target],
         last <- Named(previous)

\* Whatever fails, is killed or is given twice, every step of the updater is a
\* step of the phases or invisible to their reader: the panel moves only under a
\* phase that says so and only to the two releases of the operation, success
\* and recovered are written while exactly the release they promise serves, a
\* rollback over a finished operation undoes the last one that succeeded, and
\* no operation is begun over a pending one.
ImplementsPhases == Abstract!Spec
====
