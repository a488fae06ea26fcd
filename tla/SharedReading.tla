---------------------------- MODULE SharedReading ----------------------------
(***************************************************************************)
(* One slow reading shared by everyone who asks while it runs, kept for a  *)
(* short time, and forgotten when the panel changes what was read          *)
(* (shared-reading.ts; the Docker statistics of dockge-server.ts).         *)
(***************************************************************************)
EXTENDS Naturals, FiniteSets

CONSTANTS
    Callers,       \* who asks
    MaxChanges,    \* bound on changes of what is read
    MaxReads       \* bound on readings started

ASSUME ReadingBoundsAssumption == MaxChanges \in Nat /\ MaxReads \in Nat

Versions == 0..(MaxChanges + 1)
Reads == 1..MaxReads
NoRead == 0

VARIABLES
    version,       \* what a reading that starts now would find, at least
    value, fresh,  \* what is kept, 0 for nothing, and whether its time is not over
    generation,    \* counts invalidations
    joinable,       \* the reading new callers join
    reads,         \* each reading: its generation and what was true when it began
    floor,         \* what was true at the last invalidation
    asked          \* each caller: the reading it waits for, the floor when it asked
                   \* and the answer

readingVars == <<version, value, fresh, generation, joinable, reads, floor, asked>>

NotStarted == [gen |-> 0, from |-> 0, state |-> "none"]
ReadRecord == [gen : 0..MaxChanges, from : Versions, state : {"none", "running", "ended"}]
AskedRecord == [waits : Reads \cup {NoRead}, floor : Versions, got : Versions]
ReadingTypeOK ==
    /\ version \in Versions /\ version # 0 /\ value \in Versions /\ floor \in Versions
    /\ fresh \in BOOLEAN /\ generation \in 0..MaxChanges
    /\ joinable \in Reads \cup {NoRead}
    /\ reads \in [Reads -> ReadRecord] /\ asked \in [Callers -> AskedRecord]

ReadingInit ==
    /\ version = 1 /\ value = 0 /\ fresh = FALSE /\ generation = 0
    /\ joinable = NoRead /\ reads = [r \in Reads |-> NotStarted] /\ floor = 0
    /\ asked = [c \in Callers |-> [waits |-> NoRead, floor |-> 0, got |-> 0]]

Waits(c, r) == asked' = [asked EXCEPT ![c] = [waits |-> r, floor |-> floor, got |-> 0]]

\* get: the value, the reading under way, or a new reading.
Get(c) ==
    /\ asked[c].waits = NoRead
    /\ \/ /\ value # 0 /\ fresh
          /\ asked' = [asked EXCEPT ![c] =
               [waits |-> NoRead, floor |-> floor, got |-> value]]
          /\ UNCHANGED <<joinable, reads>>
       \/ /\ ~(value # 0 /\ fresh) /\ joinable # NoRead
          /\ Waits(c, joinable) /\ UNCHANGED <<joinable, reads>>
       \/ /\ ~(value # 0 /\ fresh) /\ joinable = NoRead
          /\ \E r \in Reads :
               /\ reads[r].state = "none"
               /\ \A earlier \in 1..(r - 1) : reads[earlier] # NotStarted
               /\ reads' = [reads EXCEPT ![r] =
                    [gen |-> generation, from |-> version, state |-> "running"]]
               /\ joinable' = r /\ Waits(c, r)
    /\ UNCHANGED <<version, value, fresh, generation, floor>>

\* Whoever waits for reading r gets v; 0 is the failure.
Answered(r, v) ==
    asked' = [c \in Callers |-> IF asked[c].waits = r
                                THEN [asked[c] EXCEPT !.waits = NoRead, !.got = v]
                                ELSE asked[c]]
Over(r) ==
    /\ reads' = [reads EXCEPT ![r].state = "ended"]
    /\ joinable' = IF joinable = r THEN NoRead ELSE joinable

\* then: kept unless it was invalidated meanwhile.
ReadEndsMutant(r) ==
    /\ reads[r].state = "running"
    /\ \E v \in reads[r].from..version :
         Answered(r, v) /\ value' = v /\ fresh' = TRUE
    /\ Over(r)
    /\ UNCHANGED <<version, generation, floor>>
ReadEnds(r) ==
    /\ reads[r].state = "running"
    /\ \E v \in reads[r].from..version :
         /\ Answered(r, v)
         /\ IF reads[r].gen = generation THEN value' = v /\ fresh' = TRUE
            ELSE UNCHANGED <<value, fresh>>
    /\ Over(r)
    /\ UNCHANGED <<version, generation, floor>>

\* A failure is not kept.
ReadFails(r) ==
    /\ reads[r].state = "running"
    /\ Answered(r, 0) /\ Over(r)
    /\ UNCHANGED <<version, value, fresh, generation, floor>>

\* ttlMs passed.
ReadingExpires ==
    /\ fresh /\ fresh' = FALSE
    /\ UNCHANGED <<version, value, generation, joinable, reads, floor, asked>>

\* A container starts or stops by itself: nobody invalidates.
Changes ==
    /\ version <= MaxChanges /\ version' = version + 1
    /\ UNCHANGED <<value, fresh, generation, joinable, reads, floor, asked>>

\* A mutation of the panel: sendStackList invalidates before the list goes out.
InvalidateMutant ==
    /\ version <= MaxChanges /\ version' = version + 1
    /\ generation < MaxChanges /\ generation' = generation + 1
    /\ value' = 0 /\ fresh' = FALSE /\ floor' = version'
    /\ UNCHANGED <<joinable, reads, asked>>
Invalidate ==
    /\ version <= MaxChanges /\ version' = version + 1
    /\ generation < MaxChanges /\ generation' = generation + 1
    /\ value' = 0 /\ fresh' = FALSE /\ joinable' = NoRead /\ floor' = version'
    /\ UNCHANGED <<reads, asked>>

ReadingNext ==
    \/ \E c \in Callers : Get(c)
    \/ \E r \in Reads : ReadEnds(r) \/ ReadFails(r)
    \/ ReadingExpires \/ Changes \/ Invalidate
ReadingSpec == ReadingInit /\ [][ReadingNext]_readingVars

----------------------------------------------------------------------------
(* Properties *)

\* Who asks after an invalidation is never answered with what was read before it,
\* although readings from before it still run and end in any order
\* (shared-reading.ts:59).
AnswerCurrent ==
    \A c \in Callers : asked[c].got # 0 => asked[c].got >= asked[c].floor

\* A reading that an invalidation overtook does not come back as the kept value
\* (shared-reading.ts:41).
KeptCurrent == value # 0 => value >= floor

\* Neither those who wait for a reading nor those who come later get what an
\* invalidation made old (shared-reading.ts:30-64).
ReadingsCurrent == AnswerCurrent /\ KeptCurrent
=============================================================================
