------------------------------ MODULE McpAudit ------------------------------
(***************************************************************************)
(* Counting repeated events of the MCP log (mcp-audit.ts, from             *)
(* recordMcpRepeated on): the first event of a window makes a row, repeats *)
(* are counted in memory and update it later, and a reader of the log has  *)
(* everything counted written down first.                                  *)
(*                                                                         *)
(* One key of events: what happens for others is the same.  A group whose  *)
(* window is over is forgotten, with a write of it possibly under way.     *)
(***************************************************************************)
EXTENDS Integers, FiniteSets

CONSTANTS
    MaxGroups,     \* windows of the key that may be begun
    Readers,       \* readers of the log, each of whom flushes
    MaxEvents,     \* bound on events
    MaxWriteFaults \* bound on writes that fail

ASSUME AuditBoundsAssumption == {MaxGroups, MaxEvents, MaxWriteFaults} \subseteq Nat

VARIABLES
    current,    \* groups: the group of the key, or NoGroup
    counts,     \* what each group holds
    rows,       \* table mcp_audit: attempts in the row of each group
    flushes,    \* what each reader waits for
    writeFaults,
    givenUp     \* events whose write failed, by group

auditVars == <<current, counts, rows, flushes, writeFaults, givenUp>>

Groups == 1..MaxGroups
NoGroup == 0
NotWriting == -1
\* The chain of writes: how many were put into it and how many are through; taking is
\* the attempts that the write under way has read.
NewGroup == [attempts |-> 0, written |-> 0, timer |-> FALSE, listed |-> FALSE,
             chained |-> 0, through |-> 0, taking |-> NotWriting]
Counted(g) == counts[g].attempts
\* What a flush waits for in each chain, and what was counted when it began in the groups
\* whose chain was empty.
NoFlush == [at |-> "idle", until |-> [g \in Groups |-> 0], owed |-> [g \in Groups |-> 0]]

AuditTypeOK ==
    /\ current \in Groups \cup {NoGroup}
    /\ \A g \in Groups :
         /\ counts[g].written <= counts[g].attempts
         /\ counts[g].through <= counts[g].chained
         /\ counts[g].taking \in counts[g].written..counts[g].attempts \cup {NotWriting}
    /\ writeFaults \in 0..MaxWriteFaults

AuditInit ==
    /\ current = NoGroup
    /\ counts = [g \in Groups |-> NewGroup]
    /\ rows = [g \in Groups |-> 0] /\ givenUp = [g \in Groups |-> 0]
    /\ flushes = [p \in Readers |-> NoFlush] /\ writeFaults = 0

\* schedule
Timed(group) == [group EXCEPT !.listed = TRUE, !.timer = TRUE]
CountsAgain(g) == counts' = [counts EXCEPT ![g] = Timed([counts[g] EXCEPT
                                               !.attempts = Counted(g) + 1])]
AllEvents == LET add[g \in 0..MaxGroups] == IF g = 0 THEN 0 ELSE add[g - 1] + Counted(g)
             IN add[MaxGroups]

\* recordMcpRepeated: the group of the window, or a new one.
Repeated ==
    /\ AllEvents < MaxEvents
    /\ \/ current # NoGroup /\ CountsAgain(current) /\ UNCHANGED current
       \/ /\ current < MaxGroups
          /\ current' = current + 1 /\ CountsAgain(current')
    /\ UNCHANGED <<rows, flushes, writeFaults, givenUp>>

\* The timer: a write goes to the end of the chain.
Fires(g) ==
    /\ counts[g].timer
    /\ counts' = [counts EXCEPT ![g].timer = FALSE, ![g].chained = @ + 1]
    /\ UNCHANGED <<current, rows, flushes, writeFaults, givenUp>>

\* write, up to the query.
WriteBegins(g) ==
    /\ counts[g].through < counts[g].chained /\ counts[g].taking = NotWriting
    /\ \/ /\ counts[g].written = Counted(g)
          /\ counts' = [counts EXCEPT ![g].through = @ + 1, ![g].listed = FALSE]
       \/ /\ counts[g].written # Counted(g)
          /\ counts' = [counts EXCEPT ![g].taking = Counted(g)]
    /\ UNCHANGED <<current, rows, flushes, writeFaults, givenUp>>

\* A group with a repeat that came during its write stays listed.
UnlistedMutant(group) == [group EXCEPT !.listed = FALSE]
Unlisted(group) == [group EXCEPT !.listed = @ /\ group.timer]
\* What is written is what was there when the write began, not what is there now.
TakenMutant(group) == group.attempts
Taken(group) == group.taking
WriteEnds(g) ==
    LET taken == Taken(counts[g])
        over == [counts[g] EXCEPT !.through = @ + 1, !.taking = NotWriting,
                                  !.written = taken]
    IN
    /\ counts[g].taking # NotWriting
    /\ \/ /\ rows' = [rows EXCEPT ![g] = counts[g].taking]
          /\ counts' = [counts EXCEPT ![g] = Unlisted(over)]
          /\ UNCHANGED <<writeFaults, givenUp>>
       \* The event happened all the same: its count is given up.
       \/ /\ writeFaults < MaxWriteFaults /\ writeFaults' = writeFaults + 1
          /\ counts' = [counts EXCEPT ![g] = Unlisted(over)]
          /\ givenUp' = [givenUp EXCEPT ![g] = counts[g].taking] /\ UNCHANGED rows
    /\ UNCHANGED <<current, flushes>>

\* flushMcpAudit: every group listed is written now, in its chain.
FlushBegins(p) ==
    LET listed == {g \in Groups : counts[g].listed} IN
    /\ flushes[p].at = "idle"
    /\ counts' = [g \in Groups |->
         IF g \in listed /\ counts[g].timer
         THEN [counts[g] EXCEPT !.timer = FALSE, !.chained = @ + 1] ELSE counts[g]]
    /\ flushes' = [flushes EXCEPT ![p] =
         [at |-> "waits",
          until |-> [g \in Groups |-> IF g \in listed THEN counts'[g].chained ELSE 0],
          owed |-> [g \in Groups |->
             IF counts[g].through = counts[g].chained THEN Counted(g) ELSE 0]]]
    /\ UNCHANGED <<current, rows, writeFaults, givenUp>>
\* The chains as they were then are through.
Flushed(p) ==
    /\ flushes[p].at = "waits"
    /\ \A g \in Groups : counts[g].through >= flushes[p].until[g]
    /\ flushes' = [flushes EXCEPT ![p].at = "read"]
    /\ UNCHANGED <<current, counts, rows, writeFaults, givenUp>>

Writes(g) == Fires(g) \/ WriteBegins(g) \/ WriteEnds(g)
AuditNext ==
    \/ Repeated
    \/ \E g \in Groups : Writes(g)
    \/ \E p \in Readers : FlushBegins(p) \/ Flushed(p)
AuditFairness == \A g \in Groups : WF_auditVars(Writes(g))
AuditSpec == AuditInit /\ [][AuditNext]_auditVars /\ AuditFairness

----------------------------------------------------------------------------
(* Properties *)

\* In the row, or given up with a write that failed.
Settled(g, attempts) == rows[g] >= attempts \/ givenUp[g] >= attempts

\* Whoever has flushed reads a log with everything that was counted before, except for a
\* count whose write failed and was given up (mcp-audit.ts:175-178), and unless the group
\* had writes in its chain: the one that ends takes the group off the list while another
\* may be behind it (mcp-audit.ts:180, 238).
FlushedIsWritten ==
    \A p \in Readers :
        flushes[p].at = "read" => \A g \in Groups : Settled(g, flushes[p].owed[g])

\* A repeat that comes while its row is written is not lost from the count, also when its
\* group is forgotten meanwhile (mcp-audit.ts:157, 185).
RepeatsCounted == []<>(\A g \in Groups : Settled(g, Counted(g)))

\* Every repeat is counted in its row, or given up with a write that failed, before a flush
\* answers, of every group that had no write in its chain when the flush began
\* (mcp-audit.ts:175-180, 238).
RepeatsKept == AuditTypeOK /\ FlushedIsWritten
=============================================================================
