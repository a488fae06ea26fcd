--------------------------- MODULE McpOperations ---------------------------
(***************************************************************************)
(* Operations of MCP clients: src/backend/mcp-operations.ts, with the key  *)
(* of mcp-keys.ts and the handlers of mcp-files-git.ts.                    *)
(*                                                                         *)
(* A client prepares a change under a request id, the owner may have to    *)
(* approve it, and a later call applies it once.  The row of an operation  *)
(* is durable; what was prepared lives in memory.  Calls interleave at     *)
(* every await, with the owner who narrows or revokes the key, with saves  *)
(* in the panel, with deadlines and with restarts.                         *)
(***************************************************************************)
EXTENDS Naturals, FiniteSets

CONSTANTS
    Calls,      \* tool calls that may be under way at once
    Owners,     \* browser tabs of the owner
    Requests,   \* request ids the client uses
    Kinds,      \* actions it asks for: "write", "control", "update"
    Free,       \* nobody holds the stack's lock
    Ops,        \* operation ids
    None,       \* no operation, no request
    Cap,        \* prepared operations kept in memory
    Made,       \* modes the key may be made with
    MaxActs,    \* bound on what the owner does: reductions, revocations, saves
    MaxFaults   \* bound on failures and restarts

ASSUME KindAssumption == Kinds \subseteq {"write", "control", "update"}
ASSUME FreeAssumption == Free \notin Calls /\ None \notin Ops \cup Requests
ASSUME MadeAssumption == Made \subseteq {"approval", "automatic"}
ASSUME McpBoundAssumption ==
    /\ Cap \in Nat \ {0} /\ MaxActs \in Nat /\ MaxFaults \in Nat

Modes == {"readonly", "approval", "automatic"}
Final == {"succeeded", "failed"}

VARIABLES
    key,        \* the row of mcp_key
    tabs,       \* the row a reduction has read, per tab of the owner
    rows,       \* mcp_operation
    memory,     \* operations whose prepared form is in memory
    calls,      \* what each call does and knows
    lock,       \* the lock of the stack directory
    stack,      \* numbers of the last change of its files and of its containers
    acts, faults,   \* bounded counters
    effect      \* what each operation really did

durable == <<key, rows, stack>>
counters == <<acts, faults>>
vars == <<durable, tabs, memory, calls, lock, counters, effect>>

\* What a key allows is its mode; taking the permission or the resource away is
\* like making it read only.
Key == [live : BOOLEAN, mode : Modes, version : Nat]
NoTab == [live |-> FALSE, mode |-> "readonly", version |-> 0]

Stack == [files : Nat, runtime : Nat]
NoStack == [files |-> 0, runtime |-> 0]

Row == [state : {"none", "awaiting", "prepared", "running"} \cup Final,
        request : Requests \cup {None}, kind : {"write", "control", "update"},
        version : Nat, fp : Stack, approved : BOOLEAN, expired : BOOLEAN]
NoRow == [state |-> "none", request |-> None, kind |-> "write", version |-> 0, fp |-> NoStack,
          approved |-> FALSE, expired |-> FALSE]

\* The steps of a call, and those of an apply that has claimed its operation.
Preparing == {"inspect", "fresh", "prune", "insert"}
Claimed == {"confirm", "reread", "snapshot", "guard", "resnap", "command", "finish",
            "failing"}
Applying == {"revalidate", "owned", "claim"} \cup Claimed
Places == {"idle"} \cup Preparing \cup Applying
Call == [at : Places, op : Ops \cup {None}, request : Requests \cup {None}, mode : Modes,
         version : Nat, fp : Stack, round : {1, 2}]
NoCall == [at |-> "idle", op |-> None, request |-> None, mode |-> "readonly",
           version |-> 0, fp |-> NoStack, round |-> 1]

\* How often an operation was executed, how many of its commands ran since a
\* checkpoint last read a key that allowed it and while the key did not, whether it
\* replaced a text nobody had read, and the mode of the key when it was claimed.
Effect == [begun : Nat, late : Nat, blind : BOOLEAN, mode : Modes]
NoEffect == [begun |-> 0, late |-> 0, blind |-> FALSE, mode |-> "readonly"]

\* Rows, calls and memory hold what the code puts there; what is in memory has a
\* row, a call that applies an operation names it, and the lock of the stack is
\* held by nobody but a call that is about to write.
TypeOK ==
    /\ key \in Key /\ tabs \in [Owners -> Key]
    /\ rows \in [Ops -> Row] /\ memory \in SUBSET Ops
    /\ calls \in [Calls -> Call]
    /\ lock \in Calls \cup {Free} /\ stack \in Stack
    /\ acts \in 0..MaxActs /\ faults \in 0..MaxFaults
    /\ effect \in [Ops -> Effect]
    /\ \A i \in memory : rows[i].state # "none"
    /\ \A c \in Calls : /\ calls[c].at \in Applying => calls[c].op \in Ops
                        /\ lock = c => /\ calls[c].at \in {"guard", "resnap", "command"}
                                        /\ rows[calls[c].op].kind = "write"

Init ==
    /\ key \in [live : {TRUE}, mode : Made, version : {1}]
    /\ tabs = [o \in Owners |-> NoTab]
    /\ rows = [i \in Ops |-> NoRow]
    /\ memory = {}
    /\ calls = [c \in Calls |-> NoCall]
    /\ lock = Free /\ stack = NoStack
    /\ acts = 0 /\ faults = 0
    /\ effect = [i \in Ops |-> NoEffect]

----------------------------------------------------------------------------
(* Building blocks *)

Fault == faults < MaxFaults /\ faults' = faults + 1
NoFault == faults' = faults

At(c, place) == calls[c].at = place
Goto(c, place) == calls' = [calls EXCEPT ![c].at = place]
Answer(c) == calls' = [calls EXCEPT ![c] = NoCall]
RowOf(c) == rows[calls[c].op]

\* access: the key may do this at all.
Usable(k) == k.live /\ k.mode # "readonly"

\* owned: the key still has the policy the operation was prepared under.
OwnedMutant(k, row) == Usable(k)
Owned(k, row) == Usable(k) /\ k.version = row.version

\* The same, as the history of effects sees it.
InForce(row) == Usable(key) /\ key.version = row.version

\* An error: before the claim the call only answers, after it the operation
\* has failed.  Leaving the handler releases the stack's lock.
UnlockMutant(c) == lock' = lock
Unlock(c) == lock' = IF lock = c THEN Free ELSE lock
Fail(c) ==
    /\ IF calls[c].at \in Claimed THEN Goto(c, "failing") ELSE Answer(c)
    /\ Unlock(c)

----------------------------------------------------------------------------
(* operation_prepare *)

Known(request) == \E i \in Ops : rows[i].state # "none" /\ rows[i].request = request

\* A request id that is known is answered with its operation or an error.
Prepare(c) ==
    /\ At(c, "idle") /\ Usable(key)
    /\ \E request \in Requests :
         /\ ~Known(request)
         /\ calls' = [calls EXCEPT ![c] = [NoCall EXCEPT !.at = "inspect",
                        !.request = request, !.version = key.version]]
    /\ UNCHANGED <<durable, tabs, memory, lock, counters, effect>>

\* The handler reads the stack and what would be done to it.
Inspect(c) ==
    /\ At(c, "inspect")
    /\ \/ calls' = [calls EXCEPT ![c].at = "fresh", ![c].fp = stack] /\ NoFault
       \/ Answer(c) /\ Fault
    /\ UNCHANGED <<durable, tabs, memory, lock, acts, effect>>

Fresh(c) ==
    /\ At(c, "fresh")
    /\ IF Usable(key) /\ key.version = calls[c].version
       THEN calls' = [calls EXCEPT ![c].mode = key.mode,
                        ![c].at = IF Cardinality(memory) >= Cap THEN "prune" ELSE "insert"]
       ELSE Answer(c)
    /\ UNCHANGED <<durable, tabs, memory, lock, counters, effect>>

\* A full memory forgets what has expired, or refuses.
Prune(c) ==
    /\ At(c, "prune")
    /\ memory' = {i \in memory : ~rows[i].expired}
    /\ IF Cardinality(memory') >= Cap THEN Answer(c) ELSE Goto(c, "insert")
    /\ UNCHANGED <<durable, tabs, lock, counters, effect>>

StateFor(mode) == IF mode = "approval" THEN "awaiting" ELSE "prepared"

\* The table is unique in the key and the request id: of two prepares that both
\* found nothing only one inserts, and the other answers with its row.
InsertableMutant(c) == TRUE
Insertable(c) == ~Known(calls[c].request)
Insert(c) ==
    /\ At(c, "insert")
    /\ \/ /\ Insertable(c)
          /\ \E i \in Ops, kind \in Kinds :
               /\ rows[i].state = "none"
               /\ rows' = [rows EXCEPT ![i] = [NoRow EXCEPT
                             !.state = StateFor(calls[c].mode), !.request = calls[c].request,
                             !.kind = kind, !.version = calls[c].version,
                             !.fp = calls[c].fp]]
               /\ memory' = memory \cup {i}
          /\ NoFault
       \/ /\ ~Insertable(c) \/ \A i \in Ops : rows[i].state # "none"
          /\ UNCHANGED <<rows, memory>> /\ NoFault
       \/ UNCHANGED <<rows, memory>> /\ Fault
    /\ Answer(c)
    /\ UNCHANGED <<key, stack, tabs, lock, acts, effect>>

----------------------------------------------------------------------------
(* operation_apply *)

\* Only a prepared operation that is still in memory is applied; any other call
\* is answered with the row's summary or with an error.
Apply(c) ==
    /\ At(c, "idle")
    /\ \E i \in memory :
         /\ Owned(key, rows[i])
         /\ rows[i].state = "prepared" /\ ~rows[i].expired
         /\ key.mode = "approval" => rows[i].approved
         /\ calls' = [calls EXCEPT ![c] = [NoCall EXCEPT !.at = "revalidate", !.op = i]]
    /\ UNCHANGED <<durable, tabs, memory, lock, counters, effect>>

\* What follows a step that finds nothing wrong.
Following(c) ==
    CASE calls[c].at = "revalidate" -> "owned"
      [] calls[c].at = "owned" -> "claim"
      [] calls[c].at = "confirm" -> "reread"
      [] calls[c].at = "reread" -> "snapshot"
      [] calls[c].at = "snapshot" -> "guard"
      [] calls[c].at = "guard" -> IF RowOf(c).kind = "control" THEN "command" ELSE "resnap"
      [] calls[c].at = "resnap" -> "command"

\* The key is read again.
CheckpointAt == {"owned", "confirm", "guard"}
Checkpoint(c) ==
    /\ calls[c].at \in CheckpointAt
    /\ \/ /\ Owned(key, RowOf(c)) /\ Goto(c, Following(c)) /\ NoFault /\ UNCHANGED lock
          /\ effect' = [effect EXCEPT ![calls[c].op].late = IF InForce(RowOf(c)) THEN 0 ELSE @]
       \/ ~Owned(key, RowOf(c)) /\ Fail(c) /\ NoFault /\ UNCHANGED effect
       \/ Fail(c) /\ Fault /\ UNCHANGED effect
    /\ UNCHANGED <<durable, tabs, memory, acts>>

\* The stack is compared with what was prepared.  A file is compared for the last
\* time, and written, under the lock of its stack; Docker commands run without it.
\* Only what starts or stops containers looks at how they run.
Unchanged(row) ==
    /\ stack.files = row.fp.files
    /\ row.kind = "control" => stack.runtime = row.fp.runtime
SameMutant(c) == calls[c].at \in {"revalidate", "reread"} => Unchanged(RowOf(c))
Same(c) == Unchanged(RowOf(c))
CompareAt == {"revalidate", "reread", "snapshot", "resnap"}
Locks(c) == At(c, "snapshot") /\ RowOf(c).kind = "write"
Compare(c) ==
    /\ calls[c].at \in CompareAt /\ (Locks(c) => lock = Free)
    /\ \/ Same(c) /\ Goto(c, Following(c)) /\ NoFault
          /\ lock' = IF Locks(c) THEN c ELSE lock
       \/ ~Same(c) /\ Fail(c) /\ NoFault
       \/ Fail(c) /\ Fault
    /\ UNCHANGED <<durable, tabs, memory, acts, effect>>

\* The compare-and-set that makes an apply the only one.
ClaimableMutant(row) == row.state \in {"prepared", "running"} /\ ~row.expired
Claimable(row) == row.state = "prepared" /\ ~row.expired
Claim(c) ==
    /\ At(c, "claim")
    /\ \/ /\ Claimable(RowOf(c))
          /\ rows' = [rows EXCEPT ![calls[c].op].state = "running"]
          /\ effect' = [effect EXCEPT ![calls[c].op].mode = key.mode]
          /\ Goto(c, "confirm") /\ NoFault
       \/ ~Claimable(RowOf(c)) /\ Answer(c) /\ NoFault /\ UNCHANGED <<rows, effect>>
       \/ Answer(c) /\ Fault /\ UNCHANGED <<rows, effect>>
    /\ UNCHANGED <<key, stack, tabs, memory, lock, acts>>

\* What a command changes.  "update" pulls and then brings the stack up.
Took(S) ==
    /\ effect' = [i \in Ops |->
         IF \E c \in S : calls[c].op = i
         THEN LET c == CHOOSE x \in S : calls[x].op = i IN
              [effect[i] EXCEPT
                !.begun = IF calls[c].round = 1 THEN @ + 1 ELSE @,
                !.late = IF InForce(rows[i]) THEN @ ELSE @ + 1,
                !.blind = @ \/ (rows[i].kind = "write" /\ stack.files # rows[i].fp.files)]
         ELSE effect[i]]
    /\ stack' = [files |-> IF \E c \in S : RowOf(c).kind = "write"
                           THEN stack.files + 1 ELSE stack.files,
                 runtime |-> IF \E c \in S : RowOf(c).kind = "control" \/ calls[c].round = 2
                             THEN stack.runtime + 1 ELSE stack.runtime]
More(c) == RowOf(c).kind = "update" /\ calls[c].round = 1
Command(c) ==
    /\ At(c, "command")
    /\ \/ /\ Took({c}) /\ NoFault
          /\ \/ More(c) /\ calls' = [calls EXCEPT ![c].round = 2, ![c].at = "snapshot"]
                /\ UNCHANGED lock
             \/ Goto(c, "finish") /\ Unlock(c)
       \/ (Took({c}) \/ UNCHANGED <<effect, stack>>) /\ Fail(c) /\ Fault
    /\ UNCHANGED <<key, rows, tabs, memory, acts>>

Settle(c, state) ==
    /\ rows' = [rows EXCEPT ![calls[c].op].state = state]
    /\ memory' = memory \ {calls[c].op}
    /\ Answer(c)

FinishMutant(c) ==
    /\ calls[c].at \in {"finish", "failing"} /\ Settle(c, "succeeded") /\ NoFault
    /\ UNCHANGED <<key, stack, tabs, lock, acts, effect>>
Finish(c) ==
    /\ At(c, "finish")
    /\ \/ Settle(c, "succeeded") /\ NoFault
       \/ Goto(c, "failing") /\ Fault /\ UNCHANGED <<rows, memory>>
    /\ UNCHANGED <<key, stack, tabs, lock, acts, effect>>

\* When even the failure cannot be recorded the row stays "running", which is
\* answered as unknown.
Failing(c) ==
    /\ At(c, "failing")
    /\ \/ Settle(c, "failed") /\ NoFault
       \/ memory' = memory \ {calls[c].op} /\ Answer(c) /\ Fault /\ UNCHANGED rows
    /\ UNCHANGED <<key, stack, tabs, lock, acts, effect>>

----------------------------------------------------------------------------
(* The owner, the clock, the panel's own saves, restarts *)

\* reduce reads the row and writes it back: two tabs may do so at once.
ReadKey(o) ==
    /\ key.live /\ acts < MaxActs /\ acts' = acts + 1
    /\ ~tabs[o].live
    /\ tabs' = [tabs EXCEPT ![o] = key]
    /\ UNCHANGED <<durable, memory, calls, lock, faults, effect>>

Narrower(mode, than) ==
    /\ than # "automatic" => mode # "automatic"
    /\ than = "readonly" => mode = "readonly"
NextVersionMutant(k, mode) == IF mode = k.mode THEN k.version + 1 ELSE k.version
NextVersion(k, mode) == k.version + 1
WriteKey(o) ==
    /\ tabs[o].live
    /\ \E mode \in Modes :
         /\ Narrower(mode, tabs[o].mode)
         /\ key' = [key EXCEPT !.mode = mode, !.version = NextVersion(tabs[o], mode)]
    /\ tabs' = [tabs EXCEPT ![o] = NoTab]
    /\ UNCHANGED <<rows, stack, memory, calls, lock, counters, effect>>

\* Revoked or expired, its user suspended or demoted, or MCP switched off.
Revoke ==
    /\ key.live /\ key' = [key EXCEPT !.live = FALSE]
    /\ acts < MaxActs /\ acts' = acts + 1
    /\ UNCHANGED <<rows, stack, tabs, memory, calls, lock, faults, effect>>

Approvable(row) == row.state = "awaiting"
Approve(i) ==
    /\ Approvable(rows[i]) /\ ~rows[i].expired
    /\ rows' = [rows EXCEPT ![i].state = "prepared", ![i].approved = TRUE]
    /\ UNCHANGED <<key, stack, tabs, memory, calls, lock, counters, effect>>

\* Ten minutes pass.  The age of what is not in memory is of no use any more.
Expire(i) ==
    /\ i \in memory /\ ~rows[i].expired
    /\ rows' = [rows EXCEPT ![i].expired = TRUE]
    /\ UNCHANGED <<key, stack, tabs, memory, calls, lock, counters, effect>>

\* The editor and the Git workflow take the same lock.
Save ==
    /\ lock = Free
    /\ acts < MaxActs /\ acts' = acts + 1
    /\ stack' = [stack EXCEPT !.files = @ + 1]
    /\ UNCHANGED <<key, rows, tabs, memory, calls, lock, faults, effect>>

\* The process dies: a command that was just being issued may have had its
\* effect, a file that was being written may hold anything.
Restart ==
    /\ Fault
    /\ \E S \in SUBSET {c \in Calls : At(c, "command")} : Took(S)
    /\ calls' = [c \in Calls |-> NoCall]
    /\ tabs' = [o \in Owners |-> NoTab]
    /\ memory' = {} /\ lock' = Free
    /\ UNCHANGED <<key, rows, acts>>

----------------------------------------------------------------------------
Going(c) ==
    \/ Inspect(c) \/ Fresh(c) \/ Prune(c) \/ Insert(c)
    \/ Checkpoint(c) \/ Compare(c) \/ Claim(c) \/ Command(c) \/ Finish(c) \/ Failing(c)
Owner ==
    \/ \E o \in Owners : ReadKey(o) \/ WriteKey(o)
    \/ Revoke
    \/ \E i \in Ops : Approve(i)
Next ==
    \/ \E c \in Calls : Prepare(c) \/ Apply(c) \/ Going(c)
    \/ Owner
    \/ \E i \in Ops : Expire(i)
    \/ Save \/ Restart

Spec == Init /\ [][Next]_vars

----------------------------------------------------------------------------
(* Properties *)

\* docs/mcp.md:171 and 241: an operation is executed once, and a repeated
\* request does not execute a second one, whatever calls, failures and restarts
\* come between.
AtMostOnce ==
    \A i, j \in Ops :
        /\ effect[i].begun <= 1
        /\ (rows[i].request = rows[j].request /\ effect[i].begun + effect[j].begun > 1) => i = j

\* Why: the claim on the row has one holder, who is the only one to execute, and
\* no two rows are made for one request (mcp-operations.ts:227 and 271).
OneRowPerRequest ==
    \A i, j \in Ops :
        (rows[i].state # "none" /\ rows[j].state # "none" /\ rows[i].request = rows[j].request)
            => i = j
ClaimHeld ==
    \A c \in Calls :
        /\ calls[c].at \in Applying => rows[calls[c].op].state # "none"
        /\ calls[c].at \in Claimed => rows[calls[c].op].state = "running"
        /\ \A d \in Calls : (calls[c].at \in Claimed /\ calls[d].at \in Claimed
                              /\ calls[c].op = calls[d].op) => c = d
NotYet == {"confirm", "reread", "snapshot", "guard", "resnap", "command"}
ExecutedByHolder ==
    /\ \A i \in Ops : /\ effect[i].begun <= 1
                      /\ rows[i].state \in {"none", "awaiting", "prepared"} => effect[i].begun = 0
    /\ \A c \in Calls : (calls[c].at \in NotYet /\ calls[c].round = 1)
                            => effect[calls[c].op].begun = 0
OnceInv == TypeOK /\ OneRowPerRequest /\ ClaimHeld /\ ExecutedByHolder

\* A revocation or a reduction stops an operation at its next checkpoint: at
\* most the command that was already under way runs after it.
StopsAtCheckpoint == \A i \in Ops : effect[i].late <= 1

\* What is executed under a key in approval mode was approved by the owner,
\* also when the key was put in that mode while the call was on its way.
ApprovedFirst ==
    \A i \in Ops : (effect[i].begun > 0 /\ effect[i].mode = "approval") => rows[i].approved

\* The row tells the truth: what succeeded was done, what still waits was not.
OutcomeTrue ==
    \A i \in Ops :
        /\ rows[i].state = "succeeded" => effect[i].begun = 1
        /\ rows[i].state \in {"none", "awaiting", "prepared"} => effect[i].begun = 0

\* A file is only replaced when it holds what the client read, also when a save
\* of the panel comes between.
NothingOverwrittenUnread == \A i \in Ops : ~effect[i].blind

----------------------------------------------------------------------------
(* What the documentation says and the code does not do *)

\* docs/mcp.md:202: "A key never grows."
KeyNeverGrows ==
    [][/\ Narrower(key'.mode, key.mode)
       /\ key'.live => key.live]_vars
====
