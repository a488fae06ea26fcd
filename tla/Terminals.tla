------------------------------ MODULE Terminals ------------------------------
(***************************************************************************)
(* The terminals of the panel (terminal.ts, terminal-socket-handler.ts,    *)
(* stack.ts): commands, whose terminal keeps a second command of the stack *)
(* away until the first has ended, and shells, which clients join and      *)
(* leave and which end with their last client.  Logs are left out.         *)
(*                                                                         *)
(* A registry key is the name with the owner of a private session; every   *)
(* terminal here is started in its constructor's turn.                     *)
(***************************************************************************)
EXTENDS Naturals, FiniteSets

CONSTANTS
    Keys,           \* keys of the registry, one kind of terminal each
    CommandKeys,    \* the ones commands run under
    Clients,        \* connections
    MaxTerminals    \* bound on terminals created

ASSUME TerminalKeysAssumption == CommandKeys \subseteq Keys /\ MaxTerminals \in Nat

Ids == 1..MaxTerminals

VARIABLES
    registry,     \* terminalMap: the id under each key, 0 for none
    terminals,    \* what each id is
    asking,       \* clients between the check of a shell and its creation
    refused,      \* a client that is gone cannot join any more
    closing       \* Terminal.endAll was called

termVars == <<registry, terminals, asking, refused, closing>>

NoTerminal == [key |-> "none"]
Created == {id \in Ids : terminals[id] # NoTerminal}
Running(id) == id \in Created /\ terminals[id].runs

TermTypeOK ==
    /\ registry \in [Keys -> Ids \cup {0}]
    /\ \A id \in Created :
         /\ terminals[id].key \in Keys
         /\ terminals[id].runs \in BOOLEAN /\ terminals[id].ending \in BOOLEAN
         /\ terminals[id].killed \in BOOLEAN /\ terminals[id].interrupted \in BOOLEAN
         /\ terminals[id].clients \subseteq Clients
         /\ terminals[id].answer \in {"none", "code", "error"}
    /\ asking \in SUBSET (Clients \X Keys) /\ refused \subseteq Clients
    \* An entry is a terminal of that key.
    /\ \A k \in Keys : registry[k] # 0 => terminals[registry[k]].key = k

TermInit ==
    /\ registry = [k \in Keys |-> 0]
    /\ terminals = [id \in Ids |-> NoTerminal]
    /\ asking = {} /\ refused = {} /\ closing = FALSE

\* Ids in the order of creation.
Unused == CHOOSE id \in Ids : id \notin Created /\ 1..(id - 1) \subseteq Created
Room == Cardinality(Created) < MaxTerminals

\* The constructor files the terminal under its key, whatever is there.
Opens(k, clients) ==
    /\ Room
    /\ terminals' = [terminals EXCEPT ![Unused] =
         [key |-> k, runs |-> TRUE, ending |-> FALSE, killed |-> FALSE,
          interrupted |-> FALSE, clients |-> clients, answer |-> "none"]]
    /\ registry' = [registry EXCEPT ![k] = Unused]

\* forgetSelf: only the entry that is still this terminal.
ForgottenMutant(id, map) == [map EXCEPT ![terminals[id].key] = 0]
Forgotten(id, map) ==
    [k \in Keys |-> IF map[k] = id THEN 0 ELSE map[k]]

----------------------------------------------------------------------------
(* Clients *)

\* Terminal.exec: refused while the key is taken.
Exec(c, k) ==
    /\ k \in CommandKeys /\ c \notin refused
    /\ registry[k] = 0
    /\ Opens(k, {c})
    /\ UNCHANGED <<asking, refused, closing>>

\* joinContainerTerminal: a session of this client is joined at once, and another
\* is created after Docker said that the image has the shell.
Join(c, k) ==
    /\ k \notin CommandKeys /\ c \notin refused
    /\ IF registry[k] # 0
       THEN /\ terminals' = [terminals EXCEPT ![registry[k]].clients = @ \cup {c}]
            /\ UNCHANGED <<asking, registry>>
       ELSE asking' = asking \cup {<<c, k>>} /\ UNCHANGED <<terminals, registry>>
    /\ UNCHANGED <<refused, closing>>
JoinOpens(c, k) ==
    /\ <<c, k>> \in asking
    /\ asking' = asking \ {<<c, k>>}
    /\ Opens(k, {c})
    /\ UNCHANGED <<refused, closing>>
JoinRefused(c, k) ==
    /\ <<c, k>> \in asking
    /\ asking' = asking \ {<<c, k>>}
    /\ UNCHANGED <<registry, terminals, refused, closing>>

\* end: asked to exit first.  A shell is forgotten at once, a command is kept until
\* its process exited.
Ended(id, given) ==
    /\ terminals' = [given EXCEPT ![id].ending = TRUE]
    /\ registry' = IF terminals[id].ending \/ terminals[id].key \in CommandKeys
                   THEN registry
                   ELSE Forgotten(id, registry)
Left(id, c) == [terminals EXCEPT ![id].clients = @ \ {c}]

LeaveMutant(c, id) ==
    /\ id \in Created /\ c \in terminals[id].clients /\ Running(id)
    /\ c \in refused \/ registry[terminals[id].key] = id
    /\ terminals[id].key \notin CommandKeys
    /\ IF terminals[id].clients = {c} /\ c \notin refused THEN Ended(id, Left(id, c))
       ELSE terminals' = Left(id, c) /\ UNCHANGED registry
    /\ UNCHANGED <<asking, refused, closing>>
\* terminalLeave, or a client the interval finds disconnected: the last one ends the
\* shell.
Leave(c, id) ==
    /\ id \in Created /\ c \in terminals[id].clients /\ Running(id)
    /\ c \in refused \/ registry[terminals[id].key] = id
    /\ terminals[id].key \notin CommandKeys
    /\ IF terminals[id].clients = {c} THEN Ended(id, Left(id, c))
       ELSE terminals' = Left(id, c) /\ UNCHANGED registry
    /\ UNCHANGED <<asking, refused, closing>>

Disconnect(c) ==
    /\ c \notin refused /\ refused' = refused \cup {c}
    /\ UNCHANGED <<registry, terminals, asking, closing>>

----------------------------------------------------------------------------
(* Ending *)

\* endAll at the shutdown, endOwnedBy and closeSessions when access changes: every
\* session of the registry.
EndAll ==
    /\ ~closing /\ closing' = TRUE
    /\ LET sessions == {registry[k] : k \in Keys} \ {0} IN
       /\ terminals' = [id \in Ids |->
            IF id \in sessions THEN [terminals[id] EXCEPT !.ending = TRUE] ELSE terminals[id]]
       /\ registry' = [k \in Keys |-> IF k \in CommandKeys THEN registry[k] ELSE 0]
    /\ UNCHANGED <<asking, refused>>

\* After the grace end kills what is left; of a command the entry stays.
KillMutant(id) ==
    /\ id \in Created /\ terminals[id].ending /\ Running(id) /\ ~terminals[id].killed
    /\ terminals' = [terminals EXCEPT ![id].killed = TRUE,
                        ![id].interrupted = terminals[id].key \in CommandKeys]
    /\ registry' = Forgotten(id, registry)
    /\ UNCHANGED <<asking, refused, closing>>
Kill(id) ==
    /\ id \in Created /\ terminals[id].ending /\ Running(id) /\ ~terminals[id].killed
    /\ terminals' = [terminals EXCEPT ![id].killed = TRUE,
                        ![id].interrupted = terminals[id].key \in CommandKeys]
    /\ registry' = IF terminals[id].key \in CommandKeys THEN registry
                   ELSE Forgotten(id, registry)
    /\ UNCHANGED <<asking, refused, closing>>

\* What exec answers: a code, unless the command was interrupted.
AnswerMutant(id, signal) == IF terminals[id].interrupted \/ signal THEN "error" ELSE "code"
Answer(id, signal) ==
    IF terminals[id].interrupted \/ terminals[id].ending \/ signal THEN "error" ELSE "code"

\* exit: the process is gone, by itself, asked or killed.
ProcessExits(id, signal) ==
    /\ id \in Created /\ Running(id)
    /\ terminals[id].killed => signal
    /\ terminals' = [terminals EXCEPT ![id].runs = FALSE, ![id].clients = {},
         ![id].answer = IF terminals[id].key \in CommandKeys THEN Answer(id, signal)
                        ELSE "none"]
    /\ registry' = Forgotten(id, registry)
    /\ UNCHANGED <<asking, refused, closing>>

TermNext ==
    \/ \E c \in Clients : Disconnect(c)
    \/ \E c \in Clients, k \in Keys :
         Exec(c, k) \/ Join(c, k) \/ JoinOpens(c, k) \/ JoinRefused(c, k)
    \/ \E c \in Clients, id \in Ids : Leave(c, id)
    \/ EndAll
    \/ \E id \in Ids : Kill(id) \/ \E signal \in BOOLEAN : ProcessExits(id, signal)

\* Intervals run, and a killed process is gone.
TermFairness ==
    /\ \A c \in Clients, id \in Ids : WF_termVars(c \in refused /\ Leave(c, id))
    /\ \A id \in Ids : WF_termVars(Kill(id))
                       /\ WF_termVars(/\ Running(id) /\ terminals[id].killed
                                    /\ ProcessExits(id, TRUE))
TermSpec == TermInit /\ [][TermNext]_termVars /\ TermFairness

----------------------------------------------------------------------------
(* Properties *)

\* A command keeps its stack until its process has really exited (terminal.ts:359,
\* 383): its terminal is registered, however it is ended, so that no other command of
\* the stack starts beside it.
CommandsLocked ==
    \A id \in Created : Running(id) /\ terminals[id].key \in CommandKeys =>
        registry[terminals[id].key] = id

\* A session that was reopened while the old one shuts down stays reachable: the late
\* shutdown removes its own entry only (terminal.ts:287).  Two requests that both
\* found no session are the exception: the second takes the entry of the first.
Overtaken(id) ==
    \E later \in Created : later > id /\ terminals[later].key = terminals[id].key
SessionsReachable ==
    \A id \in Created :
        Running(id) /\ ~terminals[id].ending /\ ~Overtaken(id) =>
            registry[terminals[id].key] = id

Interrupted ==
    \A id \in Created :
        terminals[id].answer = "none" /\ terminals'[id].answer = "code"
            => ~terminals[id].ending
\* A command the panel was told to end is never answered with its exit code, which
\* may be 0 (terminal.ts:271): the operation is reported as interrupted.
InterruptedReported == [][Interrupted]_termVars

\* A shell does not stay without a connected client: docker exec would run in the container
\* for ever (terminal.ts:181).
Abandoned(id) ==
    /\ Running(id) /\ terminals[id].key \notin CommandKeys
    /\ terminals[id].clients \subseteq refused
ShellsEnd == \A id \in Ids : []<>~Abandoned(id)

\* From its start to the end of its process a terminal is found under its name and tells
\* how it ended (terminal.ts:104-391).
TerminalsKept ==
    [](TermTypeOK /\ CommandsLocked /\ SessionsReachable) /\ InterruptedReported
=============================================================================
