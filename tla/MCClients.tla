------------------------------ MODULE MCClients ------------------------------
(***************************************************************************)
(* What people, other panels and machine keys reach the panel through: the *)
(* components share no state, so a behaviour is one of the component in    *)
(* focus, as in MCServer.                                                  *)
(***************************************************************************)
EXTENDS Accounts, Agents, Delegation, McpAudit

CONSTANTS u1, u2, b1, b2, t1, t2, forth, back, p1, p2

VARIABLE focus

MCReceiver(k) == IF k = forth THEN "b" ELSE "a"
MCCallOf(r) == IF r = "return" THEN back ELSE forth

Moves(component) == focus = component /\ UNCHANGED focus
Rest(component) ==
    /\ component # "accounts" => UNCHANGED accountVars
    /\ component # "agents" => UNCHANGED agentVars
    /\ component # "delegation" => UNCHANGED delVars
    /\ component # "audit" => UNCHANGED auditVars

\* A component at rest starts in one of its initial states.
MCInit ==
    /\ focus \in {"accounts", "agents", "delegation", "audit"}
    /\ AccountInit /\ AgentInit /\ DelInit /\ AuditInit
    /\ focus # "accounts" => accounts = [u \in Accounts |-> Absent]
MCNext ==
    \/ Moves("accounts") /\ AccountNext /\ Rest("accounts")
    \/ Moves("agents") /\ AgentNext /\ Rest("agents")
    \/ Moves("delegation") /\ DelNext /\ Rest("delegation")
    \/ Moves("audit") /\ AuditNext /\ Rest("audit")
mcVars == <<accountVars, agentVars, delVars, auditVars, focus>>
\* Nothing fair is enabled in the initial states of a component.
MCSpec ==
    /\ MCInit /\ [][MCNext]_mcVars
    /\ AccountFairness /\ AgentFairness /\ DelFairness /\ AuditFairness

\* What others wait for comes: a socket without a session is closed (util-server.ts:285),
\* a tab comes online (agent-manager.ts:166), a delegated call is answered although all
\* places may be taken (mcp-delegation.ts:541), and a repeat reaches its row
\* (mcp-audit.ts:157).
ClientsProgress == RevokedDropped /\ ConnectionsRecover /\ RequestsEnd /\ RepeatsCounted
=============================================================================
