------------------------------- MODULE Agents -------------------------------
(***************************************************************************)
(* The panel's connections to one agent, another panel (agent-manager.ts,  *)
(* agent-auth.ts, manage-agent-socket-handler.ts).  Each tab connects to   *)
(* the agent for itself, but all of them sign in with the same account and *)
(* share one remote session: a tab whose session was rejected signs in     *)
(* again while others connect, renew, close or remove the agent.           *)
(*                                                                         *)
(* A login, and the cookie it returns, is a number.  External: the agent,  *)
(* which may end sessions and refuse logins, and socket.io, which connects *)
(* again by itself until the client is disconnected by hand.               *)
(***************************************************************************)
EXTENDS Naturals, FiniteSets

CONSTANTS
    Tabs,           \* sockets of the browsers; each opens once
    MaxLogins,      \* bound on logins
    MaxConnections, \* bound on connections begun
    MaxEnded,       \* bound on logins that fail and on sessions that end
    MaxEdits        \* bound on agents added and removed

ASSUME AgentBoundsAssumption ==
    {MaxLogins, MaxConnections, MaxEnded, MaxEdits} \subseteq Nat

VARIABLES
    agentRow,     \* table agent: whether the agent is there
    session,      \* sessions: the login the map holds for the account, or NoLogin
    logins,       \* what became of each login
    valid,        \* cookies the agent accepts
    tabs,         \* whether each tab is connected, and the client it has registered
    links,        \* each call of connect, and the client it made
    ended, edits  \* logins failed and sessions ended, agents added and removed

agentVars == <<agentRow, session, logins, valid, tabs, links, ended, edits>>

Logins == 1..MaxLogins
NoLogin == 0
Connections == 1..MaxConnections
Unregistered == 0

\* "testing" and "signing" wait for a login, "off" is disconnected by hand and waits for
\* one when renewing.
NoConnection == [tab |-> "none", at |-> "unused", waits |-> NoLogin, cookie |-> NoLogin]
Live(c) == links[c].at \in {"connecting", "online"}
Awaits(c) == links[c].waits # NoLogin

AgentTypeOK ==
    /\ agentRow \in BOOLEAN /\ session \in {NoLogin} \cup Logins
    /\ valid \subseteq {n \in Logins : logins[n] # "unused"}
    /\ \A n \in Logins : logins[n] \in {"unused", "pending", "done", "failed"}
    /\ \A t \in Tabs : /\ tabs[t].is \in {"new", "open", "gone"}
                       /\ tabs[t].registered \in {Unregistered} \cup Connections
    /\ \A c \in Connections :
         /\ links[c].at \in {"unused", "testing", "asked", "signing", "connecting",
                               "online", "off", "over"}
         /\ Live(c) => links[c].cookie # NoLogin /\ ~Awaits(c)

AgentInit ==
    /\ agentRow = TRUE /\ session = NoLogin /\ valid = {}
    /\ logins = [n \in Logins |-> "unused"]
    /\ tabs = [t \in Tabs |-> [is |-> "new", registered |-> Unregistered]]
    /\ links = [c \in Connections |-> NoConnection]
    /\ ended = 0 /\ edits = 0

Open(t) == tabs[t].is = "open"
Begins(c, t, step) ==
    /\ links[c].at = "unused" /\ \A b \in 1..(c - 1) : links[b].at # "unused"
    /\ links' = [links EXCEPT ![c] = [NoConnection EXCEPT !.tab = t, !.at = step]]

\* signInAgent with what the map holds: a login under way is joined and a session that
\* was kept is used; otherwise login n begins.
SignsIn(held, n) ==
    IF held # NoLogin THEN n = held /\ session' = held /\ UNCHANGED logins
    ELSE /\ logins[n] = "unused" /\ \A m \in 1..(n - 1) : logins[m] # "unused"
         /\ session' = n /\ logins' = [logins EXCEPT ![n] = "pending"]

\* invalidateAgentSession: only the cookie that was rejected.
WithoutCookieMutant(cookie) == NoLogin
WithoutCookie(cookie) ==
    IF session = cookie /\ session # NoLogin /\ logins[session] = "done" THEN NoLogin
    ELSE session

----------------------------------------------------------------------------
(* The remote session *)

\* A failed login leaves the map, if it is still in it.
LoginAnswers(n) ==
    /\ logins[n] = "pending"
    /\ \/ /\ logins' = [logins EXCEPT ![n] = "done"] /\ valid' = valid \cup {n}
          /\ UNCHANGED <<session, ended>>
       \/ /\ ended < MaxEnded /\ ended' = ended + 1
          /\ logins' = [logins EXCEPT ![n] = "failed"] /\ UNCHANGED valid
          /\ session' = IF session = n THEN NoLogin ELSE session
    /\ UNCHANGED <<agentRow, tabs, links, edits>>

\* The agent ends a session, or its time in the cache is over.
SessionEnds(n) ==
    /\ ended < MaxEnded /\ ended' = ended + 1
    /\ logins[n] = "done"
    /\ \/ n \in valid /\ valid' = valid \ {n} /\ UNCHANGED session
       \/ n = session /\ session' = NoLogin /\ UNCHANGED valid
    /\ UNCHANGED <<agentRow, logins, tabs, links, edits>>

----------------------------------------------------------------------------
(* connect *)

\* connectAll, for the list of agents as it is.
TabOpens(t) ==
    /\ tabs[t].is = "new"
    /\ tabs' = [tabs EXCEPT ![t].is = "open"]
    /\ IF agentRow THEN \E c \in Connections : Begins(c, t, "asked") ELSE UNCHANGED links
    /\ UNCHANGED <<agentRow, session, logins, valid, ended, edits>>

Asks(c) ==
    /\ links[c].at = "asked"
    /\ IF tabs[links[c].tab].registered # Unregistered
       THEN /\ links' = [links EXCEPT ![c].at = "over"] /\ UNCHANGED <<session, logins>>
       ELSE \E n \in Logins :
              /\ SignsIn(session, n)
              /\ links' = [links EXCEPT ![c].at = "signing", ![c].waits = n]
    /\ UNCHANGED <<agentRow, valid, tabs, ended, edits>>

\* After the login the tab may be gone, or have a client already.
MayRegister(t) == Open(t) /\ tabs[t].registered = Unregistered
Connects(c) ==
    LET t == links[c].tab
        n == links[c].waits
    IN
    /\ links[c].at = "signing" /\ logins[n] # "pending"
    /\ IF logins[n] = "done" /\ MayRegister(t)
       THEN /\ links' = [links EXCEPT ![c] =
                 [tab |-> t, at |-> "connecting", waits |-> NoLogin, cookie |-> n]]
            /\ tabs' = [tabs EXCEPT ![t].registered = c]
       ELSE /\ links' = [links EXCEPT ![c].at = "over", ![c].waits = NoLogin]
            /\ UNCHANGED tabs
    /\ UNCHANGED <<agentRow, session, logins, valid, ended, edits>>

\* authIdentity: online; or the agent is too old and the client is disconnected.
Accepted(c) ==
    /\ links[c].at = "connecting" /\ links[c].cookie \in valid
    /\ \E result \in {"online", "over"} : links' = [links EXCEPT ![c].at = result]
    /\ UNCHANGED <<agentRow, session, logins, valid, tabs, ended, edits>>
\* The transport is lost: socket.io connects again with the same cookie.
Dropped(c) ==
    /\ links[c].at = "online"
    /\ links' = [links EXCEPT ![c].at = "connecting"]
    /\ UNCHANGED <<agentRow, session, logins, valid, tabs, ended, edits>>

----------------------------------------------------------------------------
(* renewSession *)

\* needAuth, refresh, or a connection the agent ended.
Rejected(c) ==
    /\ Live(c) /\ links[c].cookie \notin valid
    /\ \E n \in Logins :
         /\ SignsIn(WithoutCookie(links[c].cookie), n)
         /\ links' = [links EXCEPT ![c].at = "off", ![c].waits = n]
    /\ UNCHANGED <<agentRow, valid, tabs, ended, edits>>

RenewedMutant(client, n) == [client EXCEPT !.at = "connecting", !.waits = NoLogin]
Renewed(client, n) == [client EXCEPT !.at = "connecting", !.waits = NoLogin, !.cookie = n]
\* Only the client its tab still has is connected again.
StillWantedMutant(c) == Open(links[c].tab)
StillWanted(c) == Open(links[c].tab) /\ tabs[links[c].tab].registered = c
Renews(c) ==
    LET n == links[c].waits IN
    /\ links[c].at = "off" /\ Awaits(c) /\ logins[n] # "pending"
    /\ links' = [links EXCEPT ![c] =
         IF logins[n] = "done" /\ StillWanted(c) THEN Renewed(@, n)
         ELSE [@ EXCEPT !.at = "over", !.waits = NoLogin]]
    /\ UNCHANGED <<agentRow, session, logins, valid, tabs, ended, edits>>

----------------------------------------------------------------------------
(* Tabs and the list of agents *)

\* disconnect by hand; a renewal under way goes on and decides for itself.
Cut(client) ==
    IF client.at \in {"connecting", "online"} THEN [client EXCEPT !.at = "over"] ELSE client
\* disconnectAll of the tabs that end.
TabsEnd(gone) ==
    /\ tabs' = [t \in Tabs |->
         IF t \in gone THEN [tabs[t] EXCEPT !.is = "gone"] ELSE tabs[t]]
    /\ links' = [c \in Connections |->
         IF links[c].tab \in gone /\ tabs[links[c].tab].registered = c
         THEN Cut(links[c]) ELSE links[c]]
OtherTabs(t) == {other \in Tabs \ {t} : Open(other)}
TabCloses(t) ==
    /\ Open(t) /\ TabsEnd({t})
    /\ UNCHANGED <<agentRow, session, logins, valid, ended, edits>>

\* removeAgent: the row; then the session, the client of this tab and the other tabs.
Removes(t) ==
    /\ Open(t) /\ agentRow /\ edits < MaxEdits
    /\ agentRow' = FALSE /\ edits' = edits + 1
    /\ session' = NoLogin
    /\ LET own == tabs[t].registered
           others == OtherTabs(t)
       IN
       /\ tabs' = [s \in Tabs |-> IF s = t THEN [tabs[s] EXCEPT !.registered = Unregistered]
                    ELSE IF s \in others THEN [tabs[s] EXCEPT !.is = "gone"] ELSE tabs[s]]
       /\ links' = [c \in Connections |->
            IF c = own \/ (links[c].tab \in others /\ tabs[links[c].tab].registered = c)
            THEN Cut(links[c]) ELSE links[c]]
    /\ UNCHANGED <<logins, valid, ended>>

\* addAgent: the login is tried first, then the row is written and the tab connects.
AddTests(t) ==
    /\ Open(t) /\ ~agentRow /\ edits < MaxEdits /\ edits' = edits + 1
    /\ tabs[t].registered = Unregistered
    /\ \E c \in Connections, n \in Logins :
         /\ links[c].at = "unused" /\ \A b \in 1..(c - 1) : links[b].at # "unused"
         /\ SignsIn(session, n)
         /\ links' = [links EXCEPT ![c] =
              [NoConnection EXCEPT !.tab = t, !.at = "testing", !.waits = n]]
    /\ UNCHANGED <<agentRow, valid, tabs, ended>>
\* A second row for the address is refused.
AddWrites(c) ==
    LET t == links[c].tab IN
    /\ links[c].at = "testing" /\ logins[links[c].waits] # "pending"
    /\ IF logins[links[c].waits] = "failed" \/ agentRow
       THEN /\ links' = [links EXCEPT ![c].at = "over", ![c].waits = NoLogin]
            /\ UNCHANGED <<agentRow, tabs>>
       ELSE /\ agentRow' = TRUE
            /\ tabs' = [s \in Tabs |-> IF s \in OtherTabs(t)
                         THEN [tabs[s] EXCEPT !.is = "gone"] ELSE tabs[s]]
            /\ links' = [b \in Connections |->
                 IF b = c THEN [links[c] EXCEPT !.at = "asked", !.waits = NoLogin]
                 ELSE IF links[b].tab \in OtherTabs(t) THEN Cut(links[b]) ELSE links[b]]
    /\ UNCHANGED <<session, logins, valid, ended, edits>>

AgentSteps(c) ==
    Asks(c) \/ Connects(c) \/ Accepted(c) \/ Rejected(c) \/ Renews(c) \/ AddWrites(c)
AgentNext ==
    \/ \E n \in Logins : LoginAnswers(n) \/ SessionEnds(n)
    \/ \E t \in Tabs : TabOpens(t) \/ TabCloses(t) \/ Removes(t) \/ AddTests(t)
    \/ \E c \in Connections : AgentSteps(c) \/ Dropped(c)

\* Requests have deadlines, socket.io keeps trying and continuations run.
AgentFairness ==
    /\ \A n \in Logins : WF_agentVars(LoginAnswers(n))
    /\ \A c \in Connections : WF_agentVars(AgentSteps(c))
AgentSpec == AgentInit /\ [][AgentNext]_agentVars /\ AgentFairness

----------------------------------------------------------------------------
(* Properties *)

\* However many tabs there are, a login is asked for only when there is none to share:
\* each after the first is owed to one that failed, to a session that ended or to a
\* removed agent (agent-auth.ts:26, 35).
LoginsShared ==
    Cardinality({n \in Logins : logins[n] # "unused"}) <= 1 + ended + edits

\* A connection that lives is the one its tab would disconnect: none outlives a closed
\* tab, none is left behind by another (agent-manager.ts:141, 178).
ConnectionsReachable ==
    \A c \in Connections :
        Live(c) => Open(links[c].tab) /\ tabs[links[c].tab].registered = c

\* A tab that has a client comes online, also when its session was rejected under way,
\* unless a login failed, the agent is too old or the client was cut (agent-manager.ts:166).
ConnectionsRecover ==
    \A c \in Connections :
        Live(c) \/ Awaits(c) ~> (links[c].at = "online" \/ links[c].at = "over")

\* The tabs share their logins, and their connections can be ended
\* (agent-manager.ts:100-200, agent-auth.ts:20-60).
ConnectionsKept == AgentTypeOK /\ LoginsShared /\ ConnectionsReachable
=============================================================================
