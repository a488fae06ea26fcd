------------------------------ MODULE Accounts ------------------------------
(***************************************************************************)
(* Accounts and what their connections may do (auth-access.ts, auth.ts,    *)
(* util-server.ts, dockge-server.ts): a socket is identified once, every   *)
(* packet is checked again beside the others and admitted in its turn, and *)
(* owners change the access of accounts, their own included, while         *)
(* packets are on the way.                                                 *)
(*                                                                         *)
(* Cookies, passwords and the tables of sessions belong to the library     *)
(* (better-auth); a panel without authentication is not modelled.          *)
(***************************************************************************)
EXTENDS Naturals, FiniteSets, Sequences

CONSTANTS
    Accounts,      \* accounts that may exist
    Browsers,      \* each with one cookie and one socket
    Events,        \* packets that are sent: "status", or a change of access
    MaxPackets,    \* bound on packets sent
    MaxSignIns     \* bound on sign-ins

ASSUME AccountBoundsAssumption ==
    /\ MaxPackets \in Nat /\ MaxSignIns \in Nat
    /\ Events \subseteq {"status", "demote", "suspend", "remove", "password", "promote"}

ASSUME AccountNamesAssumption == "nobody" \notin Accounts \cup Browsers

VARIABLES
    accounts,     \* table user: what each account is
    setupClaims,  \* table auth_bootstrap: whether its only row is there
    cookies,      \* whose session a browser has, and whether the row still exists
    sockets,      \* the socket of each browser
    packets,      \* packets of each socket in the order they arrived
    handlers,     \* what runs for each browser: a change of access, or the setup
    writer,       \* who has SQLite's write lock
    signedOut,    \* browsers whose session ended by itself, until their socket is closed
    sent, signIns, firstOwners,   \* counted for the bounds and the properties
    handled       \* number of the last packet of each socket that reached a handler

accountVars == <<accounts, setupClaims, cookies, sockets, packets, handlers, writer,
                 signedOut, sent, signIns, firstOwners, handled>>

Absent == [role |-> "none", suspended |-> FALSE]
Account(role, suspended) == [role |-> role, suspended |-> suspended]
AccountRoles == {"admin", "viewer"}

Nobody == [user |-> "nobody", role |-> "none"]
NoCookie == [user |-> "nobody", valid |-> FALSE]
ClosedSocket == [at |-> "closed", user |-> "nobody", role |-> "none"]
NoHandler == [does |-> "nothing", target |-> "nobody", at |-> "idle"]
Unwritten == "nobody"

AccountTypeOK ==
    /\ \A u \in Accounts :
         accounts[u] = Absent \/ accounts[u] \in [role : AccountRoles, suspended : BOOLEAN]
    /\ setupClaims \in BOOLEAN
    /\ \A b \in Browsers :
         /\ cookies[b] = NoCookie \/ cookies[b] \in [user : Accounts, valid : BOOLEAN]
         /\ sockets[b].at \in {"closed", "handshake", "open"}
         /\ \A i \in 1..Len(packets[b]) :
              packets[b][i].check \in {"waits", "allowed", "denied"}
         /\ handlers[b].at \in {"idle", "checked", "authorize", "lock", "write", "answer"}
         \* Nothing is handled for a socket before it is known who it is.
         /\ sockets[b].at # "open" =>
              \A i \in 1..Len(packets[b]) : packets[b][i].check = "waits"
    /\ writer \in Browsers \cup {Unwritten}
    /\ writer # Unwritten => handlers[writer].at = "write"

Exists(u) == u \in Accounts /\ accounts[u] # Absent
Owner(account) == account.role = "admin" /\ ~account.suspended

AccountInit ==
    /\ \E all \in {Absent, Account("admin", FALSE)} : accounts = [u \in Accounts |-> all]
    /\ setupClaims = FALSE
    \* Owners are connected, each with a browser of its own.
    /\ \/ /\ \A u \in Accounts : ~Exists(u)
          /\ cookies = [b \in Browsers |-> NoCookie]
       \/ /\ cookies \in [Browsers -> [user : Accounts, valid : {TRUE}]]
          /\ \A u \in Accounts : Exists(u) /\ \E b \in Browsers : cookies[b].user = u
    /\ sockets = [b \in Browsers |-> IF cookies[b] = NoCookie THEN ClosedSocket
                    ELSE [at |-> "open", user |-> cookies[b].user, role |-> "admin"]]
    /\ packets = [b \in Browsers |-> <<>>]
    /\ handlers = [b \in Browsers |-> NoHandler] /\ writer = Unwritten
    /\ signedOut = {} /\ sent = 0 /\ signIns = 0 /\ firstOwners = 0
    /\ handled = [b \in Browsers |-> 0]

\* resolveSocketIdentity: the session row, then the account of today.
Identity(b) ==
    LET u == cookies[b].user IN
    IF cookies[b].valid /\ Exists(u) /\ ~accounts[u].suspended
    THEN [user |-> u, role |-> accounts[u].role] ELSE Nobody

\* roleAllowsEvent: only owners change access.
Allows(role, event) == event = "status" \/ role = "admin"

\* socket.disconnect: what arrived on it is not handled any more.
WithoutSockets(gone) ==
    /\ sockets' = [b \in Browsers |-> IF b \in gone THEN ClosedSocket ELSE sockets[b]]
    /\ packets' = [b \in Browsers |-> IF b \in gone THEN <<>> ELSE packets[b]]
    /\ handled' = [b \in Browsers |-> IF b \in gone THEN 0 ELSE handled[b]]

Tables == <<accounts, setupClaims, firstOwners>>
Counts == <<sent, signIns, signedOut>>

----------------------------------------------------------------------------
(* Signing in and connecting *)

\* A new session, unless the account is suspended; the browser connects again.
SignIn(b, u) ==
    /\ signIns < MaxSignIns /\ signIns' = signIns + 1
    /\ sockets[b] = ClosedSocket /\ ~cookies[b].valid
    /\ Exists(u) /\ ~accounts[u].suspended
    /\ cookies' = [cookies EXCEPT ![b] = [user |-> u, valid |-> TRUE]]
    /\ signedOut' = signedOut \ {b}
    /\ UNCHANGED <<Tables, sockets, packets, handlers, writer, sent, handled>>

\* welcome: the identity is read while the first packets may already arrive.
Welcome(b) ==
    /\ sockets[b] = ClosedSocket /\ cookies[b].valid
    /\ sockets' = [sockets EXCEPT ![b] = [at |-> "handshake", user |-> Identity(b).user,
                                          role |-> Identity(b).role]]
    /\ UNCHANGED <<Tables, Counts, cookies, packets, handlers, writer, handled>>
Identified(b) ==
    /\ sockets[b].at = "handshake"
    /\ sockets' = [sockets EXCEPT ![b].at = "open"]
    /\ UNCHANGED <<Tables, Counts, cookies, packets, handlers, writer, handled>>

\* The session is deleted; the sockets follow with the next dropRevokedSessions.
SignOut(b) ==
    /\ cookies[b].valid
    /\ cookies' = [cookies EXCEPT ![b].valid = FALSE]
    /\ signedOut' = signedOut \cup {b}
    /\ UNCHANGED <<Tables, sent, signIns, sockets, packets, handlers, writer, handled>>

\* After every request to the library and in every round.
DropRevokedMutant(b) ==
    /\ sockets[b].at = "open" /\ sockets[b].user # "nobody"
    /\ Identity(b) # Nobody /\ Identity(b).role # sockets[b].role
    /\ WithoutSockets({b})
    /\ UNCHANGED <<Tables, Counts, cookies, handlers, writer>>
DropRevoked(b) ==
    /\ sockets[b].at = "open" /\ sockets[b].user # "nobody"
    /\ Identity(b) # [user |-> sockets[b].user, role |-> sockets[b].role]
    /\ WithoutSockets({b})
    /\ UNCHANGED <<Tables, Counts, cookies, handlers, writer>>

----------------------------------------------------------------------------
(* Packets *)

Send(b, event, u) ==
    /\ sockets[b].at # "closed"
    /\ sent < MaxPackets /\ sent' = sent + 1
    /\ event = "status" => u = sockets[b].user
    /\ packets' = [packets EXCEPT ![b] =
         Append(@, [n |-> sent', event |-> event, target |-> u, check |-> "waits"])]
    /\ UNCHANGED <<Tables, signIns, signedOut, cookies, sockets, handlers, writer, handled>>

\* authorizeSocketEvent: a session that ended denies, a role that changed ends the
\* connection as well.  The answers come in any order.
Authorize(b, i) ==
    /\ sockets[b].at = "open"
    /\ i \in 1..Len(packets[b]) /\ packets[b][i].check = "waits"
    /\ LET identity == Identity(b)
           known == identity.user # "nobody" /\ identity.user = sockets[b].user
           allowed == known /\ Allows(identity.role, packets[b][i].event)
       IN
       IF known /\ identity.role # sockets[b].role THEN WithoutSockets({b})
       ELSE /\ packets' = [packets EXCEPT
                 ![b][i].check = IF allowed THEN "allowed" ELSE "denied"]
            /\ UNCHANGED <<sockets, handled>>
    /\ UNCHANGED <<Tables, Counts, cookies, handlers, writer>>

\* admitInOrder: the packet whose turn it is goes to its handler, or is denied.
InTurnMutant(b, i) == i \in 1..Len(packets[b]) /\ packets[b][i].check # "waits"
InTurn(b, i) == i = 1 /\ packets[b] # <<>> /\ packets[b][1].check # "waits"
Admit(b, i) ==
    /\ InTurn(b, i)
    /\ LET packet == packets[b][i] IN
       /\ packets' = [packets EXCEPT ![b] = SubSeq(@, 1, i - 1) \o SubSeq(@, i + 1, Len(@))]
       /\ IF packet.check = "denied" THEN UNCHANGED <<handlers, handled>>
          ELSE /\ handled' = [handled EXCEPT ![b] = packet.n]
               /\ IF packet.event = "status" THEN UNCHANGED handlers
                  ELSE /\ handlers[b] = NoHandler
                       /\ handlers' = [handlers EXCEPT ![b] =
                            [does |-> packet.event, target |-> packet.target,
                             at |-> "authorize"]]
    /\ UNCHANGED <<Tables, Counts, cookies, sockets, writer>>

----------------------------------------------------------------------------
(* Changing access *)

ChangeOver(b) == handlers' = [handlers EXCEPT ![b] = NoHandler]
NextStep(b, step) == handlers' = [handlers EXCEPT ![b].at = step]

\* The handler asks again, and for the password of the account of its session.
ChangeConfirmed(b) ==
    /\ handlers[b].at = "authorize"
    /\ IF Allows(Identity(b).role, handlers[b].does)
       THEN NextStep(b, "lock") ELSE ChangeOver(b)
    /\ UNCHANGED <<Tables, Counts, cookies, sockets, packets, writer, handled>>

\* The transaction begins with a write: SQLite gives the lock to one at a time.
LockTaken(b) ==
    /\ handlers[b].at = "lock" /\ writer = Unwritten
    /\ writer' = b /\ NextStep(b, "write")
    /\ UNCHANGED <<Tables, Counts, cookies, sockets, packets, handled>>

ChangedTo(account, change) ==
    CASE change = "remove" -> Absent
      [] change = "demote" -> [account EXCEPT !.role = "viewer"]
      [] change = "promote" -> [role |-> "admin", suspended |-> FALSE]
      [] change = "suspend" -> [account EXCEPT !.suspended = TRUE]
      [] change = "password" -> account
\* Refused when it takes the last owner.
TakesLastOwnerMutant(u, change) ==
    /\ Owner(accounts[u]) /\ ~Owner(ChangedTo(accounts[u], change))
    /\ Cardinality({v \in Accounts : Exists(v)}) <= 1
TakesLastOwner(u, change) ==
    /\ Owner(accounts[u]) /\ ~Owner(ChangedTo(accounts[u], change))
    /\ Cardinality({v \in Accounts : Owner(accounts[v])}) <= 1

\* changeUserAccess, resetUserPassword: the sessions of the account go with it.
ChangeWritten(b) ==
    /\ handlers[b].at = "write" /\ handlers[b].does # "setup"
    /\ writer' = Unwritten
    /\ LET u == handlers[b].target
           change == handlers[b].does
       IN
       IF ~Exists(u) \/ TakesLastOwner(u, change)
       THEN ChangeOver(b) /\ UNCHANGED <<Tables, cookies>>
       ELSE /\ accounts' = [accounts EXCEPT ![u] = ChangedTo(@, change)]
            /\ cookies' = [k \in Browsers |->
                 IF cookies[k].user = u THEN [cookies[k] EXCEPT !.valid = FALSE]
                 ELSE cookies[k]]
            /\ NextStep(b, "answer") /\ UNCHANGED <<setupClaims, firstOwners>>
    /\ UNCHANGED <<Counts, sockets, packets, handled>>

\* The answer, and in the same turn disconnectAllSocketClients.  A socket that is
\* not identified yet belongs to nobody.
SocketsOfMutant(u) ==
    {k \in Browsers : sockets[k].at = "open" /\ sockets[k].user = u /\ packets[k] = <<>>}
SocketsOf(u) == {k \in Browsers : sockets[k].at = "open" /\ sockets[k].user = u}
ChangeAnswered(b) ==
    /\ handlers[b].at = "answer"
    /\ WithoutSockets(SocketsOf(handlers[b].target))
    /\ ChangeOver(b)
    /\ UNCHANGED <<Tables, Counts, cookies, writer>>

----------------------------------------------------------------------------
(* Setup *)

\* bootstrap: refused when there is an account; then the password is hashed.
SetupAsked(b) ==
    /\ handlers[b] = NoHandler /\ sent < MaxPackets /\ sent' = sent + 1
    /\ \A u \in Accounts : ~Exists(u)
    /\ \E u \in Accounts :
         handlers' = [handlers EXCEPT ![b] =
           [does |-> "setup", target |-> u, at |-> "checked"]]
    /\ UNCHANGED <<Tables, signIns, signedOut, cookies, sockets, packets, writer, handled>>

\* issueUser: the claim and the account in one transaction.
SetupRefusedMutant == FALSE
SetupRefused == setupClaims \/ \E u \in Accounts : Exists(u)
SetupWritten(b) ==
    /\ handlers[b].at = "checked" /\ writer = Unwritten
    /\ IF SetupRefused THEN UNCHANGED Tables
       ELSE /\ accounts' = [accounts EXCEPT ![handlers[b].target] = Account("admin", FALSE)]
            /\ setupClaims' = TRUE /\ firstOwners' = firstOwners + 1
    /\ ChangeOver(b)
    /\ UNCHANGED <<Counts, cookies, sockets, packets, writer, handled>>

AccountNext ==
    \/ \E b \in Browsers, u \in Accounts : SignIn(b, u)
    \/ \E b \in Browsers : Welcome(b) \/ Identified(b) \/ SignOut(b) \/ DropRevoked(b)
    \/ \E b \in Browsers, u \in Accounts : \E event \in Events : Send(b, event, u)
    \/ \E b \in Browsers : \E i \in 1..MaxPackets : Authorize(b, i) \/ Admit(b, i)
    \/ \E b \in Browsers :
         \/ ChangeConfirmed(b) \/ LockTaken(b)
         \/ ChangeWritten(b) \/ ChangeAnswered(b) \/ SetupAsked(b) \/ SetupWritten(b)

\* The handshake is completed and rounds run.
AccountFairness ==
    \A b \in Browsers : WF_accountVars(Identified(b)) /\ WF_accountVars(DropRevoked(b))
AccountSpec == AccountInit /\ [][AccountNext]_accountVars /\ AccountFairness

----------------------------------------------------------------------------
(* Properties *)

HadOwner == \E u \in Accounts : Owner(accounts[u])
\* Owners that demote, suspend or remove one another and themselves at the same time
\* leave at least one of them (auth-access.ts:226).
OwnerRemains == [][HadOwner => HadOwner']_accountVars

\* Two pages that set the panel up at once make one first owner (auth-access.ts:93).
OneFirstOwner == firstOwners <= 1

\* What is to end the socket of browser b is still to come: the answer of the change,
\* or the drop that follows a sign-out.
CutPending(b) ==
    \/ \E k \in Browsers : handlers[k].at = "answer" /\ handlers[k].target = sockets[b].user
    \/ b \in signedOut
HandlesPermitted ==
    \A b \in Browsers :
        handled'[b] \notin {0, handled[b]} =>
            \/ Allows(Identity(b).role, Head(packets[b]).event) /\ Identity(b) # Nobody
            \/ CutPending(b)
\* A packet reaches its handler with the rights its account has, although they were read
\* earlier and its turn came late (util-server.ts:151): once a change of access has been
\* answered, nothing that was sent before it is handled under the former rights.
HandledAsPermitted == [][HandlesPermitted]_accountVars

\* Packets reach the handlers in the order they arrived, whatever each check took
\* (util-server.ts:157).
HandledInOrder ==
    [][\A b \in Browsers : handled'[b] = 0 \/ handled'[b] >= handled[b]]_accountVars

\* A socket whose session is gone is closed (util-server.ts:285), also when the session
\* ended during its handshake: again and again there is none.
Revoked(b) ==
    sockets[b].at # "closed" /\ sockets[b].user # "nobody" /\ Identity(b) = Nobody
RevokedDropped == []<>(\A b \in Browsers : ~Revoked(b))

\* There is one first owner, and from then on always an owner.
OwnersRemain == [](AccountTypeOK /\ OneFirstOwner) /\ OwnerRemains

\* A change of access is in force for what is on the way, in the order it was sent
\* (util-server.ts:151-171).
AccessInForce == HandledAsPermitted /\ HandledInOrder
=============================================================================
