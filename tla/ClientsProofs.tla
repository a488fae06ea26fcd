---------------------------- MODULE ClientsProofs ----------------------------
(***************************************************************************)
(* What holds of those the panel is reached by and reaches, for any number *)
(* of them: an owner remains and packets are handled under rights in       *)
(* force, tabs share their logins at an agent, a delegated call is worked  *)
(* once, and a flushed log is complete.                                    *)
(***************************************************************************)
EXTENDS Accounts, Agents, Delegation, McpAudit, SequenceTheorems, FiniteSetTheorems, TLAPS

----------------------------------------------------------------------------
(* Accounts, sessions and packets *)

Changes == Events \ {"status"}
AccountRecord == [role : AccountRoles, suspended : BOOLEAN]
CookieRecord == [user : Accounts, valid : BOOLEAN]
SocketRecord ==
    [at : {"closed", "handshake", "open"}, user : Accounts \cup {"nobody"},
     role : AccountRoles \cup {"none"}]
PacketRecord ==
    [n : Nat, event : Events, target : Accounts,
     check : {"waits", "allowed", "denied"}]
HandlerRecord ==
    [does : Events \cup {"setup", "nothing"}, target : Accounts \cup {"nobody"},
     at : {"idle", "checked", "authorize", "lock", "write", "answer"}]

AccountShape ==
    /\ accounts \in [Accounts -> AccountRecord \cup {Absent}] /\ setupClaims \in BOOLEAN
    /\ cookies \in [Browsers -> CookieRecord \cup {NoCookie}]
    /\ sockets \in [Browsers -> SocketRecord]
    /\ packets \in [Browsers -> Seq(PacketRecord)]
    /\ handlers \in [Browsers -> HandlerRecord]
    /\ writer \in Browsers \cup {Unwritten}
    /\ sent \in Nat /\ handled \in [Browsers -> Nat]

\* What a handler does at its steps.
HandlersKnown ==
    /\ writer # Unwritten => handlers[writer].at = "write"
    /\ \A b \in Browsers :
         /\ handlers[b].at = "checked" => handlers[b].does = "setup"
                                          /\ handlers[b].target \in Accounts
         /\ handlers[b].at \in {"authorize", "lock", "write", "answer"} =>
              handlers[b].does \in Changes /\ handlers[b].target \in Accounts

\* Packets wait in the order they came, behind those that were handled.
PacketsOrdered ==
    \A b \in Browsers :
        /\ sockets[b].at = "closed" => packets[b] = <<>>
        /\ handled[b] <= sent
        /\ \A i \in 1..Len(packets[b]) :
             /\ handled[b] < packets[b][i].n /\ packets[b][i].n <= sent
             /\ sockets[b].at # "open" => packets[b][i].check = "waits"
             /\ \A j \in 1..Len(packets[b]) :
                  i < j => packets[b][i].n < packets[b][j].n

\* Who a socket was identified as is who its cookie stands for.
SocketsKnown ==
    \A b \in Browsers :
        sockets[b].at # "closed" /\ sockets[b].user # "nobody" =>
            cookies[b].user = sockets[b].user

\* What an allowed packet was allowed for is still so, or its socket is about to be cut.
Permitted(b, event) ==
    /\ Identity(b).user # "nobody" /\ Identity(b).user = sockets[b].user
    /\ Allows(Identity(b).role, event)
AllowedPermitted ==
    \A b \in Browsers : \A i \in 1..Len(packets[b]) :
        packets[b][i].check = "allowed" =>
            Permitted(b, packets[b][i].event) \/ CutPending(b)

FirstOwner ==
    (firstOwners = 0 \/ (firstOwners = 1 /\ setupClaims))

AccountInv ==
    /\ AccountShape /\ HandlersKnown /\ PacketsOrdered /\ SocketsKnown
    /\ AllowedPermitted /\ FirstOwner

HandledOrdered == \A b \in Browsers : handled'[b] = 0 \/ handled'[b] >= handled[b]
AccountStepOK ==
    AccountInv' /\ (HadOwner => HadOwner') /\ HandlesPermitted /\ HandledOrdered

----------------------------------------------------------------------------
(* What stays *)

LEMMA AccountValues ==
    /\ Absent \notin AccountRecord
    /\ NoCookie.user = "nobody" /\ NoCookie.valid = FALSE
    /\ NoHandler \in HandlerRecord /\ NoHandler.at = "idle"
    /\ ClosedSocket \in SocketRecord /\ ClosedSocket.at = "closed"
    /\ Nobody.user = "nobody" /\ Nobody.role = "none"
<1>1. Absent \notin AccountRecord
  BY DEF Absent, AccountRecord, AccountRoles
<1>2. NoCookie.user = "nobody" /\ NoCookie.valid = FALSE
  BY DEF NoCookie
<1>3. NoHandler \in HandlerRecord /\ NoHandler.at = "idle"
  BY DEF NoHandler, HandlerRecord
<1>4. ClosedSocket \in SocketRecord /\ ClosedSocket.at = "closed"
  BY DEF ClosedSocket, SocketRecord
<1>5. Nobody.user = "nobody" /\ Nobody.role = "none"
  BY DEF Nobody
<1> QED BY <1>1, <1>2, <1>3, <1>4, <1>5

\* The fields of every part, for the provers.
LEMMA AccountFields ==
  ASSUME AccountShape
  PROVE  /\ \A b \in Browsers :
              /\ sockets[b] \in SocketRecord
              /\ sockets[b].at \in {"closed", "handshake", "open"}
              /\ packets[b] \in Seq(PacketRecord) /\ Len(packets[b]) \in Nat
              /\ \A i \in 1..Len(packets[b]) :
                   /\ packets[b][i] \in PacketRecord
                   /\ packets[b][i].n \in Nat /\ packets[b][i].event \in Events
                   /\ packets[b][i].target \in Accounts
                   /\ packets[b][i].check \in {"waits", "allowed", "denied"}
              /\ handlers[b] \in HandlerRecord /\ handled[b] \in Nat
              /\ cookies[b].user \in Accounts \cup {"nobody"}
              /\ cookies[b].valid \in BOOLEAN
         /\ \A u \in Accounts : accounts[u] # Absent => accounts[u] \in AccountRecord
<1> SUFFICES ASSUME NEW b \in Browsers
             PROVE  /\ sockets[b] \in SocketRecord
                    /\ sockets[b].at \in {"closed", "handshake", "open"}
                    /\ packets[b] \in Seq(PacketRecord) /\ Len(packets[b]) \in Nat
                    /\ \A i \in 1..Len(packets[b]) :
                         /\ packets[b][i] \in PacketRecord
                         /\ packets[b][i].n \in Nat /\ packets[b][i].event \in Events
                         /\ packets[b][i].target \in Accounts
                         /\ packets[b][i].check \in {"waits", "allowed", "denied"}
                    /\ handlers[b] \in HandlerRecord /\ handled[b] \in Nat
                    /\ cookies[b].user \in Accounts \cup {"nobody"}
                    /\ cookies[b].valid \in BOOLEAN
  BY DEF AccountShape
<1>1. sockets[b] \in SocketRecord /\ handlers[b] \in HandlerRecord /\ handled[b] \in Nat
      /\ packets[b] \in Seq(PacketRecord) /\ cookies[b] \in CookieRecord \cup {NoCookie}
  BY DEF AccountShape
<1>2. sockets[b].at \in {"closed", "handshake", "open"}
  BY <1>1 DEF SocketRecord
<1>3. Len(packets[b]) \in Nat
  BY <1>1, LenProperties
<1>4. \A i \in 1..Len(packets[b]) : packets[b][i] \in PacketRecord
  BY <1>1, ElementOfSeq
<1>5. \A packet \in PacketRecord :
         /\ packet.n \in Nat /\ packet.event \in Events /\ packet.target \in Accounts
         /\ packet.check \in {"waits", "allowed", "denied"}
  BY DEF PacketRecord
<1>6. cookies[b].user \in Accounts \cup {"nobody"} /\ cookies[b].valid \in BOOLEAN
  BY <1>1, AccountValues DEF CookieRecord
<1> QED BY <1>1, <1>2, <1>3, <1>4, <1>5, <1>6

LEMMA IdentityIs ==
  ASSUME AccountShape, NEW b \in Browsers
  PROVE  /\ Identity(b).user \in Accounts \cup {"nobody"}
         /\ Identity(b).role \in AccountRoles \cup {"none"}
         /\ Identity(b).user # "nobody" => Identity(b).user = cookies[b].user
         /\ Identity(b).user # "nobody" => Identity(b) # Nobody
         /\ Identity(b).user # "nobody" =>
              cookies[b].user \in Accounts /\ accounts[cookies[b].user] # Absent
<1>1. cookies[b].user \in Accounts => accounts[cookies[b].user] \in AccountRecord \cup {Absent}
  BY DEF AccountShape
<1>2. \A account \in AccountRecord : account.role \in AccountRoles
  BY DEF AccountRecord
<1> QED BY <1>1, <1>2 DEF Identity, Exists, Nobody

LEMMA KeepsHandled ==
  ASSUME AccountShape, UNCHANGED handled
  PROVE  HandlesPermitted /\ HandledOrdered
BY AccountFields DEF HandlesPermitted, HandledOrdered

LEMMA KeepsOwners ==
  ASSUME UNCHANGED accounts
  PROVE  HadOwner => HadOwner'
BY DEF HadOwner, Owner

\* A socket is closed with what arrived on it.
LEMMA Closing ==
  ASSUME AccountInv, NEW gone \in SUBSET Browsers, WithoutSockets(gone), UNCHANGED sent
  PROVE  /\ sockets' \in [Browsers -> SocketRecord]
         /\ packets' \in [Browsers -> Seq(PacketRecord)]
         /\ handled' \in [Browsers -> Nat]
         /\ PacketsOrdered'
         /\ HandlesPermitted /\ HandledOrdered
         /\ \A b \in Browsers : b \notin gone =>
              sockets'[b] = sockets[b] /\ packets'[b] = packets[b]
         /\ \A b \in gone : sockets'[b] = ClosedSocket /\ packets'[b] = <<>>
<1>1. AccountShape /\ PacketsOrdered
  BY DEF AccountInv
<1>2. sent \in Nat
  BY <1>1 DEF AccountShape
<1>3. <<>> \in Seq(PacketRecord) /\ Len(<<>>) = 0
  BY EmptySeq
<1>4. /\ sockets' = [b \in Browsers |-> IF b \in gone THEN ClosedSocket ELSE sockets[b]]
      /\ packets' = [b \in Browsers |-> IF b \in gone THEN <<>> ELSE packets[b]]
      /\ handled' = [b \in Browsers |-> IF b \in gone THEN 0 ELSE handled[b]]
  BY DEF WithoutSockets
<1>5. /\ sockets' \in [Browsers -> SocketRecord]
      /\ packets' \in [Browsers -> Seq(PacketRecord)]
      /\ handled' \in [Browsers -> Nat]
  BY <1>1, <1>3, <1>4, AccountValues, AccountFields
<1>6. \A b \in Browsers :
         /\ b \notin gone => /\ sockets'[b] = sockets[b] /\ packets'[b] = packets[b]
                             /\ handled'[b] = handled[b]
         /\ b \in gone => /\ sockets'[b] = ClosedSocket /\ packets'[b] = <<>>
                          /\ handled'[b] = 0
  BY <1>4
<1>7. ASSUME NEW b \in Browsers
      PROVE  /\ sockets'[b].at = "closed" => packets'[b] = <<>>
             /\ handled'[b] <= sent
             /\ \A i \in 1..Len(packets'[b]) :
                  /\ handled'[b] < packets'[b][i].n /\ packets'[b][i].n <= sent
                  /\ sockets'[b].at # "open" => packets'[b][i].check = "waits"
                  /\ \A j \in 1..Len(packets'[b]) :
                       i < j => packets'[b][i].n < packets'[b][j].n
  <2>1. CASE b \in gone
    <3>1. sockets'[b].at = "closed" /\ packets'[b] = <<>> /\ handled'[b] = 0
      BY <1>6, <2>1, AccountValues
    <3>2. 1..Len(packets'[b]) = {}
      BY <1>3, <3>1
    <3> QED BY <1>2, <3>1, <3>2
  <2>2. CASE b \notin gone
    <3>1. sockets'[b] = sockets[b] /\ packets'[b] = packets[b] /\ handled'[b] = handled[b]
      BY <1>6, <2>2
    <3> QED BY <1>1, <3>1 DEF PacketsOrdered
  <2> QED BY <2>1, <2>2
<1>8. PacketsOrdered'
  BY <1>7 DEF PacketsOrdered
<1>9. HandlesPermitted /\ HandledOrdered
  BY <1>1, <1>6, AccountFields DEF HandlesPermitted, HandledOrdered
<1> QED BY <1>5, <1>6, <1>8, <1>9

\* What was allowed stays so while accounts, sessions and cuts stay as they are.
StaysAllowed(b) ==
    \A event \in Events : Permitted(b, event) \/ CutPending(b) =>
                            (Permitted(b, event) \/ CutPending(b))'

LEMMA CutStays ==
  ASSUME NEW b \in Browsers, sockets'[b] = sockets[b],
         \A k \in Browsers : handlers[k].at = "answer" =>
            handlers'[k] = handlers[k] \/ handlers[k].target # sockets[b].user,
         b \in signedOut => b \in signedOut'
  PROVE  CutPending(b) => CutPending(b)'
BY DEF CutPending

LEMMA IdentityStays ==
  ASSUME NEW b \in Browsers, sockets'[b] = sockets[b], UNCHANGED <<accounts, cookies>>,
         \A k \in Browsers : handlers[k].at = "answer" =>
            handlers'[k] = handlers[k] \/ handlers[k].target # sockets[b].user,
         b \in signedOut => b \in signedOut'
  PROVE  StaysAllowed(b)
<1>1. Identity(b)' = Identity(b)
  BY DEF Identity, Exists
<1>2. CutPending(b) => CutPending(b)'
  BY CutStays
<1> QED BY <1>1, <1>2 DEF StaysAllowed, Permitted, Allows

\* Sockets whose packets stay.
LEMMA PacketsStayAllowed ==
  ASSUME AccountInv,
         \A b \in Browsers :
            packets'[b] = <<>> \/ (packets'[b] = packets[b] /\
                (StaysAllowed(b) \/ \A i \in 1..Len(packets[b]) : packets[b][i].check = "waits"))
  PROVE  AllowedPermitted'
<1> SUFFICES ASSUME NEW b \in Browsers, NEW i \in 1..Len(packets'[b]),
                    packets'[b][i].check = "allowed"
             PROVE  Permitted(b, packets[b][i].event)' \/ CutPending(b)'
  BY DEF AllowedPermitted
<1>1. packets'[b] # <<>>
  <2>1. Len(<<>>) = 0
    BY EmptySeq
  <2> QED BY <2>1
<1>2. packets'[b] = packets[b] /\ StaysAllowed(b)
  BY <1>1
<1>3. packets[b][i].event \in Events
  BY <1>2, AccountFields DEF AccountInv
<1>4. Permitted(b, packets[b][i].event) \/ CutPending(b)
  BY <1>2 DEF AccountInv, AllowedPermitted
<1>5. \A event \in Events : Permitted(b, event) \/ CutPending(b) =>
                            Permitted(b, event)' \/ CutPending(b)'
  BY <1>2 DEF StaysAllowed
<1>6. PICK event \in Events : event = packets[b][i].event
  BY <1>3
<1>7. Permitted(b, event)' \/ CutPending(b)'
  BY <1>4, <1>5, <1>6
<1>8. event = packets'[b][i].event
  BY <1>2, <1>6
<1> QED BY <1>7, <1>8

----------------------------------------------------------------------------
(* Signing in and connecting *)

LEMMA AccountInitInv == AccountInit => AccountInv
<1> SUFFICES ASSUME AccountInit PROVE AccountInv
  OBVIOUS
<1>1. Account("admin", FALSE) \in AccountRecord
  BY DEF Account, AccountRecord, AccountRoles
<1>2. accounts \in [Accounts -> AccountRecord \cup {Absent}]
  BY <1>1 DEF AccountInit
<1>3. cookies \in [Browsers -> CookieRecord \cup {NoCookie}]
  BY DEF AccountInit, CookieRecord
<1>4. /\ sockets = [b \in Browsers |-> IF cookies[b] = NoCookie THEN ClosedSocket
                    ELSE [at |-> "open", user |-> cookies[b].user, role |-> "admin"]]
  BY DEF AccountInit
<1>5. ASSUME NEW b \in Browsers
      PROVE  /\ sockets[b] \in SocketRecord
             /\ sockets[b].at # "closed" => sockets[b].user = cookies[b].user
  <2>1. cookies[b].user \in Accounts \cup {"nobody"}
    BY <1>3, AccountValues DEF CookieRecord
  <2> QED BY <1>4, <2>1, AccountValues DEF SocketRecord, AccountRoles
<1>6. sockets \in [Browsers -> SocketRecord]
  BY <1>4, <1>5
<1>7. /\ packets \in [Browsers -> Seq(PacketRecord)]
      /\ \A b \in Browsers : packets[b] = <<>> /\ 1..Len(packets[b]) = {}
  BY EmptySeq DEF AccountInit
<1>8. /\ handlers \in [Browsers -> HandlerRecord] /\ handled \in [Browsers -> Nat]
      /\ \A b \in Browsers : handlers[b].at = "idle" /\ handled[b] = 0
  BY AccountValues DEF AccountInit
<1>9. AccountShape
  BY <1>2, <1>3, <1>6, <1>7, <1>8 DEF AccountShape, AccountInit
<1>10. HandlersKnown /\ PacketsOrdered /\ AllowedPermitted
  BY <1>7, <1>8 DEF HandlersKnown, PacketsOrdered, AllowedPermitted, AccountInit
<1>11. SocketsKnown /\ FirstOwner
  BY <1>5 DEF SocketsKnown, FirstOwner, AccountInit
<1> QED BY <1>9, <1>10, <1>11 DEF AccountInv

\* A browser whose socket is closed, and has no packets, signs in.
LEMMA SignInOK ==
  ASSUME AccountInv, NEW b \in Browsers, NEW u \in Accounts, SignIn(b, u)
  PROVE  AccountStepOK
<1>1. /\ UNCHANGED <<accounts, setupClaims, firstOwners, sockets, packets, handlers, writer,
                     sent, handled>>
      /\ cookies' = [cookies EXCEPT ![b] = [user |-> u, valid |-> TRUE]]
      /\ signedOut' = signedOut \ {b} /\ sockets[b] = ClosedSocket
  BY DEF SignIn, Tables
<1>2. AccountShape
  BY DEF AccountInv
<1>3. cookies' \in [Browsers -> CookieRecord \cup {NoCookie}]
  BY <1>1, <1>2 DEF AccountShape, CookieRecord
<1>4. AccountShape'
  BY <1>1, <1>2, <1>3 DEF AccountShape
<1>5. HandlersKnown' /\ PacketsOrdered' /\ FirstOwner'
  BY <1>1 DEF AccountInv, HandlersKnown, PacketsOrdered, FirstOwner
<1>6. \A k \in Browsers : k # b => cookies'[k] = cookies[k]
  BY <1>1, <1>2 DEF AccountShape
<1>7. SocketsKnown'
  BY <1>1, <1>6, AccountValues DEF AccountInv, SocketsKnown
<1>8. packets[b] = <<>>
  BY <1>1, AccountValues DEF AccountInv, PacketsOrdered
<1>9. ASSUME NEW k \in Browsers, k # b
      PROVE  StaysAllowed(k)
  <2>1. Identity(k)' = Identity(k)
    BY <1>1, <1>6, <1>9 DEF Identity, Exists
  <2>2. CutPending(k) => CutPending(k)'
    BY <1>1, <1>9 DEF CutPending
  <2> QED BY <1>1, <2>1, <2>2 DEF StaysAllowed, Permitted, Allows
<1>10. AllowedPermitted'
  BY <1>1, <1>8, <1>9, PacketsStayAllowed
<1>11. (HadOwner => HadOwner') /\ HandlesPermitted /\ HandledOrdered
  BY <1>1, <1>2, KeepsOwners, KeepsHandled
<1> QED BY <1>4, <1>5, <1>7, <1>10, <1>11 DEF AccountInv, AccountStepOK

LEMMA WelcomeOK ==
  ASSUME AccountInv, NEW b \in Browsers, Welcome(b)
  PROVE  AccountStepOK
<1> DEFINE socket == [at |-> "handshake", user |-> Identity(b).user, role |-> Identity(b).role]
<1>1. /\ UNCHANGED <<accounts, setupClaims, firstOwners, cookies, packets, handlers, writer,
                     sent, handled, signedOut>>
      /\ sockets' = [sockets EXCEPT ![b] = socket] /\ sockets[b] = ClosedSocket
  BY DEF Welcome, Tables, Counts
<1>2. AccountShape
  BY DEF AccountInv
<1>3. socket \in SocketRecord /\ socket.at = "handshake" /\ socket.user = Identity(b).user
  BY <1>2, IdentityIs DEF SocketRecord
<1> HIDE DEF socket
<1>4. sockets' \in [Browsers -> SocketRecord]
  BY <1>1, <1>2, <1>3 DEF AccountShape
<1>5. AccountShape'
  BY <1>1, <1>2, <1>4 DEF AccountShape
<1>6. sockets'[b] = socket /\ \A k \in Browsers : k # b => sockets'[k] = sockets[k]
  BY <1>1, <1>2 DEF AccountShape
<1>7. packets[b] = <<>> /\ 1..Len(packets[b]) = {}
  BY <1>1, AccountValues, EmptySeq DEF AccountInv, PacketsOrdered
<1>8. PacketsOrdered'
  BY <1>1, <1>6, <1>7 DEF AccountInv, PacketsOrdered
<1>9. HandlersKnown' /\ FirstOwner'
  BY <1>1 DEF AccountInv, HandlersKnown, FirstOwner
<1>10. SocketsKnown'
  BY <1>1, <1>2, <1>3, <1>6, IdentityIs DEF AccountInv, SocketsKnown
<1>11. \A k \in Browsers : k # b => StaysAllowed(k)
  BY <1>1, <1>6, IdentityStays
<1>12. AllowedPermitted'
  BY <1>1, <1>7, <1>11, PacketsStayAllowed
<1>13. (HadOwner => HadOwner') /\ HandlesPermitted /\ HandledOrdered
  BY <1>1, <1>2, KeepsOwners, KeepsHandled
<1> QED BY <1>5, <1>8, <1>9, <1>10, <1>12, <1>13 DEF AccountInv, AccountStepOK

\* The socket is identified: what waited on it is still unchecked.
LEMMA IdentifiedOK ==
  ASSUME AccountInv, NEW b \in Browsers, Identified(b)
  PROVE  AccountStepOK
<1>1. /\ UNCHANGED <<accounts, setupClaims, firstOwners, cookies, packets, handlers, writer,
                     sent, handled, signedOut>>
      /\ sockets' = [sockets EXCEPT ![b].at = "open"] /\ sockets[b].at = "handshake"
  BY DEF Identified, Tables, Counts
<1>2. AccountShape
  BY DEF AccountInv
<1>3. sockets' \in [Browsers -> SocketRecord]
  BY <1>1, <1>2 DEF AccountShape, SocketRecord
<1>4. AccountShape'
  BY <1>1, <1>2, <1>3 DEF AccountShape
<1>5. /\ sockets'[b].at = "open" /\ sockets'[b].user = sockets[b].user
      /\ \A k \in Browsers : k # b => sockets'[k] = sockets[k]
  <2>1. sockets[b] \in SocketRecord
    BY <1>2 DEF AccountShape
  <2>2. sockets'[b] = [sockets[b] EXCEPT !.at = "open"]
    BY <1>1, <1>2 DEF AccountShape
  <2> QED BY <1>1, <1>2, <2>1, <2>2 DEF AccountShape, SocketRecord
<1>6. PacketsOrdered'
  BY <1>1, <1>5 DEF AccountInv, PacketsOrdered
<1>7. HandlersKnown' /\ FirstOwner'
  BY <1>1 DEF AccountInv, HandlersKnown, FirstOwner
<1>8. SocketsKnown'
  BY <1>1, <1>5 DEF AccountInv, SocketsKnown
<1>9. \A i \in 1..Len(packets[b]) : packets[b][i].check = "waits"
  BY <1>1 DEF AccountInv, PacketsOrdered
<1>10. \A k \in Browsers : k # b => StaysAllowed(k)
  BY <1>1, <1>5, IdentityStays
<1>11. AllowedPermitted'
  BY <1>1, <1>9, <1>10, PacketsStayAllowed
<1>12. (HadOwner => HadOwner') /\ HandlesPermitted /\ HandledOrdered
  BY <1>1, <1>2, KeepsOwners, KeepsHandled
<1> QED BY <1>4, <1>6, <1>7, <1>8, <1>11, <1>12 DEF AccountInv, AccountStepOK

\* A session ends by itself: its socket is about to be cut.
LEMMA SignOutOK ==
  ASSUME AccountInv, NEW b \in Browsers, SignOut(b)
  PROVE  AccountStepOK
<1>1. /\ UNCHANGED <<accounts, setupClaims, firstOwners, sockets, packets, handlers, writer,
                     sent, handled>>
      /\ cookies' = [cookies EXCEPT ![b].valid = FALSE]
      /\ signedOut' = signedOut \cup {b} /\ cookies[b].valid
  BY DEF SignOut, Tables
<1>2. AccountShape
  BY DEF AccountInv
<1>3. cookies[b] \in CookieRecord
  BY <1>1, <1>2, AccountValues DEF AccountShape
<1>4. /\ cookies' \in [Browsers -> CookieRecord \cup {NoCookie}]
      /\ cookies'[b].user = cookies[b].user
      /\ \A k \in Browsers : k # b => cookies'[k] = cookies[k]
  BY <1>1, <1>2, <1>3 DEF AccountShape, CookieRecord
<1>5. AccountShape'
  BY <1>1, <1>2, <1>4 DEF AccountShape
<1>6. HandlersKnown' /\ PacketsOrdered' /\ FirstOwner'
  BY <1>1 DEF AccountInv, HandlersKnown, PacketsOrdered, FirstOwner
<1>7. SocketsKnown'
  BY <1>1, <1>4 DEF AccountInv, SocketsKnown
<1>8. ASSUME NEW k \in Browsers
      PROVE  StaysAllowed(k)
  <2>1. CASE k = b
    <3>1. CutPending(b)'
      BY <1>1 DEF CutPending
    <3> QED BY <2>1, <3>1 DEF StaysAllowed
  <2>2. CASE k # b
    <3>1. Identity(k)' = Identity(k)
      BY <1>1, <1>4, <2>2 DEF Identity, Exists
    <3>2. CutPending(k) => CutPending(k)'
      BY <1>1 DEF CutPending
    <3> QED BY <1>1, <3>1, <3>2 DEF StaysAllowed, Permitted, Allows
  <2> QED BY <2>1, <2>2
<1>9. AllowedPermitted'
  BY <1>1, <1>8, PacketsStayAllowed
<1>10. (HadOwner => HadOwner') /\ HandlesPermitted /\ HandledOrdered
  BY <1>1, <1>2, KeepsOwners, KeepsHandled
<1> QED BY <1>5, <1>6, <1>7, <1>9, <1>10 DEF AccountInv, AccountStepOK

\* Sockets are closed, and nothing else changes.
LEMMA ClosesOK ==
  ASSUME AccountInv, NEW gone \in SUBSET Browsers, WithoutSockets(gone),
         UNCHANGED <<Tables, Counts, cookies, handlers, writer>>
  PROVE  AccountStepOK
<1>1. UNCHANGED <<accounts, setupClaims, firstOwners, cookies, handlers, writer, sent, signedOut>>
  BY DEF Tables, Counts
<1>2. /\ sockets' \in [Browsers -> SocketRecord]
      /\ packets' \in [Browsers -> Seq(PacketRecord)]
      /\ handled' \in [Browsers -> Nat]
      /\ PacketsOrdered' /\ HandlesPermitted /\ HandledOrdered
      /\ \A b \in Browsers : b \notin gone =>
           sockets'[b] = sockets[b] /\ packets'[b] = packets[b]
      /\ \A b \in gone : sockets'[b] = ClosedSocket /\ packets'[b] = <<>>
  BY <1>1, Closing
<1>3. AccountShape'
  BY <1>1, <1>2 DEF AccountInv, AccountShape
<1>4. HandlersKnown' /\ FirstOwner'
  BY <1>1 DEF AccountInv, HandlersKnown, FirstOwner
<1>5. SocketsKnown'
  BY <1>1, <1>2, AccountValues DEF AccountInv, SocketsKnown
<1>6. \A b \in Browsers : b \notin gone => StaysAllowed(b)
  BY <1>1, <1>2, IdentityStays
<1>7. AllowedPermitted'
  BY <1>2, <1>6, PacketsStayAllowed
<1>8. HadOwner => HadOwner'
  BY <1>1, KeepsOwners
<1> QED BY <1>2, <1>3, <1>4, <1>5, <1>7, <1>8 DEF AccountInv, AccountStepOK

LEMMA DropRevokedOK ==
  ASSUME AccountInv, NEW b \in Browsers, DropRevoked(b)
  PROVE  AccountStepOK
<1>1. {b} \in SUBSET Browsers
  OBVIOUS
<1> QED BY <1>1, ClosesOK DEF DropRevoked

----------------------------------------------------------------------------
(* Packets *)

\* A packet goes behind the others, with a number of its own.
LEMMA SendOK ==
  ASSUME AccountInv, NEW b \in Browsers, NEW event \in Events, NEW u \in Accounts,
         Send(b, event, u)
  PROVE  AccountStepOK
<1> DEFINE packet == [n |-> sent', event |-> event, target |-> u, check |-> "waits"]
           old == packets[b]
           new == Append(old, packet)
<1>1. /\ UNCHANGED <<accounts, setupClaims, firstOwners, cookies, sockets, handlers, writer,
                     handled, signedOut>>
      /\ packets' = [packets EXCEPT ![b] = new]
      /\ sockets[b].at # "closed" /\ sent' = sent + 1
  BY DEF Send, Tables
<1>2. AccountShape /\ PacketsOrdered
  BY DEF AccountInv
<1>3. packet \in PacketRecord /\ packet.n = sent' /\ packet.check = "waits" /\ sent' \in Nat
  BY <1>1, <1>2 DEF PacketRecord, AccountShape
<1>4. old \in Seq(PacketRecord) /\ Len(old) \in Nat /\ handled[b] \in Nat
  BY <1>2, AccountFields
<1> HIDE DEF packet
<1>5. /\ new \in Seq(PacketRecord) /\ Len(new) = Len(old) + 1
      /\ \A i \in 1..Len(old) : new[i] = old[i]
      /\ new[Len(old) + 1] = packet
  BY <1>3, <1>4, AppendProperties
<1>6. \A i \in 1..Len(new) : i \in 1..Len(old) \/ i = Len(old) + 1
  BY <1>4, <1>5
<1>7. sent \in Nat /\ packets \in [Browsers -> Seq(PacketRecord)]
  BY <1>2 DEF AccountShape
<1> HIDE DEF new
<1>8. AccountShape'
  BY <1>1, <1>2, <1>3, <1>5, <1>7 DEF AccountShape
<1>9. packets'[b] = new /\ \A k \in Browsers : k # b => packets'[k] = packets[k]
  BY <1>1, <1>7
<1>10. HandlersKnown' /\ FirstOwner' /\ SocketsKnown'
  BY <1>1 DEF AccountInv, HandlersKnown, FirstOwner, SocketsKnown
<1>11. ASSUME NEW k \in Browsers
       PROVE  /\ sockets[k].at = "closed" => packets'[k] = <<>>
              /\ handled[k] <= sent'
              /\ \A i \in 1..Len(packets'[k]) :
                   /\ handled[k] < packets'[k][i].n /\ packets'[k][i].n <= sent'
                   /\ sockets[k].at # "open" => packets'[k][i].check = "waits"
                   /\ \A j \in 1..Len(packets'[k]) :
                        i < j => packets'[k][i].n < packets'[k][j].n
  <2>1. handled[k] \in Nat /\ handled[k] <= sent
    BY <1>2, AccountFields DEF PacketsOrdered
  <2>2. \A i \in 1..Len(packets[k]) :
           /\ packets[k][i].n \in Nat
           /\ handled[k] < packets[k][i].n /\ packets[k][i].n <= sent
           /\ sockets[k].at # "open" => packets[k][i].check = "waits"
           /\ \A j \in 1..Len(packets[k]) :
                i < j => packets[k][i].n < packets[k][j].n
    BY <1>2, AccountFields DEF PacketsOrdered
  <2>3. sockets[k].at = "closed" => packets[k] = <<>>
    BY <1>2 DEF PacketsOrdered
  <2>4. CASE k # b
    <3>1. packets'[k] = packets[k]
      BY <1>9, <2>4
    <3> QED BY <1>1, <1>7, <2>1, <2>2, <2>3, <3>1
  <2>5. CASE k = b
    <3>1. packets'[k] = new
      BY <1>9, <2>5
    <3>2. handled[k] < sent' /\ handled[k] <= sent'
      BY <1>1, <1>7, <2>1
    <3>3. \A i \in 1..Len(old) :
             /\ new[i].n \in Nat
             /\ handled[k] < new[i].n /\ new[i].n <= sent
             /\ sockets[k].at # "open" => new[i].check = "waits"
             /\ \A j \in 1..Len(old) : i < j => new[i].n < new[j].n
      BY <1>5, <2>2, <2>5
    <3>4. new[Len(old) + 1].n = sent + 1 /\ new[Len(old) + 1].check = "waits"
      BY <1>1, <1>3, <1>5
    <3>5. ASSUME NEW i \in 1..Len(new)
          PROVE  /\ handled[k] < new[i].n /\ new[i].n <= sent'
                 /\ sockets[k].at # "open" => new[i].check = "waits"
                 /\ \A j \in 1..Len(new) : i < j => new[i].n < new[j].n
      <4>1. CASE i \in 1..Len(old)
        <5>1. new[i].n \in Nat /\ new[i].n <= sent /\ sent \in Nat /\ sent' = sent + 1
          BY <1>1, <1>7, <3>3, <4>1
        <5>2. /\ handled[k] < new[i].n /\ new[i].n <= sent'
              /\ sockets[k].at # "open" => new[i].check = "waits"
          BY <3>3, <4>1, <5>1
        <5>3. ASSUME NEW j \in 1..Len(new), i < j PROVE new[i].n < new[j].n
          <6>1. CASE j \in 1..Len(old)
            BY <3>3, <4>1, <5>3, <6>1
          <6>2. CASE j = Len(old) + 1
            BY <3>4, <5>1, <6>2
          <6> QED BY <1>6, <5>3, <6>1, <6>2
        <5> QED BY <5>2, <5>3
      <4>2. CASE i = Len(old) + 1
        BY <1>1, <1>4, <1>5, <1>7, <3>2, <3>4, <4>2
      <4> QED BY <1>6, <4>1, <4>2
    <3> QED BY <1>1, <2>5, <3>1, <3>2, <3>5
  <2> QED BY <2>4, <2>5
<1>12. PacketsOrdered'
  BY <1>1, <1>11 DEF PacketsOrdered
<1>13. \A k \in Browsers : StaysAllowed(k)
  BY <1>1, IdentityStays
<1>14. ASSUME NEW k \in Browsers, NEW i \in 1..Len(packets'[k]),
              packets'[k][i].check = "allowed"
       PROVE  Permitted(k, packets[k][i].event)' \/ CutPending(k)'
  <2>1. i \in 1..Len(packets[k]) /\ packets'[k][i] = packets[k][i]
    BY <1>3, <1>5, <1>6, <1>9, <1>14
  <2>2. packets[k][i].event \in Events
    BY <1>2, <2>1, AccountFields
  <2>3. Permitted(k, packets[k][i].event) \/ CutPending(k)
    BY <1>14, <2>1 DEF AccountInv, AllowedPermitted
  <2>4. PICK e \in Events : e = packets[k][i].event
    BY <2>2
  <2>5. Permitted(k, e)' \/ CutPending(k)'
    BY <1>13, <2>3, <2>4 DEF StaysAllowed
  <2>6. e = packets'[k][i].event
    BY <2>1, <2>4
  <2> QED BY <2>5, <2>6
<1>15. AllowedPermitted'
  BY <1>14 DEF AllowedPermitted
<1>16. (HadOwner => HadOwner') /\ HandlesPermitted /\ HandledOrdered
  BY <1>1, <1>2, KeepsOwners, KeepsHandled
<1> QED BY <1>8, <1>10, <1>12, <1>15, <1>16 DEF AccountInv, AccountStepOK

\* A packet is checked with the rights of the account as it is now.
LEMMA AuthorizeOK ==
  ASSUME AccountInv, NEW b \in Browsers, NEW i \in 1..MaxPackets, Authorize(b, i)
  PROVE  AccountStepOK
<1> DEFINE identity == Identity(b)
           known == identity.user # "nobody" /\ identity.user = sockets[b].user
           old == packets[b]
           allowed == known /\ Allows(identity.role, old[i].event)
           packet == [old[i] EXCEPT !.check = IF allowed THEN "allowed" ELSE "denied"]
           new == [old EXCEPT ![i] = packet]
<1>1. /\ sockets[b].at = "open" /\ i \in 1..Len(old) /\ old[i].check = "waits"
      /\ UNCHANGED <<Tables, Counts, cookies, handlers, writer>>
      /\ IF known /\ identity.role # sockets[b].role THEN WithoutSockets({b})
         ELSE packets' = [packets EXCEPT ![b][i].check =
                            IF allowed THEN "allowed" ELSE "denied"]
              /\ UNCHANGED <<sockets, handled>>
  BY DEF Authorize
<1>2. AccountShape /\ PacketsOrdered
  BY DEF AccountInv
<1>3. CASE known /\ identity.role # sockets[b].role
  <2>1. WithoutSockets({b}) /\ {b} \in SUBSET Browsers
    BY <1>1, <1>3
  <2> QED BY <1>1, <2>1, ClosesOK
<1>4. CASE ~(known /\ identity.role # sockets[b].role)
  <2>1. /\ UNCHANGED <<accounts, setupClaims, firstOwners, cookies, sockets, handlers, writer,
                       sent, handled, signedOut>>
        /\ packets' = [packets EXCEPT ![b] = new]
    BY <1>1, <1>4 DEF Tables, Counts
  <2>2. old \in Seq(PacketRecord) /\ Len(old) \in Nat /\ old[i] \in PacketRecord
    BY <1>1, <1>2, AccountFields
  <2>3. packet \in PacketRecord /\ packet.n = old[i].n /\ packet.event = old[i].event
        /\ packet.check \in {"allowed", "denied"}
        /\ (packet.check = "allowed" => allowed)
    <3> HIDE DEF allowed
    <3> QED BY <2>2 DEF PacketRecord
  <2> HIDE DEF packet
  <2>4. /\ new \in Seq(PacketRecord) /\ Len(new) = Len(old)
        /\ \A j \in 1..Len(old) : new[j] = IF j = i THEN packet ELSE old[j]
    BY <1>1, <2>2, <2>3, ExceptSeq
  <2> HIDE DEF new, known, allowed
  <2>5. packets \in [Browsers -> Seq(PacketRecord)]
    BY <1>2 DEF AccountShape
  <2>6. AccountShape'
    BY <1>2, <2>1, <2>4, <2>5 DEF AccountShape
  <2>7. packets'[b] = new /\ \A k \in Browsers : k # b => packets'[k] = packets[k]
    BY <2>1, <2>5
  <2>8. HandlersKnown' /\ FirstOwner' /\ SocketsKnown'
    BY <2>1 DEF AccountInv, HandlersKnown, FirstOwner, SocketsKnown
  <2>9. \A j \in 1..Len(new) : j \in 1..Len(old) /\ new[j].n = old[j].n
    BY <2>3, <2>4
  <2>10. new # <<>>
    <3>1. Len(<<>>) = 0
      BY EmptySeq
    <3> QED BY <1>1, <2>2, <2>4, <3>1
  <2>11. PacketsOrdered'
    <3>1. ASSUME NEW k \in Browsers
          PROVE  /\ sockets[k].at = "closed" => packets'[k] = <<>>
                 /\ handled[k] <= sent
                 /\ \A j \in 1..Len(packets'[k]) :
                      /\ handled[k] < packets'[k][j].n /\ packets'[k][j].n <= sent
                      /\ sockets[k].at # "open" => packets'[k][j].check = "waits"
                      /\ \A l \in 1..Len(packets'[k]) :
                           j < l => packets'[k][j].n < packets'[k][l].n
      <4>1. CASE k # b
        BY <1>2, <2>7, <4>1 DEF PacketsOrdered
      <4>2. CASE k = b
        BY <1>1, <1>2, <2>4, <2>7, <2>9, <4>2 DEF PacketsOrdered
      <4> QED BY <4>1, <4>2
    <3> QED BY <2>1, <3>1 DEF PacketsOrdered
  <2>12. \A k \in Browsers : StaysAllowed(k)
    BY <2>1, IdentityStays
  <2>13. ASSUME NEW k \in Browsers, NEW j \in 1..Len(packets'[k]),
                packets'[k][j].check = "allowed"
         PROVE  Permitted(k, packets[k][j].event)' \/ CutPending(k)'
    <3>1. j \in 1..Len(packets[k]) /\ packets'[k][j].event = packets[k][j].event
      BY <2>3, <2>4, <2>7, <2>9
    <3>2. packets[k][j].event \in Events
      BY <1>2, <3>1, AccountFields
    <3>3. Permitted(k, packets[k][j].event) \/ CutPending(k)
      <4>1. CASE k = b /\ j = i
        <5>1. allowed
          BY <2>3, <2>4, <2>7, <2>13, <3>1, <4>1
        <5> QED BY <4>1, <5>1 DEF Permitted, allowed, known
      <4>2. CASE ~(k = b /\ j = i)
        <5>1. packets'[k][j] = packets[k][j]
          BY <2>4, <2>7, <3>1, <4>2
        <5> QED BY <2>13, <3>1, <5>1 DEF AccountInv, AllowedPermitted
      <4> QED BY <4>1, <4>2
    <3>4. PICK e \in Events : e = packets[k][j].event
      BY <3>2
    <3>5. Permitted(k, e)' \/ CutPending(k)'
      BY <2>12, <3>3, <3>4 DEF StaysAllowed
    <3>6. e = packets'[k][j].event
      BY <3>1, <3>4
    <3> QED BY <3>5, <3>6
  <2>14. AllowedPermitted'
    BY <2>13 DEF AllowedPermitted
  <2>15. (HadOwner => HadOwner') /\ HandlesPermitted /\ HandledOrdered
    BY <1>2, <2>1, KeepsOwners, KeepsHandled
  <2> QED BY <2>6, <2>8, <2>11, <2>14, <2>15 DEF AccountInv, AccountStepOK
<1> QED BY <1>3, <1>4

\* The packet whose turn it is reaches its handler or is denied; the others move up.
LEMMA AdmitOK ==
  ASSUME AccountInv, NEW b \in Browsers, NEW i \in 1..MaxPackets, Admit(b, i)
  PROVE  AccountStepOK
<1> DEFINE old == packets[b]
           packet == old[1]
           new == SubSeq(old, 2, Len(old))
           handler == [does |-> packet.event, target |-> packet.target, at |-> "authorize"]
<1>1. AccountShape /\ PacketsOrdered /\ HandlersKnown
  BY DEF AccountInv
<1>2. /\ old \in Seq(PacketRecord) /\ Len(old) \in Nat
      /\ packets \in [Browsers -> Seq(PacketRecord)]
  BY <1>1, AccountFields DEF AccountShape
<1>3. i = 1 /\ old # <<>> /\ packet.check # "waits"
  BY DEF Admit, InTurn
<1>4. Len(old) \in Nat \ {0} /\ 1 \in 1..Len(old)
  BY <1>2, <1>3, EmptySeq
<1>5. /\ packet \in PacketRecord /\ packet.n \in Nat /\ packet.event \in Events
      /\ packet.target \in Accounts /\ packet.check \in {"allowed", "denied"}
  BY <1>1, <1>3, <1>4, AccountFields
<1>6. /\ new \in Seq(PacketRecord) /\ Len(new) = Len(old) - 1
      /\ \A j \in 1..Len(new) : new[j] = old[j + 1] /\ j + 1 \in 1..Len(old)
  <2>1. \A j \in 2..Len(old) : old[j] \in PacketRecord
    BY <1>2, <1>4, ElementOfSeq
  <2>2. /\ new \in Seq(PacketRecord)
        /\ Len(new) = IF 2 <= Len(old) THEN Len(old) - 2 + 1 ELSE 0
        /\ \A j \in 1..(Len(old) - 2 + 1) : new[j] = old[2 + j - 1]
    BY <1>2, <2>1, SubSeqProperties
  <2> HIDE DEF new
  <2>3. Len(new) = Len(old) - 1
    BY <1>4, <2>2
  <2> QED BY <1>4, <2>2, <2>3
<1>7. SubSeq(old, 1, i - 1) \o SubSeq(old, i + 1, Len(old)) = new
  <2>1. SubSeq(old, 1, 0) = <<>>
    BY SubSeqEmpty
  <2>2. <<>> \o new = new
    BY <1>6, ConcatEmptySeq
  <2> QED BY <1>3, <2>1, <2>2
<1>8. /\ UNCHANGED <<accounts, setupClaims, firstOwners, sent, signedOut, cookies, sockets, writer>>
      /\ packets' = [packets EXCEPT ![b] = new]
      /\ IF packet.check = "denied" THEN UNCHANGED <<handlers, handled>>
         ELSE /\ handled' = [handled EXCEPT ![b] = packet.n]
              /\ IF packet.event = "status" THEN UNCHANGED handlers
                 ELSE /\ handlers[b] = NoHandler
                      /\ handlers' = [handlers EXCEPT ![b] = handler]
  BY <1>3, <1>7 DEF Admit, Tables, Counts
<1> HIDE DEF new
<1>9. packets'[b] = new /\ \A k \in Browsers : k # b => packets'[k] = packets[k]
  BY <1>2, <1>8
<1>10. /\ handler \in HandlerRecord /\ handler.at = "authorize" /\ handler.target \in Accounts
       /\ (packet.event # "status" => handler.does \in Changes)
  BY <1>5 DEF HandlerRecord, Changes
<1> HIDE DEF handler
<1>11. /\ handled \in [Browsers -> Nat] /\ handlers \in [Browsers -> HandlerRecord]
       /\ sent \in Nat
  BY <1>1 DEF AccountShape
<1>12. /\ handled' \in [Browsers -> Nat] /\ handlers' \in [Browsers -> HandlerRecord]
       /\ \A k \in Browsers : k # b => handled'[k] = handled[k] /\ handlers'[k] = handlers[k]
       /\ handled'[b] \in {handled[b], packet.n}
       /\ handlers'[b] = handlers[b] \/ /\ handlers[b] = NoHandler /\ handlers'[b] = handler
                                        /\ packet.event # "status"
       /\ packet.check = "denied" => handled'[b] = handled[b]
  BY <1>5, <1>8, <1>10, <1>11
<1>13. AccountShape'
  BY <1>1, <1>2, <1>6, <1>8, <1>12 DEF AccountShape
<1>14. HandlersKnown'
  <2>1. \A k \in Browsers : handlers'[k] = handlers[k] \/
           (handlers[k].at = "idle" /\ handlers'[k].at = "authorize"
              /\ handlers'[k].does \in Changes /\ handlers'[k].target \in Accounts)
    BY <1>10, <1>12, AccountValues
  <2>2. writer # Unwritten => writer \in Browsers /\ handlers[writer].at = "write"
    BY <1>1 DEF HandlersKnown, AccountShape
  <2>3. writer' # Unwritten => handlers'[writer'].at = "write"
    BY <1>8, <2>1, <2>2
  <2>4. \A k \in Browsers :
         /\ handlers'[k].at = "checked" => handlers'[k].does = "setup"
                                          /\ handlers'[k].target \in Accounts
         /\ handlers'[k].at \in {"authorize", "lock", "write", "answer"} =>
              handlers'[k].does \in Changes /\ handlers'[k].target \in Accounts
    BY <1>1, <2>1 DEF HandlersKnown
  <2> QED BY <2>3, <2>4 DEF HandlersKnown
<1>15. FirstOwner' /\ SocketsKnown'
  BY <1>8 DEF AccountInv, FirstOwner, SocketsKnown
<1>16. \A j \in 1..Len(old) :
         /\ old[j].n \in Nat /\ handled[b] < old[j].n /\ old[j].n <= sent
         /\ sockets[b].at # "open" => old[j].check = "waits"
         /\ \A l \in 1..Len(old) : j < l => old[j].n < old[l].n
  BY <1>1, AccountFields DEF PacketsOrdered
<1>17. sockets[b].at = "open"
  BY <1>3, <1>4, <1>16
<1>18. handled[b] < packet.n /\ packet.n <= sent /\ handled[b] \in Nat /\ handled'[b] \in Nat
       /\ handled[b] <= handled'[b] /\ handled'[b] <= packet.n
  BY <1>4, <1>5, <1>11, <1>12, <1>16
<1>19. ASSUME NEW k \in Browsers
       PROVE  /\ sockets[k].at = "closed" => packets'[k] = <<>>
              /\ handled'[k] <= sent
              /\ \A j \in 1..Len(packets'[k]) :
                   /\ handled'[k] < packets'[k][j].n /\ packets'[k][j].n <= sent
                   /\ sockets[k].at # "open" => packets'[k][j].check = "waits"
                   /\ \A l \in 1..Len(packets'[k]) :
                        j < l => packets'[k][j].n < packets'[k][l].n
  <2>1. CASE k # b
    BY <1>1, <1>9, <1>12, <2>1 DEF PacketsOrdered
  <2>2. CASE k = b
    <3>1. ASSUME NEW j \in 1..Len(new)
          PROVE  /\ handled'[b] < new[j].n /\ new[j].n <= sent
                 /\ \A l \in 1..Len(new) : j < l => new[j].n < new[l].n
      <4>1. new[j] = old[j + 1] /\ j + 1 \in 1..Len(old) /\ j \in Nat /\ 1 < j + 1
        BY <1>4, <1>6
      <4>2. packet.n < old[j + 1].n /\ old[j + 1].n <= sent /\ old[j + 1].n \in Nat
        BY <1>4, <1>16, <4>1
      <4>3. \A l \in 1..Len(new) : j < l => new[j].n < new[l].n
        <5> SUFFICES ASSUME NEW l \in 1..Len(new), j < l PROVE new[j].n < new[l].n
          OBVIOUS
        <5>1. new[l] = old[l + 1] /\ l + 1 \in 1..Len(old) /\ j + 1 < l + 1
          BY <1>4, <1>6, <4>1
        <5> QED BY <1>16, <4>1, <5>1
      <4>4. handled'[b] < new[j].n
        BY <1>5, <1>18, <4>1, <4>2
      <4> QED BY <4>1, <4>2, <4>3, <4>4
    <3>2. handled'[b] <= sent
      BY <1>5, <1>11, <1>18
    <3> QED BY <1>9, <1>17, <2>2, <3>1, <3>2
  <2> QED BY <2>1, <2>2
<1>20. PacketsOrdered'
  BY <1>8, <1>19 DEF PacketsOrdered
<1>21. \A k \in Browsers : StaysAllowed(k)
  <2>1. \A k \in Browsers : handlers[k].at = "answer" => handlers'[k] = handlers[k]
    BY <1>12, AccountValues
  <2> QED BY <1>8, <2>1, IdentityStays
<1>22. ASSUME NEW k \in Browsers, NEW j \in 1..Len(packets'[k]),
              packets'[k][j].check = "allowed"
       PROVE  Permitted(k, packets[k][j].event)' \/ CutPending(k)'
  <2>1. PICK l \in 1..Len(packets[k]) : packets'[k][j] = packets[k][l]
    BY <1>6, <1>9
  <2>2. packets[k][l].event \in Events
    BY <1>1, <2>1, AccountFields
  <2>3. Permitted(k, packets[k][l].event) \/ CutPending(k)
    BY <1>22, <2>1 DEF AccountInv, AllowedPermitted
  <2>4. PICK e \in Events : e = packets[k][l].event
    BY <2>2
  <2>5. Permitted(k, e)' \/ CutPending(k)'
    BY <1>21, <2>3, <2>4 DEF StaysAllowed
  <2>6. e = packets'[k][j].event
    BY <2>1, <2>4
  <2> QED BY <2>5, <2>6
<1>23. AllowedPermitted'
  BY <1>22 DEF AllowedPermitted
<1>24. HandledOrdered
  BY <1>11, <1>12, <1>18 DEF HandledOrdered
<1>25. HandlesPermitted
  <2> SUFFICES ASSUME NEW k \in Browsers, handled'[k] \notin {0, handled[k]}
               PROVE  \/ Allows(Identity(k).role, Head(packets[k]).event)
                         /\ Identity(k) # Nobody
                      \/ CutPending(k)
    BY DEF HandlesPermitted
  <2>1. k = b /\ packet.check = "allowed"
    BY <1>5, <1>12
  <2>2. Permitted(b, packet.event) \/ CutPending(b)
    BY <1>4, <2>1 DEF AccountInv, AllowedPermitted
  <2>3. Head(packets[k]) = packet
    BY <1>2, <1>3, <2>1
  <2> QED BY <1>1, <2>1, <2>2, <2>3, IdentityIs DEF Permitted
<1> QED BY <1>8, <1>13, <1>14, <1>15, <1>20, <1>23, <1>24, <1>25, KeepsOwners
        DEF AccountInv, AccountStepOK

----------------------------------------------------------------------------
(* Changing access *)

\* What a step of a handler leaves alone.
LEMMA HandlerStep ==
  ASSUME AccountInv, NEW b \in Browsers, NEW mine \in HandlerRecord,
         handlers' = [handlers EXCEPT ![b] = mine],
         mine.at = "checked" => mine.does = "setup" /\ mine.target \in Accounts,
         mine.at \in {"authorize", "lock", "write", "answer"} =>
            mine.does \in Changes /\ mine.target \in Accounts,
         \/ writer' = writer /\ (writer = b => mine.at = "write")
         \/ writer' = Unwritten
         \/ writer' = b /\ mine.at = "write"
  PROVE  /\ handlers' \in [Browsers -> HandlerRecord] /\ writer' \in Browsers \cup {Unwritten}
         /\ HandlersKnown'
         /\ handlers'[b] = mine /\ \A k \in Browsers : k # b => handlers'[k] = handlers[k]
<1>1. AccountShape /\ HandlersKnown
  BY DEF AccountInv
<1>2. handlers \in [Browsers -> HandlerRecord] /\ writer \in Browsers \cup {Unwritten}
  BY <1>1 DEF AccountShape
<1>3. /\ handlers' \in [Browsers -> HandlerRecord] /\ writer' \in Browsers \cup {Unwritten}
      /\ handlers'[b] = mine /\ \A k \in Browsers : k # b => handlers'[k] = handlers[k]
  BY <1>2
<1>4. writer' # Unwritten => handlers'[writer'].at = "write"
  BY <1>1, <1>2, <1>3 DEF HandlersKnown
<1>5. \A k \in Browsers :
         /\ handlers'[k].at = "checked" => handlers'[k].does = "setup"
                                          /\ handlers'[k].target \in Accounts
         /\ handlers'[k].at \in {"authorize", "lock", "write", "answer"} =>
              handlers'[k].does \in Changes /\ handlers'[k].target \in Accounts
  BY <1>1, <1>3 DEF HandlersKnown
<1> QED BY <1>3, <1>4, <1>5 DEF HandlersKnown

\* A step that writes no table and closes no socket.
LEMMA HandlerOnly ==
  ASSUME AccountInv, NEW b \in Browsers, NEW mine \in HandlerRecord,
         handlers' = [handlers EXCEPT ![b] = mine],
         mine.at = "checked" => mine.does = "setup" /\ mine.target \in Accounts,
         mine.at \in {"authorize", "lock", "write", "answer"} =>
            mine.does \in Changes /\ mine.target \in Accounts,
         \/ writer' = writer /\ (writer = b => mine.at = "write")
         \/ writer' = Unwritten
         \/ writer' = b /\ mine.at = "write",
         handlers[b].at # "answer",
         UNCHANGED <<accounts, setupClaims, firstOwners, cookies, sockets, packets, signedOut,
                     handled>>,
         sent' \in Nat /\ sent' >= sent
  PROVE  AccountStepOK
<1>1. AccountShape /\ PacketsOrdered
  BY DEF AccountInv
<1>2. /\ handlers' \in [Browsers -> HandlerRecord] /\ writer' \in Browsers \cup {Unwritten}
      /\ HandlersKnown'
      /\ handlers'[b] = mine /\ \A k \in Browsers : k # b => handlers'[k] = handlers[k]
  BY HandlerStep
<1>3. AccountShape'
  BY <1>1, <1>2 DEF AccountShape
<1>4. FirstOwner' /\ SocketsKnown'
  BY DEF AccountInv, FirstOwner, SocketsKnown
<1>5. PacketsOrdered'
  <2>1. \A k \in Browsers : handled[k] \in Nat
           /\ \A i \in 1..Len(packets[k]) : packets[k][i].n \in Nat
    BY <1>1, AccountFields
  <2>2. sent \in Nat
    BY <1>1 DEF AccountShape
  <2> QED BY <1>1, <2>1, <2>2 DEF PacketsOrdered
<1>6. \A k \in Browsers : StaysAllowed(k)
  <2>1. \A k \in Browsers : handlers[k].at = "answer" => handlers'[k] = handlers[k]
    BY <1>2
  <2> QED BY <2>1, IdentityStays
<1>7. AllowedPermitted'
  BY <1>6, PacketsStayAllowed
<1>8. (HadOwner => HadOwner') /\ HandlesPermitted /\ HandledOrdered
  BY <1>1, KeepsOwners, KeepsHandled
<1> QED BY <1>2, <1>3, <1>4, <1>5, <1>7, <1>8 DEF AccountInv, AccountStepOK

LEMMA NoHandlerStep ==
    /\ NoHandler.at \notin {"checked", "authorize", "lock", "write", "answer"}
    /\ NoHandler \in HandlerRecord
BY DEF NoHandler, HandlerRecord

\* A handler goes on to another step of its change.
LEMMA HandlerGoes ==
  ASSUME AccountInv, NEW b \in Browsers, NEW step \in {"lock", "write", "answer"},
         handlers[b].at \in {"authorize", "lock", "write"}
  PROVE  LET mine == [handlers[b] EXCEPT !.at = step]
         IN /\ mine \in HandlerRecord /\ mine.at = step
            /\ mine.does \in Changes /\ mine.target \in Accounts
            /\ mine.target = handlers[b].target
            /\ [handlers EXCEPT ![b].at = step] = [handlers EXCEPT ![b] = mine]
<1>1. handlers[b] \in HandlerRecord /\ handlers \in [Browsers -> HandlerRecord]
  BY DEF AccountInv, AccountShape
<1>2. handlers[b].does \in Changes /\ handlers[b].target \in Accounts
  BY DEF AccountInv, HandlersKnown
<1> QED BY <1>1, <1>2 DEF HandlerRecord

LEMMA ChangeConfirmedOK ==
  ASSUME AccountInv, NEW b \in Browsers, ChangeConfirmed(b)
  PROVE  AccountStepOK
<1> DEFINE mine == [handlers[b] EXCEPT !.at = "lock"]
<1>1. /\ handlers[b].at = "authorize"
      /\ \/ handlers' = [handlers EXCEPT ![b].at = "lock"]
         \/ handlers' = [handlers EXCEPT ![b] = NoHandler]
      /\ UNCHANGED <<accounts, setupClaims, firstOwners, cookies, sockets, packets, signedOut,
                     handled, sent, writer>>
  BY DEF ChangeConfirmed, NextStep, ChangeOver, Tables, Counts
<1>2. sent' \in Nat /\ sent' >= sent
  BY <1>1 DEF AccountInv, AccountShape
<1>3. writer # b
  BY <1>1, AccountNamesAssumption DEF AccountInv, HandlersKnown, AccountShape, Unwritten
<1>4. /\ mine \in HandlerRecord /\ mine.at = "lock"
      /\ mine.does \in Changes /\ mine.target \in Accounts
      /\ [handlers EXCEPT ![b].at = "lock"] = [handlers EXCEPT ![b] = mine]
  BY <1>1, HandlerGoes
<1> HIDE DEF mine
<1>5. CASE handlers' = [handlers EXCEPT ![b] = mine]
  BY <1>1, <1>2, <1>3, <1>4, <1>5, HandlerOnly
<1>6. CASE handlers' = [handlers EXCEPT ![b] = NoHandler]
  BY <1>1, <1>2, <1>3, <1>6, NoHandlerStep, HandlerOnly
<1> QED BY <1>1, <1>4, <1>5, <1>6

LEMMA LockTakenOK ==
  ASSUME AccountInv, NEW b \in Browsers, LockTaken(b)
  PROVE  AccountStepOK
<1> DEFINE mine == [handlers[b] EXCEPT !.at = "write"]
<1>1. /\ handlers[b].at = "lock" /\ writer' = b
      /\ handlers' = [handlers EXCEPT ![b].at = "write"]
      /\ UNCHANGED <<accounts, setupClaims, firstOwners, cookies, sockets, packets, signedOut,
                     handled, sent>>
  BY DEF LockTaken, NextStep, Tables, Counts
<1>2. sent' \in Nat /\ sent' >= sent
  BY <1>1 DEF AccountInv, AccountShape
<1>3. /\ mine \in HandlerRecord /\ mine.at = "write"
      /\ mine.does \in Changes /\ mine.target \in Accounts
      /\ [handlers EXCEPT ![b].at = "write"] = [handlers EXCEPT ![b] = mine]
  BY <1>1, HandlerGoes
<1> HIDE DEF mine
<1> QED BY <1>1, <1>2, <1>3, HandlerOnly

\* A change leaves an owner: the last one is refused.
LEMMA ChangedKeepsOwner ==
  ASSUME AccountInv, NEW u \in Accounts, NEW change \in Changes, Exists(u),
         ~TakesLastOwner(u, change), HadOwner,
         accounts' = [accounts EXCEPT ![u] = ChangedTo(accounts[u], change)]
  PROVE  HadOwner'
<1>1. accounts \in [Accounts -> AccountRecord \cup {Absent}]
  BY DEF AccountInv, AccountShape
<1>2. /\ accounts'[u] = ChangedTo(accounts[u], change)
      /\ \A v \in Accounts : v # u => accounts'[v] = accounts[v]
  BY <1>1
<1> DEFINE owners == {v \in Accounts : Owner(accounts[v])}
<1>3. CASE \E v \in Accounts : v # u /\ Owner(accounts[v])
  BY <1>2, <1>3 DEF HadOwner, Owner
<1>4. CASE \A v \in Accounts : v # u => ~Owner(accounts[v])
  <2>1. Owner(accounts[u]) /\ owners = {u}
    BY <1>4 DEF HadOwner
  <2>2. Cardinality(owners) <= 1
    <3> HIDE DEF owners
    <3>1. Cardinality({u}) = 1
      BY FS_Singleton
    <3> QED BY <2>1, <3>1
  <2>3. Owner(ChangedTo(accounts[u], change))
    BY <2>1, <2>2 DEF TakesLastOwner
  <2>4. Owner(accounts'[u])
    BY <1>2, <2>3
  <2> QED BY <2>4 DEF HadOwner, Owner
<1> QED BY <1>3, <1>4

LEMMA ChangedIsAccount ==
  ASSUME NEW account \in AccountRecord, NEW change \in Changes
  PROVE  ChangedTo(account, change) \in AccountRecord \cup {Absent}
<1>1. change \in {"demote", "suspend", "remove", "password", "promote"}
  BY AccountBoundsAssumption DEF Changes
<1> QED BY <1>1 DEF ChangedTo, AccountRecord, AccountRoles

\* The account is written: whoever has an allowed packet for it is about to be cut.
LEMMA ChangeWrittenOK ==
  ASSUME AccountInv, NEW b \in Browsers, ChangeWritten(b)
  PROVE  AccountStepOK
<1> DEFINE u == handlers[b].target
           change == handlers[b].does
           mine == [handlers[b] EXCEPT !.at = "answer"]
<1>1. AccountShape /\ PacketsOrdered /\ HandlersKnown
  BY DEF AccountInv
<1>2. /\ handlers[b].at = "write" /\ writer' = Unwritten
      /\ UNCHANGED <<sockets, packets, signedOut, handled, sent>>
      /\ u \in Accounts /\ change \in Changes
  BY <1>1 DEF ChangeWritten, Counts, HandlersKnown
<1>3. sent' \in Nat /\ sent' >= sent
  BY <1>1, <1>2 DEF AccountShape
<1>4. CASE ~Exists(u) \/ TakesLastOwner(u, change)
  <2>1. /\ handlers' = [handlers EXCEPT ![b] = NoHandler]
        /\ UNCHANGED <<accounts, setupClaims, firstOwners, cookies>>
    BY <1>4 DEF ChangeWritten, ChangeOver, Tables
  <2> QED BY <1>2, <1>3, <2>1, NoHandlerStep, HandlerOnly
<1>5. CASE ~(~Exists(u) \/ TakesLastOwner(u, change))
  <2>1. /\ accounts' = [accounts EXCEPT ![u] = ChangedTo(accounts[u], change)]
        /\ cookies' = [k \in Browsers |->
             IF cookies[k].user = u THEN [cookies[k] EXCEPT !.valid = FALSE]
             ELSE cookies[k]]
        /\ handlers' = [handlers EXCEPT ![b].at = "answer"]
        /\ UNCHANGED <<setupClaims, firstOwners>>
    BY <1>5 DEF ChangeWritten, NextStep
  <2>2. /\ mine \in HandlerRecord /\ mine.at = "answer"
        /\ mine.does \in Changes /\ mine.target \in Accounts /\ mine.target = u
        /\ [handlers EXCEPT ![b].at = "answer"] = [handlers EXCEPT ![b] = mine]
    BY <1>2, HandlerGoes
  <2> HIDE DEF mine
  <2>3. /\ handlers' \in [Browsers -> HandlerRecord] /\ writer' \in Browsers \cup {Unwritten}
        /\ HandlersKnown'
        /\ handlers'[b] = mine /\ \A k \in Browsers : k # b => handlers'[k] = handlers[k]
    BY <1>2, <2>1, <2>2, HandlerStep
  <2>4. accounts[u] \in AccountRecord
    BY <1>1, <1>2, <1>5, AccountFields DEF Exists
  <2>5. accounts' \in [Accounts -> AccountRecord \cup {Absent}]
    BY <1>1, <1>2, <2>1, <2>4, ChangedIsAccount DEF AccountShape
  <2>6. ASSUME NEW k \in Browsers
        PROVE  /\ cookies'[k] \in CookieRecord \cup {NoCookie}
               /\ cookies'[k].user = cookies[k].user
               /\ cookies[k].user # u => cookies'[k] = cookies[k]
    <3>1. cookies[k] \in CookieRecord \cup {NoCookie}
      BY <1>1 DEF AccountShape
    <3>2. cookies'[k] = IF cookies[k].user = u THEN [cookies[k] EXCEPT !.valid = FALSE]
                        ELSE cookies[k]
      BY <2>1
    <3>3. CASE cookies[k] \in CookieRecord
      BY <3>2, <3>3 DEF CookieRecord
    <3>4. CASE cookies[k] = NoCookie
      <4>1. cookies[k].user # u
        BY <1>2, <3>4, AccountValues, AccountNamesAssumption
      <4> QED BY <3>1, <3>2, <4>1
    <3> QED BY <3>1, <3>3, <3>4
  <2>7. cookies' \in [Browsers -> CookieRecord \cup {NoCookie}]
    BY <2>1, <2>6
  <2>8. AccountShape'
    BY <1>1, <1>2, <2>1, <2>3, <2>5, <2>7 DEF AccountShape
  <2>9. PacketsOrdered' /\ FirstOwner'
    BY <1>2, <2>1 DEF AccountInv, PacketsOrdered, FirstOwner
  <2>10. SocketsKnown'
    BY <1>2, <2>6 DEF AccountInv, SocketsKnown
  <2>11. ASSUME NEW k \in Browsers
         PROVE  StaysAllowed(k)
    <3>1. \A j \in Browsers : handlers[j].at = "answer" => handlers'[j] = handlers[j]
      BY <1>2, <2>3
    <3>2. CutPending(k) => CutPending(k)'
      BY <1>2, <3>1, CutStays
    <3>3. CASE sockets[k].user = u
      <4>1. CutPending(k)'
        BY <1>2, <2>2, <2>3, <3>3 DEF CutPending
      <4> QED BY <4>1 DEF StaysAllowed
    <3>4. CASE sockets[k].user # u
      <4>1. ASSUME NEW event \in Events, Permitted(k, event)
            PROVE  Permitted(k, event)'
        <5>1. /\ Identity(k).user # "nobody" /\ Identity(k).user = sockets[k].user
              /\ Allows(Identity(k).role, event)
          BY <4>1 DEF Permitted
        <5>2. cookies[k].user = sockets[k].user /\ cookies[k].user \in Accounts
          BY <1>1, <5>1, IdentityIs
        <5>3. cookies'[k] = cookies[k] /\ accounts'[cookies[k].user] = accounts[cookies[k].user]
          BY <1>1, <2>1, <2>6, <3>4, <5>2 DEF AccountShape
        <5>4. Identity(k)' = Identity(k)
          BY <5>3 DEF Identity, Exists
        <5> QED BY <1>2, <5>1, <5>4 DEF Permitted, Allows
      <4> QED BY <3>2, <4>1 DEF StaysAllowed
    <3> QED BY <3>3, <3>4
  <2>12. AllowedPermitted'
    BY <1>2, <2>11, PacketsStayAllowed
  <2>13. HadOwner => HadOwner'
    BY <1>2, <1>5, <2>1, ChangedKeepsOwner
  <2>14. HandlesPermitted /\ HandledOrdered
    BY <1>1, <1>2, KeepsHandled
  <2> QED BY <2>3, <2>8, <2>9, <2>10, <2>12, <2>13, <2>14 DEF AccountInv, AccountStepOK
<1> QED BY <1>4, <1>5

\* The answer closes the sockets of the account; the others keep what cuts them.
LEMMA ChangeAnsweredOK ==
  ASSUME AccountInv, NEW b \in Browsers, ChangeAnswered(b)
  PROVE  AccountStepOK
<1> DEFINE gone == SocketsOf(handlers[b].target)
<1>1. /\ handlers[b].at = "answer" /\ WithoutSockets(gone)
      /\ handlers' = [handlers EXCEPT ![b] = NoHandler]
      /\ UNCHANGED <<accounts, setupClaims, firstOwners, cookies, writer, sent, signedOut>>
  BY DEF ChangeAnswered, ChangeOver, Tables, Counts
<1>2. gone \in SUBSET Browsers
  BY DEF SocketsOf
<1>3. /\ sockets' \in [Browsers -> SocketRecord]
      /\ packets' \in [Browsers -> Seq(PacketRecord)]
      /\ handled' \in [Browsers -> Nat]
      /\ PacketsOrdered' /\ HandlesPermitted /\ HandledOrdered
      /\ \A k \in Browsers : k \notin gone =>
           sockets'[k] = sockets[k] /\ packets'[k] = packets[k]
      /\ \A k \in gone : sockets'[k] = ClosedSocket /\ packets'[k] = <<>>
  BY <1>1, <1>2, Closing
<1>4. writer # b
  BY <1>1, AccountNamesAssumption DEF AccountInv, HandlersKnown, AccountShape, Unwritten
<1>5. /\ handlers' \in [Browsers -> HandlerRecord] /\ writer' \in Browsers \cup {Unwritten}
      /\ HandlersKnown'
      /\ handlers'[b] = NoHandler /\ \A k \in Browsers : k # b => handlers'[k] = handlers[k]
  BY <1>1, <1>4, NoHandlerStep, HandlerStep
<1>6. AccountShape'
  BY <1>1, <1>3, <1>5 DEF AccountInv, AccountShape
<1>7. FirstOwner'
  BY <1>1 DEF AccountInv, FirstOwner
<1>8. SocketsKnown'
  BY <1>1, <1>3, AccountValues DEF AccountInv, SocketsKnown
<1>9. ASSUME NEW k \in Browsers
      PROVE  packets'[k] = <<>> \/ (packets'[k] = packets[k] /\
                (StaysAllowed(k) \/ \A i \in 1..Len(packets[k]) : packets[k][i].check = "waits"))
  <2>1. CASE k \in gone
    BY <1>3, <2>1
  <2>2. CASE k \notin gone /\ sockets[k].at # "open"
    BY <1>3, <2>2 DEF AccountInv, PacketsOrdered
  <2>3. CASE k \notin gone /\ sockets[k].at = "open"
    <3>1. sockets[k].user # handlers[b].target
      BY <2>3 DEF SocketsOf
    <3>2. \A j \in Browsers : handlers[j].at = "answer" =>
             handlers'[j] = handlers[j] \/ handlers[j].target # sockets[k].user
      BY <1>5, <3>1
    <3>3. StaysAllowed(k)
      <4> HIDE DEF gone
      <4> QED BY <1>1, <1>3, <2>3, <3>2, IdentityStays
    <3> QED BY <1>3, <2>3, <3>3
  <2> QED BY <2>1, <2>2, <2>3
<1>10. AllowedPermitted'
  BY <1>9, PacketsStayAllowed
<1>11. HadOwner => HadOwner'
  BY <1>1, KeepsOwners
<1> QED BY <1>3, <1>5, <1>6, <1>7, <1>8, <1>10, <1>11 DEF AccountInv, AccountStepOK

----------------------------------------------------------------------------
(* Setup *)

LEMMA SetupAskedOK ==
  ASSUME AccountInv, NEW b \in Browsers, SetupAsked(b)
  PROVE  AccountStepOK
<1>1. PICK u \in Accounts :
         handlers' = [handlers EXCEPT ![b] = [does |-> "setup", target |-> u, at |-> "checked"]]
  BY DEF SetupAsked
<1> DEFINE mine == [does |-> "setup", target |-> u, at |-> "checked"]
<1>2. /\ mine \in HandlerRecord /\ mine.at = "checked" /\ mine.does = "setup"
      /\ mine.target \in Accounts
  BY DEF HandlerRecord
<1>3. handlers' = [handlers EXCEPT ![b] = mine]
  BY <1>1
<1> HIDE DEF mine
<1>4. /\ handlers[b] = NoHandler /\ sent' = sent + 1
      /\ UNCHANGED <<accounts, setupClaims, firstOwners, cookies, sockets, packets, signedOut,
                     handled, writer>>
  BY DEF SetupAsked, Tables
<1>5. sent' \in Nat /\ sent' >= sent
  BY <1>4 DEF AccountInv, AccountShape
<1>6. writer # b
  BY <1>4, AccountValues, AccountNamesAssumption
     DEF AccountInv, HandlersKnown, AccountShape, Unwritten
<1>7. handlers[b].at # "answer"
  BY <1>4, NoHandlerStep
<1> QED BY <1>2, <1>3, <1>4, <1>5, <1>6, <1>7, HandlerOnly

\* The first owner is made once: while it is, nobody has an identity.
LEMMA SetupWrittenOK ==
  ASSUME AccountInv, NEW b \in Browsers, SetupWritten(b)
  PROVE  AccountStepOK
<1> DEFINE u == handlers[b].target
           first == Account("admin", FALSE)
<1>1. AccountShape /\ PacketsOrdered /\ HandlersKnown
  BY DEF AccountInv
<1>2. /\ handlers[b].at = "checked" /\ writer = Unwritten
      /\ handlers' = [handlers EXCEPT ![b] = NoHandler]
      /\ UNCHANGED <<cookies, sockets, packets, signedOut, handled, sent, writer>>
      /\ u \in Accounts
  BY <1>1 DEF SetupWritten, ChangeOver, Counts, HandlersKnown
<1>3. writer # b
  BY <1>2, AccountNamesAssumption DEF Unwritten
<1>4. sent' \in Nat /\ sent' >= sent
  BY <1>1, <1>2 DEF AccountShape
<1>5. CASE SetupRefused
  <2>1. UNCHANGED <<accounts, setupClaims, firstOwners>>
    BY <1>5 DEF SetupWritten, Tables
  <2> QED BY <1>2, <1>3, <1>4, <2>1, NoHandlerStep, HandlerOnly
<1>6. CASE ~SetupRefused
  <2>1. /\ accounts' = [accounts EXCEPT ![u] = first]
        /\ setupClaims' = TRUE /\ firstOwners' = firstOwners + 1
        /\ ~setupClaims /\ \A v \in Accounts : ~Exists(v)
    BY <1>6 DEF SetupWritten, SetupRefused
  <2>2. /\ handlers' \in [Browsers -> HandlerRecord] /\ writer' \in Browsers \cup {Unwritten}
        /\ HandlersKnown'
        /\ handlers'[b] = NoHandler /\ \A k \in Browsers : k # b => handlers'[k] = handlers[k]
    BY <1>2, <1>3, NoHandlerStep, HandlerStep
  <2>3. first \in AccountRecord /\ Owner(first)
    BY DEF Account, AccountRecord, AccountRoles, Owner
  <2> HIDE DEF first
  <2>4. accounts' \in [Accounts -> AccountRecord \cup {Absent}] /\ accounts'[u] = first
    BY <1>1, <1>2, <2>1, <2>3 DEF AccountShape
  <2>5. AccountShape'
    BY <1>1, <1>2, <2>1, <2>2, <2>4 DEF AccountShape
  <2>6. PacketsOrdered' /\ SocketsKnown'
    BY <1>2 DEF AccountInv, PacketsOrdered, SocketsKnown
  <2>7. FirstOwner'
    <3>1. firstOwners = 0
      BY <2>1 DEF AccountInv, FirstOwner
    <3> QED BY <2>1, <3>1 DEF FirstOwner
  <2>8. ASSUME NEW k \in Browsers
        PROVE  StaysAllowed(k)
    <3>1. \A j \in Browsers : handlers[j].at = "answer" => handlers'[j] = handlers[j]
      BY <1>2, <2>2
    <3>2. CutPending(k) => CutPending(k)'
      BY <1>2, <3>1, CutStays
    <3>3. ~Exists(cookies[k].user)
      BY <2>1 DEF Exists
    <3>4. Identity(k).user = "nobody"
      BY <3>3 DEF Identity, Nobody
    <3> QED BY <3>2, <3>4 DEF StaysAllowed, Permitted
  <2>9. AllowedPermitted'
    BY <1>2, <2>8, PacketsStayAllowed
  <2>10. HadOwner'
    BY <1>2, <2>3, <2>4 DEF HadOwner, Owner
  <2>11. HandlesPermitted /\ HandledOrdered
    BY <1>1, <1>2, KeepsHandled
  <2> QED BY <2>2, <2>5, <2>6, <2>7, <2>9, <2>10, <2>11 DEF AccountInv, AccountStepOK
<1> QED BY <1>5, <1>6

----------------------------------------------------------------------------
(* Theorems *)

LEMMA AccountNextOK ==
  ASSUME AccountInv, [AccountNext]_accountVars
  PROVE  AccountInv' /\ [HadOwner => HadOwner']_accountVars
         /\ [HandlesPermitted]_accountVars /\ [HandledOrdered]_accountVars
<1>1. ASSUME NEW b \in Browsers, NEW u \in Accounts, SignIn(b, u)
      PROVE  AccountStepOK
  BY <1>1, SignInOK
<1>2. ASSUME NEW b \in Browsers,
             Welcome(b) \/ Identified(b) \/ SignOut(b) \/ DropRevoked(b)
      PROVE  AccountStepOK
  BY <1>2, WelcomeOK, IdentifiedOK, SignOutOK, DropRevokedOK
<1>3. ASSUME NEW b \in Browsers, NEW u \in Accounts, NEW event \in Events, Send(b, event, u)
      PROVE  AccountStepOK
  BY <1>3, SendOK
<1>4. ASSUME NEW b \in Browsers, NEW i \in 1..MaxPackets, Authorize(b, i) \/ Admit(b, i)
      PROVE  AccountStepOK
  BY <1>4, AuthorizeOK, AdmitOK
<1>5. ASSUME NEW b \in Browsers,
             \/ ChangeConfirmed(b) \/ LockTaken(b)
             \/ ChangeWritten(b) \/ ChangeAnswered(b) \/ SetupAsked(b) \/ SetupWritten(b)
      PROVE  AccountStepOK
  BY <1>5, ChangeConfirmedOK, LockTakenOK, ChangeWrittenOK, ChangeAnsweredOK, SetupAskedOK,
     SetupWrittenOK
<1>6. AccountNext => AccountStepOK
  BY <1>1, <1>2, <1>3, <1>4, <1>5 DEF AccountNext
<1>7. UNCHANGED accountVars => AccountInv'
  BY DEF accountVars, AccountInv, AccountShape, HandlersKnown, PacketsOrdered, SocketsKnown,
     AllowedPermitted, FirstOwner, Permitted, CutPending, Identity, Exists, Allows
<1> QED BY <1>6, <1>7 DEF AccountStepOK

LEMMA AccountInvImplies == AccountInv => AccountTypeOK /\ OneFirstOwner
<1> SUFFICES ASSUME AccountInv PROVE AccountTypeOK /\ OneFirstOwner
  OBVIOUS
<1>1. AccountShape /\ PacketsOrdered /\ HandlersKnown
  BY DEF AccountInv
<1>2. OneFirstOwner
  BY DEF AccountInv, FirstOwner, OneFirstOwner
<1>3. ASSUME NEW b \in Browsers
      PROVE  /\ cookies[b] = NoCookie \/ cookies[b] \in [user : Accounts, valid : BOOLEAN]
             /\ sockets[b].at \in {"closed", "handshake", "open"}
             /\ \A i \in 1..Len(packets[b]) :
                  packets[b][i].check \in {"waits", "allowed", "denied"}
             /\ handlers[b].at \in {"idle", "checked", "authorize", "lock", "write", "answer"}
             /\ sockets[b].at # "open" =>
                  \A i \in 1..Len(packets[b]) : packets[b][i].check = "waits"
  <2>1. cookies[b] = NoCookie \/ cookies[b] \in [user : Accounts, valid : BOOLEAN]
    BY <1>1 DEF AccountShape, CookieRecord
  <2>2. handlers[b].at \in {"idle", "checked", "authorize", "lock", "write", "answer"}
    <3>1. handlers[b] \in HandlerRecord
      BY <1>1 DEF AccountShape
    <3> QED BY <3>1 DEF HandlerRecord
  <2>3. \A i \in 1..Len(packets[b]) :
           /\ packets[b][i].check \in {"waits", "allowed", "denied"}
           /\ sockets[b].at # "open" => packets[b][i].check = "waits"
    BY <1>1, AccountFields DEF PacketsOrdered
  <2> QED BY <1>1, <2>1, <2>2, <2>3, AccountFields
<1>4. AccountTypeOK
  BY <1>1, <1>3 DEF AccountTypeOK, AccountShape, AccountRecord, HandlersKnown
<1> QED BY <1>2, <1>4

\* What an allowed packet was allowed for is still so, or the answer that cuts its socket
\* is to come (util-server.ts:151-171).
THEOREM AccountInvariance == AccountSpec => []AccountInv
<1>1. AccountInit => AccountInv
  BY AccountInitInv
<1>2. AccountInv /\ [AccountNext]_accountVars => AccountInv'
  BY AccountNextOK
<1> QED BY <1>1, <1>2, PTL DEF AccountSpec

\* There is one first owner and from then on always an owner, for any number of accounts
\* and browsers (auth-access.ts:93, 226).
THEOREM OwnersAlwaysRemain == AccountSpec => OwnersRemain
<1>1. AccountInv /\ [AccountNext]_accountVars => [HadOwner => HadOwner']_accountVars
  BY AccountNextOK
<1>2. AccountInv => AccountTypeOK /\ OneFirstOwner
  BY AccountInvImplies
<1> QED BY <1>1, <1>2, AccountInvariance, PTL DEF AccountSpec, OwnersRemain, OwnerRemains

\* Packets are handled in the order they were sent, with rights that are in force, for
\* any number of accounts, browsers and packets (util-server.ts:151-171).
THEOREM PacketsHandledAsPermitted == AccountSpec => AccessInForce
<1>1. AccountInv /\ [AccountNext]_accountVars =>
         [HandlesPermitted]_accountVars /\ [HandledOrdered]_accountVars
  BY AccountNextOK
<1> QED BY <1>1, AccountInvariance, PTL
        DEF AccountSpec, AccessInForce, HandledAsPermitted, HandledInOrder, HandledOrdered

----------------------------------------------------------------------------
(* Connections to an agent *)

LinkSteps == {"unused", "testing", "asked", "signing", "connecting", "online", "off", "over"}
Link == [tab : Tabs \cup {"none"}, at : LinkSteps,
         waits : {NoLogin} \cup Logins, cookie : {NoLogin} \cup Logins]
Tab == [is : {"new", "open", "gone"}, registered : {Unregistered} \cup Connections]

\* A connection is of a tab, waits for a login while it signs in, and lives with a cookie.
LinkRight(link) ==
    /\ link.at # "unused" => link.tab \in Tabs
    /\ link.at \in {"testing", "signing"} => link.waits # NoLogin
    /\ link.at \in {"connecting", "online"} => link.cookie # NoLogin /\ link.waits = NoLogin
LinksInv ==
    /\ agentRow \in BOOLEAN /\ tabs \in [Tabs -> Tab] /\ links \in [Connections -> Link]
    /\ \A c \in Connections : LinkRight(links[c])
    /\ ConnectionsReachable

\* The login the map holds has not failed.  While it can be used there is one login that
\* no failure, no session that ended and no edit of the list accounts for.
Used == {n \in Logins : logins[n] # "unused"}
Usable == session # NoLogin /\ (logins[session] = "pending" \/ session \in valid)
LoginsInv ==
    /\ session \in {NoLogin} \cup Logins
    /\ logins \in [Logins -> {"unused", "pending", "done", "failed"}]
    /\ valid \subseteq {n \in Logins : logins[n] = "done"}
    /\ ended \in Nat /\ edits \in Nat
    /\ session # NoLogin => logins[session] \in {"pending", "done"}
    /\ Cardinality(Used) <= 1 + ended + edits
    /\ ~Usable => Cardinality(Used) <= ended + edits

AgentInv == LinksInv /\ LoginsInv

LEMMA AgentInvInit == AgentInit => AgentInv
<1>1. AgentInit => Used = {}
  BY DEF AgentInit, Used
<1>2. ASSUME AgentInit PROVE LinksInv
  <2>1. NoConnection \in Link /\ LinkRight(NoConnection) /\ NoConnection.at = "unused"
    BY DEF NoConnection, Link, LinkSteps, LinkRight
  <2>2. links = [c \in Connections |-> NoConnection] /\ agentRow = TRUE
        /\ tabs = [t \in Tabs |-> [is |-> "new", registered |-> Unregistered]]
    BY <1>2 DEF AgentInit
  <2>3. QED BY <2>1, <2>2 DEF LinksInv, ConnectionsReachable, Live, Tab
<1>3. ASSUME AgentInit PROVE LoginsInv
  BY <1>1, <1>3, FS_EmptySet DEF AgentInit, LoginsInv
<1>4. QED BY <1>2, <1>3 DEF AgentInv

LEMMA UsedIsFinite == IsFiniteSet(Used) /\ Cardinality(Used) \in Nat
<1>1. IsFiniteSet(Logins)
  BY AgentBoundsAssumption, FS_Interval DEF Logins
<1>2. QED BY <1>1, FS_Subset, FS_CardinalityType DEF Used

----------------------------------------------------------------------------
(* Logins *)

\* A login is begun only when there is none that can be used.
LEMMA SignsInKeeps ==
    ASSUME LoginsInv, NEW held, NEW n \in Logins, SignsIn(held, n),
           held = session \/ (held = NoLogin /\ ~Usable),
           valid' = valid, ended' = ended, edits' \in Nat, edits <= edits'
    PROVE  LoginsInv' /\ n # NoLogin
<1>1. n # NoLogin /\ n \in Nat
  BY AgentBoundsAssumption DEF Logins, NoLogin
<1>2. Cardinality(Used) \in Nat /\ IsFiniteSet(Used)
  BY UsedIsFinite
<1>3. CASE held # NoLogin
  <2>1. session' = session /\ logins' = logins
    BY <1>3 DEF SignsIn
  <2>2. Used' = Used /\ (Usable' <=> Usable)
    BY <2>1 DEF Used, Usable
  <2>3. QED BY <1>1, <1>2, <2>1, <2>2 DEF LoginsInv
<1>4. CASE held = NoLogin
  <2>1. logins[n] = "unused" /\ session' = n /\ logins' = [logins EXCEPT ![n] = "pending"]
    BY <1>4 DEF SignsIn
  <2>2. ~Usable
    BY <1>4 DEF Usable
  <2>3. Used' = Used \cup {n} /\ n \notin Used
    BY <2>1 DEF Used, LoginsInv
  <2>4. Cardinality(Used') = Cardinality(Used) + 1
    BY <1>2, <2>3, FS_AddElement
  <2>5. Cardinality(Used) <= ended + edits
    BY <2>2 DEF LoginsInv
  <2>6. Cardinality(Used') <= 1 + ended' + edits'
    BY <1>2, <2>4, <2>5 DEF LoginsInv
  <2>7. Usable'
    BY <1>1, <2>1 DEF Usable, LoginsInv
  <2>8. /\ session' \in {NoLogin} \cup Logins
        /\ session' # NoLogin => logins'[session'] \in {"pending", "done"}
        /\ logins' \in [Logins -> {"unused", "pending", "done", "failed"}]
        /\ valid' \subseteq {m \in Logins : logins'[m] = "done"}
        /\ ended' \in Nat /\ edits' \in Nat
    BY <2>1 DEF LoginsInv
  <2>9. LoginsInv'
    BY <2>6, <2>7, <2>8 DEF LoginsInv
  <2>10. QED BY <1>1, <2>9
<1>5. QED BY <1>3, <1>4

LEMMA LoginsStay ==
    ASSUME LoginsInv, UNCHANGED <<session, logins, valid, ended, edits>> PROVE LoginsInv'
BY DEF LoginsInv, Used, Usable

LEMMA LinksStay ==
    ASSUME LinksInv, UNCHANGED <<agentRow, tabs, links>> PROVE LinksInv'
BY DEF LinksInv, ConnectionsReachable, Live, Open

LEMMA LoginAnswersKeeps == ASSUME AgentInv, NEW n \in Logins, LoginAnswers(n) PROVE AgentInv'
<1>1. LinksInv'
  BY LinksStay DEF LoginAnswers, AgentInv
<1>2. LoginsInv /\ Cardinality(Used) \in Nat /\ logins[n] = "pending" /\ edits' = edits
  BY UsedIsFinite DEF AgentInv, LoginAnswers
<1>3. CASE logins' = [logins EXCEPT ![n] = "done"] /\ valid' = valid \cup {n}
           /\ UNCHANGED <<session, ended>>
  <2>1. Used' = Used
    BY <1>2, <1>3 DEF Used, LoginsInv
  <2>2. Usable => Usable'
    BY <1>2, <1>3 DEF Usable, LoginsInv
  <2>3. QED BY <1>1, <1>2, <1>3, <2>1, <2>2 DEF AgentInv, LoginsInv
<1>4. CASE /\ ended' = ended + 1 /\ logins' = [logins EXCEPT ![n] = "failed"] /\ valid' = valid
           /\ session' = IF session = n THEN NoLogin ELSE session
  <2>1. Used' = Used
    BY <1>2, <1>4 DEF Used, LoginsInv
  <2>2. Cardinality(Used) <= ended' + edits'
    BY <1>2, <1>4 DEF LoginsInv
  <2>3. /\ session' \in {NoLogin} \cup Logins
        /\ (session' # NoLogin => session' = session /\ session # n)
    BY <1>2, <1>4 DEF LoginsInv
  <2>4. valid' \subseteq {m \in Logins : logins'[m] = "done"}
    BY <1>2, <1>4 DEF LoginsInv
  <2>5. /\ ended' \in Nat /\ edits' \in Nat
        /\ logins' \in [Logins -> {"unused", "pending", "done", "failed"}]
    BY <1>2, <1>4 DEF LoginsInv
  <2>6. session' # NoLogin => logins'[session'] \in {"pending", "done"}
    BY <1>2, <1>4, <2>3 DEF LoginsInv
  <2>7. LoginsInv'
    BY <1>2, <2>1, <2>2, <2>3, <2>4, <2>5, <2>6 DEF LoginsInv
  <2>8. QED BY <1>1, <2>7 DEF AgentInv
<1>5. QED BY <1>3, <1>4 DEF LoginAnswers

LEMMA SessionEndsKeeps == ASSUME AgentInv, NEW n \in Logins, SessionEnds(n) PROVE AgentInv'
<1>1. LinksInv'
  BY LinksStay DEF SessionEnds, AgentInv
<1>2. /\ LoginsInv /\ Cardinality(Used) \in Nat /\ edits' = edits /\ ended' = ended + 1
      /\ logins' = logins
      /\ valid' \subseteq valid /\ (session' = session \/ session' = NoLogin)
  BY UsedIsFinite DEF AgentInv, SessionEnds
<1>3. Used' = Used
  BY <1>2 DEF Used
<1>4. Cardinality(Used) <= ended' + edits' /\ ended' \in Nat /\ edits' \in Nat
  BY <1>2 DEF LoginsInv
<1>5. LoginsInv'
  BY <1>2, <1>3, <1>4 DEF LoginsInv
<1>6. QED BY <1>1, <1>5 DEF AgentInv

----------------------------------------------------------------------------
(* Connections *)

\* A step of one connection that begins no life of it, and leaves the tabs.
LEMMA LinkMoves ==
    ASSUME LinksInv, NEW c \in Connections, NEW link \in Link, LinkRight(link),
           links' = [links EXCEPT ![c] = link], tabs' = tabs, agentRow' = agentRow,
           link.at \in {"connecting", "online"} =>
               Open(link.tab) /\ tabs[link.tab].registered = c
    PROVE  LinksInv'
<1>1. ASSUME NEW b \in Connections
      PROVE  (b = c /\ links'[b] = link) \/ (b # c /\ links'[b] = links[b])
  BY DEF LinksInv
<1>2. links' \in [Connections -> Link]
  BY DEF LinksInv
<1>3. ConnectionsReachable'
  <2>1. ASSUME NEW b \in Connections, links'[b].at \in {"connecting", "online"}
        PROVE  tabs'[links'[b].tab].is = "open" /\ tabs'[links'[b].tab].registered = b
    BY <1>1, <2>1 DEF LinksInv, ConnectionsReachable, Live, Open
  <2>2. QED BY <2>1 DEF ConnectionsReachable, Live, Open
<1>4. \A b \in Connections : LinkRight(links'[b])
  BY <1>1 DEF LinksInv
<1>5. QED BY <1>2, <1>3, <1>4 DEF LinksInv

\* New connections begin dead.
LEMMA Begun ==
    ASSUME NEW t \in Tabs, NEW step \in {"asked", "testing"}, NEW n \in {NoLogin} \cup Logins,
           step = "testing" => n # NoLogin
    PROVE  LET link == [NoConnection EXCEPT !.tab = t, !.at = step, !.waits = n]
           IN link \in Link /\ LinkRight(link) /\ link.at = step
BY DEF NoConnection, Link, LinkSteps, LinkRight

LEMMA ConnectionFacts ==
    ASSUME AgentInv, NEW c \in Connections
    PROVE  /\ LinksInv /\ LoginsInv /\ links[c] \in Link /\ LinkRight(links[c])
           /\ Live(c) => Open(links[c].tab) /\ tabs[links[c].tab].registered = c
BY DEF AgentInv, LinksInv, ConnectionsReachable

LEMMA TabOpensKeeps == ASSUME AgentInv, NEW t \in Tabs, TabOpens(t) PROVE AgentInv'
<1>1. LoginsInv'
  BY LoginsStay DEF TabOpens, AgentInv
<1>2. tabs[t].is = "new" /\ tabs' = [tabs EXCEPT ![t].is = "open"] /\ agentRow' = agentRow
  BY DEF TabOpens
<1>3. LinksInv
  BY DEF AgentInv
<1>4. /\ tabs' \in [Tabs -> Tab] /\ \A s \in Tabs \ {t} : tabs'[s] = tabs[s]
  BY <1>2, <1>3 DEF LinksInv, Tab
<1>5. ASSUME NEW c \in Connections, Live(c)
      PROVE  /\ links[c].tab \in Tabs \ {t} /\ tabs'[links[c].tab] = tabs[links[c].tab]
             /\ Open(links[c].tab) /\ tabs[links[c].tab].registered = c
  BY <1>2, <1>3, <1>4, <1>5 DEF LinksInv, ConnectionsReachable, Live, Open, LinkRight
<1>6. CASE links' = links
  <2>1. ConnectionsReachable'
    BY <1>5, <1>6 DEF ConnectionsReachable, Live, Open
  <2>2. LinksInv'
    BY <1>2, <1>3, <1>4, <1>6, <2>1 DEF LinksInv
  <2>3. QED BY <1>1, <2>2 DEF AgentInv
<1>7. ASSUME NEW c \in Connections, Begins(c, t, "asked") PROVE AgentInv'
  <2> DEFINE link == [NoConnection EXCEPT !.tab = t, !.at = "asked"]
  <2>1. link \in Link /\ LinkRight(link) /\ link.at = "asked"
    BY DEF NoConnection, Link, LinkSteps, LinkRight
  <2>2. links' = [links EXCEPT ![c] = link]
    BY <1>7 DEF Begins
  <2> HIDE DEF link
  <2>3. /\ links' \in [Connections -> Link]
        /\ \A b \in Connections : links'[b] = link \/ links'[b] = links[b]
    BY <1>3, <2>1, <2>2 DEF LinksInv
  <2>4. ConnectionsReachable'
    <3>1. ASSUME NEW b \in Connections, links'[b].at \in {"connecting", "online"}
          PROVE  tabs'[links'[b].tab].is = "open" /\ tabs'[links'[b].tab].registered = b
      BY <1>5, <2>1, <2>3, <3>1 DEF Live, Open
    <3>2. QED BY <3>1 DEF ConnectionsReachable, Live, Open
  <2>5. LinksInv'
    BY <1>2, <1>3, <1>4, <2>1, <2>3, <2>4 DEF LinksInv
  <2>6. QED BY <1>1, <2>5 DEF AgentInv
<1>8. QED BY <1>6, <1>7 DEF TabOpens

LEMMA AsksKeeps == ASSUME AgentInv, NEW c \in Connections, Asks(c) PROVE AgentInv'
<1>1. /\ links[c].at = "asked" /\ tabs' = tabs /\ agentRow' = agentRow /\ links[c] \in Link
      /\ LinkRight(links[c])
      /\ LinksInv /\ LoginsInv
  BY ConnectionFacts DEF Asks
<1>2. CASE /\ links' = [links EXCEPT ![c].at = "over"]
           /\ UNCHANGED <<session, logins, valid, ended, edits>>
  <2> DEFINE link == [links[c] EXCEPT !.at = "over"]
  <2>1. link \in Link /\ LinkRight(link) /\ link.at = "over"
    BY <1>1 DEF Link, LinkSteps, LinkRight
  <2>2. links' = [links EXCEPT ![c] = link]
    BY <1>2
  <2> HIDE DEF link
  <2>3. LinksInv'
    BY <1>1, <2>1, <2>2, LinkMoves
  <2>4. QED BY <1>1, <1>2, <2>3, LoginsStay DEF AgentInv
<1>3. ASSUME NEW n \in Logins, SignsIn(session, n), valid' = valid, ended' = ended,
             edits' = edits,
             links' = [links EXCEPT ![c].at = "signing", ![c].waits = n]
      PROVE  AgentInv'
  <2>1. LoginsInv' /\ n # NoLogin
    <3>1. edits' \in Nat /\ edits <= edits'
      BY <1>1, <1>3 DEF LoginsInv
    <3>2. QED BY <1>1, <1>3, <3>1, SignsInKeeps
  <2> DEFINE link == [links[c] EXCEPT !.at = "signing", !.waits = n]
  <2>2. link \in Link /\ LinkRight(link) /\ link.at = "signing"
    BY <1>1, <2>1 DEF Link, LinkSteps, LinkRight
  <2>3. links' = [links EXCEPT ![c] = link]
    BY <1>1, <1>3 DEF LinksInv
  <2> HIDE DEF link
  <2>4. LinksInv'
    BY <1>1, <2>2, <2>3, LinkMoves
  <2>5. QED BY <2>1, <2>4 DEF AgentInv
<1>4. QED BY <1>2, <1>3 DEF Asks

LEMMA ConnectsKeeps == ASSUME AgentInv, NEW c \in Connections, Connects(c) PROVE AgentInv'
<1> DEFINE t == links[c].tab
           n == links[c].waits
<1>1. /\ links[c].at = "signing" /\ agentRow' = agentRow
      /\ links[c] \in Link /\ LinkRight(links[c]) /\ LinksInv /\ LoginsInv
      /\ UNCHANGED <<session, logins, valid, ended, edits>>
  BY ConnectionFacts DEF Connects
<1>2. t \in Tabs /\ n \in Logins /\ n # NoLogin
  BY <1>1 DEF LinkRight, Link
<1>3. CASE /\ MayRegister(t)
           /\ links' = [links EXCEPT ![c] =
                 [tab |-> t, at |-> "connecting", waits |-> NoLogin, cookie |-> n]]
           /\ tabs' = [tabs EXCEPT ![t].registered = c]
  <2> DEFINE link == [tab |-> t, at |-> "connecting", waits |-> NoLogin, cookie |-> n]
  <2>1. link \in Link /\ LinkRight(link) /\ link.tab = t
    BY <1>2 DEF Link, LinkSteps, LinkRight
  <2>2. links' = [links EXCEPT ![c] = link]
    BY <1>3
  <2> HIDE DEF link
  <2>3. /\ links' \in [Connections -> Link] /\ links'[c] = link
        /\ \A b \in Connections \ {c} : links'[b] = links[b]
    BY <1>1, <2>1, <2>2 DEF LinksInv
  <2>4. /\ tabs' \in [Tabs -> Tab] /\ tabs'[t].registered = c /\ tabs'[t].is = "open"
        /\ \A s \in Tabs \ {t} : tabs'[s] = tabs[s]
    BY <1>1, <1>2, <1>3 DEF LinksInv, Tab, MayRegister, Open
  <2>5. tabs[t].registered = Unregistered /\ Unregistered \notin Connections
    BY <1>3, AgentBoundsAssumption DEF MayRegister, Unregistered, Connections
  <2>6. ASSUME NEW b \in Connections, links'[b].at \in {"connecting", "online"}
        PROVE  tabs'[links'[b].tab].is = "open" /\ tabs'[links'[b].tab].registered = b
    <3>1. CASE b = c
      BY <2>1, <2>3, <2>4, <3>1
    <3>2. CASE b # c
      <4>1. links'[b] = links[b] /\ Live(b) /\ LinkRight(links[b]) /\ links[b].tab \in Tabs
        BY <2>3, <2>6, <3>2, ConnectionFacts DEF Live, LinkRight
      <4>2. Open(links[b].tab) /\ tabs[links[b].tab].registered = b
        BY <4>1, ConnectionFacts
      <4>3. links[b].tab # t
        BY <2>5, <4>2
      <4>4. QED BY <2>4, <4>1, <4>2, <4>3 DEF Open
    <3>3. QED BY <3>1, <3>2
  <2>7. ConnectionsReachable'
    BY <2>6 DEF ConnectionsReachable, Live, Open
  <2>8. \A b \in Connections : LinkRight(links'[b])
    BY <1>1, <2>1, <2>3 DEF LinksInv
  <2>9. LinksInv'
    BY <1>1, <2>3, <2>4, <2>7, <2>8 DEF LinksInv
  <2>10. QED BY <1>1, <2>9, LoginsStay DEF AgentInv
<1>4. CASE links' = [links EXCEPT ![c].at = "over", ![c].waits = NoLogin] /\ tabs' = tabs
  <2> DEFINE link == [links[c] EXCEPT !.at = "over", !.waits = NoLogin]
  <2>1. link \in Link /\ LinkRight(link) /\ link.at = "over"
    BY <1>1 DEF Link, LinkSteps, LinkRight
  <2>2. links' = [links EXCEPT ![c] = link]
    BY <1>1, <1>4 DEF LinksInv
  <2> HIDE DEF link
  <2>3. LinksInv'
    BY <1>1, <1>4, <2>1, <2>2, LinkMoves
  <2>4. QED BY <1>1, <2>3, LoginsStay DEF AgentInv
<1>5. QED BY <1>3, <1>4 DEF Connects

\* A connection that lived only changes how it stands.
LEMMA StandsKeeps ==
    ASSUME AgentInv, NEW c \in Connections, Live(c),
           NEW step \in {"connecting", "online", "over"},
           links' = [links EXCEPT ![c].at = step],
           UNCHANGED <<agentRow, session, logins, valid, tabs, ended, edits>>
    PROVE  AgentInv'
<1>1. /\ links[c] \in Link /\ LinkRight(links[c]) /\ LinksInv /\ LoginsInv
      /\ Open(links[c].tab) /\ tabs[links[c].tab].registered = c
  BY ConnectionFacts
<1> DEFINE link == [links[c] EXCEPT !.at = step]
<1>2. link \in Link /\ LinkRight(link) /\ link.tab = links[c].tab
  BY <1>1 DEF Link, LinkSteps, LinkRight, Live
<1>3. links' = [links EXCEPT ![c] = link]
  OBVIOUS
<1> HIDE DEF link
<1>4. LinksInv'
  BY <1>1, <1>2, <1>3, LinkMoves
<1>5. QED BY <1>1, <1>4, LoginsStay DEF AgentInv

LEMMA RejectedKeeps == ASSUME AgentInv, NEW c \in Connections, Rejected(c) PROVE AgentInv'
<1>1. PICK n \in Logins :
        /\ SignsIn(WithoutCookie(links[c].cookie), n)
        /\ links' = [links EXCEPT ![c].at = "off", ![c].waits = n]
  BY DEF Rejected
<1>2. /\ Live(c) /\ links[c].cookie \notin valid /\ valid' = valid /\ ended' = ended
      /\ edits' = edits
      /\ tabs' = tabs /\ agentRow' = agentRow
      /\ links[c] \in Link /\ LinkRight(links[c]) /\ LinksInv /\ LoginsInv
  BY ConnectionFacts DEF Rejected
<1>3. WithoutCookie(links[c].cookie) = session
      \/ (WithoutCookie(links[c].cookie) = NoLogin /\ ~Usable)
  BY <1>2 DEF WithoutCookie, Usable
<1>4. LoginsInv'
  <2>1. edits' \in Nat /\ edits <= edits'
    BY <1>2 DEF LoginsInv
  <2>2. QED BY <1>1, <1>2, <1>3, <2>1, SignsInKeeps
<1> DEFINE link == [links[c] EXCEPT !.at = "off", !.waits = n]
<1>5. link \in Link /\ LinkRight(link) /\ link.at = "off"
  BY <1>2 DEF Link, LinkSteps, LinkRight, Live
<1>6. links' = [links EXCEPT ![c] = link]
  BY <1>1, <1>2 DEF LinksInv
<1> HIDE DEF link
<1>7. LinksInv'
  BY <1>2, <1>5, <1>6, LinkMoves
<1>8. QED BY <1>4, <1>7 DEF AgentInv

LEMMA RenewsKeeps == ASSUME AgentInv, NEW c \in Connections, Renews(c) PROVE AgentInv'
<1> DEFINE n == links[c].waits
<1>1. /\ links[c].at = "off" /\ n # NoLogin /\ tabs' = tabs /\ agentRow' = agentRow
      /\ links[c] \in Link /\ LinkRight(links[c]) /\ LinksInv /\ LoginsInv
      /\ UNCHANGED <<session, logins, valid, ended, edits>>
  BY ConnectionFacts DEF Renews, Awaits
<1>2. CASE StillWanted(c) /\ links' = [links EXCEPT ![c] = Renewed(links[c], n)]
  <2> DEFINE link == Renewed(links[c], n)
  <2>1. link \in Link /\ LinkRight(link) /\ link.tab = links[c].tab
    BY <1>1 DEF Link, LinkSteps, LinkRight, Renewed
  <2>2. links' = [links EXCEPT ![c] = link]
    BY <1>2
  <2> HIDE DEF link
  <2>3. Open(link.tab) /\ tabs[link.tab].registered = c
    BY <1>2, <2>1 DEF StillWanted
  <2>4. LinksInv'
    BY <1>1, <2>1, <2>2, <2>3, LinkMoves
  <2>5. QED BY <1>1, <2>4, LoginsStay DEF AgentInv
<1>3. CASE links' = [links EXCEPT ![c] = [links[c] EXCEPT !.at = "over", !.waits = NoLogin]]
  <2> DEFINE link == [links[c] EXCEPT !.at = "over", !.waits = NoLogin]
  <2>1. link \in Link /\ LinkRight(link) /\ link.at = "over"
    BY <1>1 DEF Link, LinkSteps, LinkRight
  <2>2. links' = [links EXCEPT ![c] = link]
    BY <1>3
  <2> HIDE DEF link
  <2>3. LinksInv'
    BY <1>1, <2>1, <2>2, LinkMoves
  <2>4. QED BY <1>1, <2>3, LoginsStay DEF AgentInv
<1>4. QED BY <1>2, <1>3 DEF Renews

----------------------------------------------------------------------------
(* Tabs and the list of agents *)

\* What is cut is dead, and for the rest as right as it was.
LEMMA CutRight ==
    ASSUME NEW link \in Link, LinkRight(link)
    PROVE  /\ Cut(link) \in Link /\ LinkRight(Cut(link)) /\ Cut(link).tab = link.tab
           /\ Cut(link).at \notin {"connecting", "online"}
BY DEF Link, LinkSteps, LinkRight, Cut

\* A step that cuts connections and begins none: those that live keep their tab.
LEMMA CutsKeep ==
    ASSUME LinksInv, agentRow' \in BOOLEAN, tabs' \in [Tabs -> Tab],
           links' \in [Connections -> Link],
           \A c \in Connections : LinkRight(links'[c]),
           \A c \in Connections : links'[c].at \in {"connecting", "online"} =>
                links'[c] = links[c] /\ tabs'[links[c].tab] = tabs[links[c].tab]
    PROVE  LinksInv'
<1>1. ASSUME NEW b \in Connections, links'[b].at \in {"connecting", "online"}
      PROVE  tabs'[links'[b].tab].is = "open" /\ tabs'[links'[b].tab].registered = b
  BY <1>1 DEF LinksInv, ConnectionsReachable, Live, Open
<1>2. ConnectionsReachable'
  BY <1>1 DEF ConnectionsReachable, Live, Open
<1>3. QED BY <1>2 DEF LinksInv

LEMMA TabClosesKeeps == ASSUME AgentInv, NEW t \in Tabs, TabCloses(t) PROVE AgentInv'
<1>1. LoginsInv' /\ LinksInv
  BY LoginsStay DEF TabCloses, AgentInv
<1>2. /\ tabs' = [s \in Tabs |-> IF s \in {t} THEN [tabs[s] EXCEPT !.is = "gone"] ELSE tabs[s]]
      /\ links' = [c \in Connections |->
           IF links[c].tab \in {t} /\ tabs[links[c].tab].registered = c
           THEN Cut(links[c]) ELSE links[c]]
      /\ agentRow' = agentRow
  BY DEF TabCloses, TabsEnd
<1>3. tabs' \in [Tabs -> Tab]
  BY <1>1, <1>2 DEF LinksInv, Tab
<1>4. ASSUME NEW c \in Connections
      PROVE  /\ links'[c] \in Link /\ LinkRight(links'[c])
             /\ links'[c].at \in {"connecting", "online"} =>
                    links'[c] = links[c] /\ tabs'[links[c].tab] = tabs[links[c].tab]
  <2>1. links[c] \in Link /\ LinkRight(links[c])
    BY <1>1 DEF LinksInv
  <2>2. CASE links[c].tab = t /\ tabs[links[c].tab].registered = c
    <3>1. links'[c] = Cut(links[c])
      BY <1>2, <2>2
    <3>2. QED BY <2>1, <3>1, CutRight
  <2>3. CASE ~(links[c].tab = t /\ tabs[links[c].tab].registered = c)
    <3>1. links'[c] = links[c]
      BY <1>2, <2>3
    <3>2. ASSUME links[c].at \in {"connecting", "online"}
          PROVE  links[c].tab \in Tabs /\ links[c].tab # t
      BY <1>1, <2>1, <2>3, <3>2 DEF LinksInv, ConnectionsReachable, Live, LinkRight
    <3>3. QED BY <1>2, <2>1, <3>1, <3>2
  <2>4. QED BY <2>2, <2>3
<1>5. links' \in [Connections -> Link]
  BY <1>2, <1>4
<1>6. LinksInv'
  BY <1>1, <1>2, <1>3, <1>4, <1>5, CutsKeep DEF LinksInv
<1>7. QED BY <1>1, <1>6 DEF AgentInv

LEMMA RemovesKeeps == ASSUME AgentInv, NEW t \in Tabs, Removes(t) PROVE AgentInv'
<1>1. LoginsInv /\ LinksInv /\ Cardinality(Used) \in Nat
  BY UsedIsFinite DEF AgentInv
<1>2. /\ session' = NoLogin /\ edits' = edits + 1 /\ agentRow' = FALSE
      /\ logins' = logins /\ valid' = valid /\ ended' = ended
  BY DEF Removes
<1>3. LoginsInv'
  <2>1. Used' = Used
    BY <1>2 DEF Used
  <2>2. Cardinality(Used) <= ended' + edits' /\ ended' \in Nat /\ edits' \in Nat
    BY <1>1, <1>2 DEF LoginsInv
  <2>3. QED BY <1>1, <1>2, <2>1, <2>2 DEF LoginsInv
<1> DEFINE own == tabs[t].registered
           others == OtherTabs(t)
<1>4. /\ tabs' = [s \in Tabs |-> IF s = t THEN [tabs[s] EXCEPT !.registered = Unregistered]
                    ELSE IF s \in others THEN [tabs[s] EXCEPT !.is = "gone"] ELSE tabs[s]]
      /\ links' = [c \in Connections |->
            IF c = own \/ (links[c].tab \in others /\ tabs[links[c].tab].registered = c)
            THEN Cut(links[c]) ELSE links[c]]
  BY DEF Removes
<1> HIDE DEF others, own
<1>5. tabs' \in [Tabs -> Tab]
  BY <1>1, <1>4 DEF LinksInv, Tab
<1>6. ASSUME NEW c \in Connections
      PROVE  /\ links'[c] \in Link /\ LinkRight(links'[c])
             /\ links'[c].at \in {"connecting", "online"} =>
                    links'[c] = links[c] /\ tabs'[links[c].tab] = tabs[links[c].tab]
  <2>1. links[c] \in Link /\ LinkRight(links[c])
    BY <1>1 DEF LinksInv
  <2>2. CASE c = own \/ (links[c].tab \in others /\ tabs[links[c].tab].registered = c)
    <3>1. links'[c] = Cut(links[c])
      BY <1>4, <2>2
    <3>2. QED BY <2>1, <3>1, CutRight
  <2>3. CASE ~(c = own \/ (links[c].tab \in others /\ tabs[links[c].tab].registered = c))
    <3>1. links'[c] = links[c]
      BY <1>4, <2>3
    <3>2. ASSUME links[c].at \in {"connecting", "online"}
          PROVE  links[c].tab \in Tabs /\ links[c].tab # t /\ links[c].tab \notin others
      BY <1>1, <2>1, <2>3, <3>2 DEF LinksInv, ConnectionsReachable, Live, LinkRight, own
    <3>3. QED BY <1>4, <2>1, <3>1, <3>2
  <2>4. QED BY <2>2, <2>3
<1>7. links' \in [Connections -> Link]
  BY <1>4, <1>6
<1>8. LinksInv'
  BY <1>1, <1>2, <1>5, <1>6, <1>7, CutsKeep
<1>9. QED BY <1>3, <1>8 DEF AgentInv

LEMMA AddTestsKeeps == ASSUME AgentInv, NEW t \in Tabs, AddTests(t) PROVE AgentInv'
<1>1. PICK c \in Connections, n \in Logins :
         /\ SignsIn(session, n)
         /\ links' = [links EXCEPT ![c] =
              [NoConnection EXCEPT !.tab = t, !.at = "testing", !.waits = n]]
  BY DEF AddTests
<1>2. /\ edits' = edits + 1 /\ agentRow' = agentRow /\ valid' = valid /\ tabs' = tabs
      /\ ended' = ended
      /\ LinksInv /\ LoginsInv
  BY DEF AddTests, AgentInv
<1>3. LoginsInv' /\ n # NoLogin
  <2>1. edits' \in Nat /\ edits <= edits'
    BY <1>2 DEF LoginsInv
  <2>2. QED BY <1>1, <1>2, <2>1, SignsInKeeps
<1> DEFINE link == [NoConnection EXCEPT !.tab = t, !.at = "testing", !.waits = n]
<1>4. link \in Link /\ LinkRight(link) /\ link.at = "testing"
  BY <1>3 DEF NoConnection, Link, LinkSteps, LinkRight
<1>5. links' = [links EXCEPT ![c] = link]
  BY <1>1
<1> HIDE DEF link
<1>6. LinksInv'
  BY <1>2, <1>4, <1>5, LinkMoves
<1>7. QED BY <1>3, <1>6 DEF AgentInv

LEMMA AddWritesKeeps == ASSUME AgentInv, NEW c \in Connections, AddWrites(c) PROVE AgentInv'
<1> DEFINE t == links[c].tab
           others == OtherTabs(t)
<1>1. /\ links[c].at = "testing" /\ links[c] \in Link /\ LinkRight(links[c]) /\ LinksInv
      /\ LoginsInv
      /\ UNCHANGED <<session, logins, valid, ended, edits>>
  BY ConnectionFacts DEF AddWrites
<1>2. CASE links' = [links EXCEPT ![c].at = "over", ![c].waits = NoLogin]
           /\ UNCHANGED <<agentRow, tabs>>
  <2> DEFINE link == [links[c] EXCEPT !.at = "over", !.waits = NoLogin]
  <2>1. link \in Link /\ LinkRight(link) /\ link.at = "over"
    BY <1>1 DEF Link, LinkSteps, LinkRight
  <2>2. links' = [links EXCEPT ![c] = link]
    BY <1>1, <1>2 DEF LinksInv
  <2> HIDE DEF link
  <2>3. LinksInv'
    BY <1>1, <1>2, <2>1, <2>2, LinkMoves
  <2>4. QED BY <1>1, <2>3, LoginsStay DEF AgentInv
<1>3. CASE /\ agentRow' = TRUE
           /\ tabs' = [s \in Tabs |-> IF s \in others
                         THEN [tabs[s] EXCEPT !.is = "gone"] ELSE tabs[s]]
           /\ links' = [b \in Connections |->
                 IF b = c THEN [links[c] EXCEPT !.at = "asked", !.waits = NoLogin]
                 ELSE IF links[b].tab \in others THEN Cut(links[b]) ELSE links[b]]
  <2> HIDE DEF others
  <2>1. tabs' \in [Tabs -> Tab]
    BY <1>1, <1>3 DEF LinksInv, Tab
  <2> DEFINE link == [links[c] EXCEPT !.at = "asked", !.waits = NoLogin]
  <2>2. link \in Link /\ LinkRight(link) /\ link.at = "asked"
    BY <1>1 DEF Link, LinkSteps, LinkRight
  <2>3. links' = [b \in Connections |-> IF b = c THEN link
                     ELSE IF links[b].tab \in others THEN Cut(links[b]) ELSE links[b]]
    BY <1>3
  <2> HIDE DEF link
  <2>4. ASSUME NEW b \in Connections
        PROVE  /\ links'[b] \in Link /\ LinkRight(links'[b])
               /\ links'[b].at \in {"connecting", "online"} =>
                    links'[b] = links[b] /\ tabs'[links[b].tab] = tabs[links[b].tab]
    <3>1. links[b] \in Link /\ LinkRight(links[b])
      BY <1>1 DEF LinksInv
    <3>2. CASE b = c
      BY <2>2, <2>3, <3>2
    <3>3. CASE b # c /\ links[b].tab \in others
      <4>1. links'[b] = Cut(links[b])
        BY <2>3, <3>3
      <4>2. QED BY <3>1, <4>1, CutRight
    <3>4. CASE b # c /\ links[b].tab \notin others
      <4>1. links'[b] = links[b]
        BY <2>3, <3>4
      <4>2. links[b].at # "unused" => links[b].tab \in Tabs
        BY <3>1 DEF LinkRight
      <4>3. QED BY <1>3, <3>1, <3>4, <4>1, <4>2
    <3>5. QED BY <3>2, <3>3, <3>4
  <2>5. links' \in [Connections -> Link]
    BY <2>3, <2>4
  <2>6. LinksInv'
    BY <1>1, <1>3, <2>1, <2>4, <2>5, CutsKeep
  <2>7. QED BY <1>1, <2>6, LoginsStay DEF AgentInv
<1>4. QED BY <1>2, <1>3 DEF AddWrites

\* A link has what its step needs, a live one is its tab's, and each login but the first
\* is owed to a failure, an ended session or an edit (agent-manager.ts, agent-auth.ts).
THEOREM AgentInvariance == AgentSpec => []AgentInv
<1>1. ASSUME AgentInv, UNCHANGED agentVars PROVE AgentInv'
  BY <1>1, LoginsStay, LinksStay DEF AgentInv, agentVars
<1>2. ASSUME AgentInv, NEW c \in Connections, Accepted(c) \/ Dropped(c) PROVE AgentInv'
  BY <1>2, StandsKeeps DEF Accepted, Dropped, Live
<1>3. ASSUME AgentInv, [AgentNext]_agentVars PROVE AgentInv'
  BY <1>1, <1>2, <1>3, LoginAnswersKeeps, SessionEndsKeeps, TabOpensKeeps, TabClosesKeeps,
     RemovesKeeps,
     AddTestsKeeps, AsksKeeps, ConnectsKeeps, RejectedKeeps, RenewsKeeps, AddWritesKeeps
     DEF AgentNext, AgentSteps
<1>4. QED BY <1>3, AgentInvInit, PTL DEF AgentSpec

\* Tabs share their logins and each connection that lives can be ended by its tab, for any
\* number of tabs, logins and reconnections (agent-manager.ts:100-200, agent-auth.ts:26).
THEOREM ConnectionsStayKept == AgentSpec => []ConnectionsKept
<1>1. ASSUME AgentInv PROVE AgentTypeOK
  <2>1. \A c \in Connections :
           /\ links[c].at \in LinkSteps
           /\ Live(c) => links[c].cookie # NoLogin /\ ~Awaits(c)
    BY <1>1, ConnectionFacts DEF Link, LinkRight, Live, Awaits
  <2>2. \A t \in Tabs : /\ tabs[t].is \in {"new", "open", "gone"}
                        /\ tabs[t].registered \in {Unregistered} \cup Connections
    BY <1>1 DEF AgentInv, LinksInv, Tab
  <2>3. /\ agentRow \in BOOLEAN /\ session \in {NoLogin} \cup Logins
        /\ valid \subseteq {n \in Logins : logins[n] # "unused"}
        /\ \A n \in Logins : logins[n] \in {"unused", "pending", "done", "failed"}
    BY <1>1 DEF AgentInv, LinksInv, LoginsInv
  <2>4. QED BY <2>1, <2>2, <2>3 DEF AgentTypeOK, LinkSteps
<1>2. ASSUME AgentInv PROVE LoginsShared /\ ConnectionsReachable
  BY <1>2 DEF AgentInv, LinksInv, LoginsInv, LoginsShared, Used
<1>3. QED BY <1>1, <1>2, AgentInvariance, PTL DEF ConnectionsKept

----------------------------------------------------------------------------
(* Delegated calls *)

\* A copy whose call was claimed for it, and one that came to the work.
Claimed(r) == r \in worked \/ progress[r] \in RequestSteps \ {"away", "authenticated", "denied"}
Admitted(r) ==
    r \in worked \/ progress[r] \in {"works", "asksAgain", "askingAgain", "confirmedAgain",
                                    "answered"}

DelShape ==
    /\ signedAt \in [Assertions -> 0..MaxMoment \cup {Unsigned}]
    /\ seen \in [Panels -> SUBSET Assertions]
    /\ progress \in [Copies -> RequestSteps]

\* What was taken in was signed, and what is claimed is remembered until it has expired.
TakenIsIssued == \A r \in Copies : progress[r] # "away" => Issued(CallOf(r))
ClaimsRemembered ==
    \A r \in Copies : Claimed(r) =>
        CallOf(r) \in seen[Receiver(CallOf(r))] \/ Expired(CallOf(r))
\* A second claim of a call comes after its assertion expired, too late to be worked for.
SecondClaimIsLate ==
    \A r, other \in Copies : r # other /\ CallOf(r) = CallOf(other) =>
        /\ Claimed(r) /\ Claimed(other) => Expired(CallOf(r))
        /\ ~(Admitted(r) /\ Admitted(other))

\* What the second question settles, step by step.
WorkedIsAdmitted ==
    \A r \in Copies :
        /\ r \in worked => progress[r] \in {"asksAgain", "askingAgain", "confirmedAgain",
                                            "answered", "denied"}
        /\ progress[r] \in {"asksAgain", "askingAgain", "confirmedAgain", "answered"}
             => r \in worked
RightsSeenAgain ==
    \A r \in Copies :
        /\ r \in worked /\ CallOf(r) \in granted \cap trusting => r \in inForce
        /\ progress[r] = "askingAgain" /\ CallOf(r) \in granted => r \in inForce
        /\ progress[r] \in {"confirmedAgain", "answered"} => r \in inForce

DelInv ==
    /\ DelTypeOK /\ DelShape
    /\ TakenIsIssued /\ ClaimsRemembered /\ SecondClaimIsLate
    /\ WorkedIsAdmitted /\ RightsSeenAgain

LEMMA DelInvInit == DelInit => DelInv
BY DelegationAssumption DEF DelInit, DelInv, DelTypeOK, DelShape, TakenIsIssued,
   ClaimsRemembered,
      SecondClaimIsLate, WorkedIsAdmitted, RightsSeenAgain, Claimed, Admitted, Issued, Unsigned,
      RequestSteps

LEMMA PassesKeeps ==
    ASSUME DelInv, Passes
    PROVE  DelInv'
<1>0. DelTypeOK /\ DelShape
  BY DEF DelInv
<1>1. DelTypeOK'
  BY <1>0, DelegationAssumption DEF DelInv, DelTypeOK, DelShape, Passes, Issued, RequestSteps,
     Unsigned
<1>2. DelShape'
  BY <1>0, DelegationAssumption DEF DelInv, DelTypeOK, DelShape, Passes, RequestSteps
<1>3. TakenIsIssued'
  BY <1>0, DelegationAssumption DEF DelInv, DelTypeOK, DelShape, Passes, TakenIsIssued, Issued
<1>4. ClaimsRemembered'
  BY <1>0, DelegationAssumption DEF DelInv, DelTypeOK, DelShape, Passes, ClaimsRemembered,
     Claimed, Expired, TakenIsIssued, Issued, RequestSteps, Unsigned
<1>5. SecondClaimIsLate'
  BY <1>0, DelegationAssumption DEF DelInv, DelTypeOK, DelShape, Passes, SecondClaimIsLate,
     ClaimsRemembered, WorkedIsAdmitted, TakenIsIssued, Claimed, Admitted, Expired, Issued,
     RequestSteps, Unsigned
<1>6. WorkedIsAdmitted'
  BY <1>0, DelegationAssumption DEF DelInv, DelTypeOK, DelShape, Passes, WorkedIsAdmitted,
     RequestSteps
<1>7. RightsSeenAgain'
  BY <1>0, DelegationAssumption DEF DelInv, DelTypeOK, DelShape, Passes, RightsSeenAgain,
     WorkedIsAdmitted
<1>9. QED BY <1>1, <1>2, <1>3, <1>4, <1>5, <1>6, <1>7 DEF DelInv

LEMMA RightsEndKeeps ==
    ASSUME NEW k \in Assertions, DelInv, RightsEnd(k)
    PROVE  DelInv'
<1>0. DelTypeOK /\ DelShape
  BY DEF DelInv
<1>1. DelTypeOK'
  BY <1>0, DelegationAssumption DEF DelInv, DelTypeOK, DelShape, RightsEnd, Issued,
     RequestSteps, Unsigned
<1>2. DelShape'
  BY <1>0, DelegationAssumption DEF DelInv, DelTypeOK, DelShape, RightsEnd, RequestSteps
<1>3. TakenIsIssued'
  BY <1>0, DelegationAssumption DEF DelInv, DelTypeOK, DelShape, RightsEnd, TakenIsIssued,
     Issued
<1>4. ClaimsRemembered'
  BY <1>0, DelegationAssumption DEF DelInv, DelTypeOK, DelShape, RightsEnd, ClaimsRemembered,
     Claimed, Expired, TakenIsIssued, Issued, RequestSteps, Unsigned
<1>5. SecondClaimIsLate'
  BY <1>0, DelegationAssumption DEF DelInv, DelTypeOK, DelShape, RightsEnd, SecondClaimIsLate,
     ClaimsRemembered, WorkedIsAdmitted, TakenIsIssued, Claimed, Admitted, Expired, Issued,
     RequestSteps, Unsigned
<1>6. WorkedIsAdmitted'
  BY <1>0, DelegationAssumption DEF DelInv, DelTypeOK, DelShape, RightsEnd, WorkedIsAdmitted,
     RequestSteps
<1>7. RightsSeenAgain'
  BY <1>0, DelegationAssumption DEF DelInv, DelTypeOK, DelShape, RightsEnd, RightsSeenAgain,
     WorkedIsAdmitted
<1>9. QED BY <1>1, <1>2, <1>3, <1>4, <1>5, <1>6, <1>7 DEF DelInv

LEMMA SignsKeeps ==
    ASSUME NEW k \in Assertions, DelInv, Signs(k)
    PROVE  DelInv'
<1>0. DelTypeOK /\ DelShape
  BY DEF DelInv
<1>1. DelTypeOK'
  BY <1>0, DelegationAssumption DEF DelInv, DelTypeOK, DelShape, Signs, Untouched, Issued,
     RequestSteps, Unsigned
<1>2. DelShape'
  BY <1>0, DelegationAssumption DEF DelInv, DelTypeOK, DelShape, Signs, Untouched, RequestSteps
<1>3. TakenIsIssued'
  BY <1>0, DelegationAssumption DEF DelInv, DelTypeOK, DelShape, Signs, Untouched,
     TakenIsIssued, Issued
<1>4. ClaimsRemembered'
  BY <1>0, DelegationAssumption DEF DelInv, DelTypeOK, DelShape, Signs, Untouched,
     ClaimsRemembered, Claimed, Expired, TakenIsIssued, Issued, RequestSteps, Unsigned
<1>5. SecondClaimIsLate'
  BY <1>0, DelegationAssumption DEF DelInv, DelTypeOK, DelShape, Signs, Untouched,
     SecondClaimIsLate, ClaimsRemembered, WorkedIsAdmitted, TakenIsIssued, Claimed, Admitted,
     Expired, Issued, RequestSteps, Unsigned
<1>6. WorkedIsAdmitted'
  BY <1>0, DelegationAssumption DEF DelInv, DelTypeOK, DelShape, Signs, Untouched,
     WorkedIsAdmitted, RequestSteps
<1>7. RightsSeenAgain'
  BY <1>0, DelegationAssumption DEF DelInv, DelTypeOK, DelShape, Signs, Untouched,
     RightsSeenAgain, WorkedIsAdmitted
<1>9. QED BY <1>1, <1>2, <1>3, <1>4, <1>5, <1>6, <1>7 DEF DelInv

LEMMA ArrivesKeeps ==
    ASSUME NEW r \in Copies, DelInv, Arrives(r)
    PROVE  DelInv'
<1>0. DelTypeOK /\ DelShape
  BY DEF DelInv
<1>1. DelTypeOK'
  BY <1>0, DelegationAssumption DEF DelInv, DelTypeOK, DelShape, Arrives, Reaches, Untouched,
     Issued, RequestSteps, Unsigned
<1>2. DelShape'
  BY <1>0, DelegationAssumption DEF DelInv, DelTypeOK, DelShape, Arrives, Reaches, Untouched,
     RequestSteps
<1>3. TakenIsIssued'
  BY <1>0, DelegationAssumption DEF DelInv, DelTypeOK, DelShape, Arrives, Reaches, Untouched,
     TakenIsIssued, Issued
<1>4. ClaimsRemembered'
  BY <1>0, DelegationAssumption DEF DelInv, DelTypeOK, DelShape, Arrives, Reaches, Untouched,
     ClaimsRemembered, Claimed, Expired, TakenIsIssued, Issued, RequestSteps, Unsigned
<1>5. SecondClaimIsLate'
  BY <1>0, DelegationAssumption DEF DelInv, DelTypeOK, DelShape, Arrives, Reaches, Untouched,
     SecondClaimIsLate, ClaimsRemembered, WorkedIsAdmitted, TakenIsIssued, Claimed, Admitted,
     Expired, Issued, RequestSteps, Unsigned
<1>6. WorkedIsAdmitted'
  BY <1>0, DelegationAssumption DEF DelInv, DelTypeOK, DelShape, Arrives, Reaches, Untouched,
     WorkedIsAdmitted, RequestSteps
<1>7. RightsSeenAgain'
  BY <1>0, DelegationAssumption DEF DelInv, DelTypeOK, DelShape, Arrives, Reaches, Untouched,
     RightsSeenAgain, WorkedIsAdmitted
<1>9. QED BY <1>1, <1>2, <1>3, <1>4, <1>5, <1>6, <1>7 DEF DelInv

LEMMA ClaimsKeeps ==
    ASSUME NEW r \in Copies, DelInv, Claims(r)
    PROVE  DelInv'
<1>0. DelTypeOK /\ DelShape
  BY DEF DelInv
<1>1. DelTypeOK'
  <2> DEFINE k == CallOf(r)
             to == Receiver(k)
             remembered == {j \in seen[to] : ~Expired(j)}
  <2>1. k \in Assertions /\ to \in Panels /\ Issued(k)
    BY DelegationAssumption DEF DelInv, TakenIsIssued, Claims
  <2>2. signedAt' = signedAt /\ moment' = moment /\ granted' = granted /\ trusting' = trusting
        /\ worked' = worked /\ inForce' = inForce
    BY DEF Claims, Untouched
  <2>3. \/ seen' = [seen EXCEPT ![to] = remembered]
        \/ seen' = [seen EXCEPT ![to] = remembered \cup {k}]
    BY DEF Claims
  <2>4. ASSUME NEW p \in Panels
        PROVE  seen'[p] \subseteq {j \in Assertions : Receiver(j) = p /\ signedAt[j] # Unsigned}
    <3>1. seen[p] \subseteq {j \in Assertions : Receiver(j) = p /\ signedAt[j] # Unsigned}
      BY <1>0 DEF DelTypeOK, Issued
    <3>2. seen'[p] \subseteq seen[p] \/ (p = to /\ seen'[p] \subseteq seen[p] \cup {k})
      BY <1>0, <2>1, <2>3 DEF DelShape
    <3>3. QED BY <3>1, <3>2, <2>1 DEF Issued
  <2>5. \A c \in Copies : progress'[c] \in RequestSteps
    BY <1>0 DEF Claims, Reaches, DelShape, RequestSteps
  <2>6. QED BY <1>0, <2>2, <2>4, <2>5 DEF DelTypeOK, Issued, Unsigned
<1>2. DelShape'
  BY <1>0, DelegationAssumption DEF DelInv, DelTypeOK, DelShape, Claims, Reaches, Untouched,
     RequestSteps
<1>3. TakenIsIssued'
  BY <1>0, DelegationAssumption DEF DelInv, DelTypeOK, DelShape, Claims, Reaches, Untouched,
     TakenIsIssued, Issued
<1>4. ClaimsRemembered'
  BY <1>0, DelegationAssumption DEF DelInv, DelTypeOK, DelShape, Claims, Reaches, Untouched,
     ClaimsRemembered, Claimed, Expired, TakenIsIssued, Issued, RequestSteps, Unsigned
<1>5. SecondClaimIsLate'
  BY <1>0, DelegationAssumption DEF DelInv, DelTypeOK, DelShape, Claims, Reaches, Untouched,
     SecondClaimIsLate, ClaimsRemembered, WorkedIsAdmitted, TakenIsIssued, Claimed, Admitted,
     Expired, Issued, RequestSteps, Unsigned
<1>6. WorkedIsAdmitted'
  BY <1>0, DelegationAssumption DEF DelInv, DelTypeOK, DelShape, Claims, Reaches, Untouched,
     WorkedIsAdmitted, RequestSteps
<1>7. RightsSeenAgain'
  BY <1>0, DelegationAssumption DEF DelInv, DelTypeOK, DelShape, Claims, Reaches, Untouched,
     RightsSeenAgain, WorkedIsAdmitted
<1>9. QED BY <1>1, <1>2, <1>3, <1>4, <1>5, <1>6, <1>7 DEF DelInv

LEMMA AsksPeerKeeps ==
    ASSUME NEW r \in Copies, DelInv, AsksPeer(r)
    PROVE  DelInv'
<1>0. DelTypeOK /\ DelShape
  BY DEF DelInv
<1>1. DelTypeOK'
  BY <1>0, DelegationAssumption DEF DelInv, DelTypeOK, DelShape, AsksPeer, Reaches, Untouched,
     Issued, RequestSteps, Unsigned
<1>2. DelShape'
  BY <1>0, DelegationAssumption DEF DelInv, DelTypeOK, DelShape, AsksPeer, Reaches, Untouched,
     RequestSteps
<1>3. TakenIsIssued'
  BY <1>0, DelegationAssumption DEF DelInv, DelTypeOK, DelShape, AsksPeer, Reaches, Untouched,
     TakenIsIssued, Issued
<1>4. ClaimsRemembered'
  BY <1>0, DelegationAssumption DEF DelInv, DelTypeOK, DelShape, AsksPeer, Reaches, Untouched,
     ClaimsRemembered, Claimed, Expired, TakenIsIssued, Issued, RequestSteps, Unsigned
<1>5. SecondClaimIsLate'
  BY <1>0, DelegationAssumption DEF DelInv, DelTypeOK, DelShape, AsksPeer, Reaches, Untouched,
     SecondClaimIsLate, ClaimsRemembered, WorkedIsAdmitted, TakenIsIssued, Claimed, Admitted,
     Expired, Issued, RequestSteps, Unsigned
<1>6. WorkedIsAdmitted'
  BY <1>0, DelegationAssumption DEF DelInv, DelTypeOK, DelShape, AsksPeer, Reaches, Untouched,
     WorkedIsAdmitted, RequestSteps
<1>7. RightsSeenAgain'
  BY <1>0, DelegationAssumption DEF DelInv, DelTypeOK, DelShape, AsksPeer, Reaches, Untouched,
     RightsSeenAgain, WorkedIsAdmitted
<1>9. QED BY <1>1, <1>2, <1>3, <1>4, <1>5, <1>6, <1>7 DEF DelInv

LEMMA HearsKeeps ==
    ASSUME NEW r \in Copies, DelInv, Hears(r)
    PROVE  DelInv'
<1>0. DelTypeOK /\ DelShape
  BY DEF DelInv
<1>1. DelTypeOK'
  BY <1>0, DelegationAssumption DEF DelInv, DelTypeOK, DelShape, Hears, Reaches, Untouched,
     Asking, Issued, RequestSteps, Unsigned
<1>2. DelShape'
  BY <1>0, DelegationAssumption DEF DelInv, DelTypeOK, DelShape, Hears, Reaches, Untouched,
     Asking, RequestSteps
<1>3. TakenIsIssued'
  BY <1>0, DelegationAssumption DEF DelInv, DelTypeOK, DelShape, Hears, Reaches, Untouched,
     Asking, TakenIsIssued, Issued
<1>4. ClaimsRemembered'
  BY <1>0, DelegationAssumption DEF DelInv, DelTypeOK, DelShape, Hears, Reaches, Untouched,
     Asking, ClaimsRemembered, Claimed, Expired, TakenIsIssued, Issued, RequestSteps, Unsigned
<1>5. SecondClaimIsLate'
  BY <1>0, DelegationAssumption DEF DelInv, DelTypeOK, DelShape, Hears, Reaches, Untouched,
     Asking, SecondClaimIsLate, ClaimsRemembered, WorkedIsAdmitted, TakenIsIssued, Claimed,
     Admitted, Expired, Issued, RequestSteps, Unsigned
<1>6. WorkedIsAdmitted'
  BY <1>0, DelegationAssumption DEF DelInv, DelTypeOK, DelShape, Hears, Reaches, Untouched,
     Asking, WorkedIsAdmitted, RequestSteps
<1>7. RightsSeenAgain'
  BY <1>0, DelegationAssumption DEF DelInv, DelTypeOK, DelShape, Hears, Reaches, Untouched,
     Asking, RightsSeenAgain, WorkedIsAdmitted
<1>9. QED BY <1>1, <1>2, <1>3, <1>4, <1>5, <1>6, <1>7 DEF DelInv

LEMMA ProceedsKeeps ==
    ASSUME NEW r \in Copies, DelInv, Proceeds(r)
    PROVE  DelInv'
<1>0. DelTypeOK /\ DelShape
  BY DEF DelInv
<1>1. DelTypeOK'
  BY <1>0, DelegationAssumption DEF DelInv, DelTypeOK, DelShape, Proceeds, Reaches, Untouched,
     StillCurrent, Issued, RequestSteps, Unsigned
<1>2. DelShape'
  BY <1>0, DelegationAssumption DEF DelInv, DelTypeOK, DelShape, Proceeds, Reaches, Untouched,
     StillCurrent, RequestSteps
<1>3. TakenIsIssued'
  BY <1>0, DelegationAssumption DEF DelInv, DelTypeOK, DelShape, Proceeds, Reaches, Untouched,
     StillCurrent, TakenIsIssued, Issued
<1>4. ClaimsRemembered'
  BY <1>0, DelegationAssumption DEF DelInv, DelTypeOK, DelShape, Proceeds, Reaches, Untouched,
     StillCurrent, ClaimsRemembered, Claimed, Expired, TakenIsIssued, Issued, RequestSteps,
     Unsigned
<1>5. SecondClaimIsLate'
  BY <1>0, DelegationAssumption DEF DelInv, DelTypeOK, DelShape, Proceeds, Reaches, Untouched,
     StillCurrent, SecondClaimIsLate, ClaimsRemembered, WorkedIsAdmitted, TakenIsIssued,
     Claimed, Admitted, Expired, Issued, RequestSteps, Unsigned
<1>6. WorkedIsAdmitted'
  BY <1>0, DelegationAssumption DEF DelInv, DelTypeOK, DelShape, Proceeds, Reaches, Untouched,
     StillCurrent, WorkedIsAdmitted, RequestSteps
<1>7. RightsSeenAgain'
  BY <1>0, DelegationAssumption DEF DelInv, DelTypeOK, DelShape, Proceeds, Reaches, Untouched,
     StillCurrent, RightsSeenAgain, WorkedIsAdmitted
<1>9. QED BY <1>1, <1>2, <1>3, <1>4, <1>5, <1>6, <1>7 DEF DelInv

LEMMA WorksKeeps ==
    ASSUME NEW r \in Copies, DelInv, Works(r)
    PROVE  DelInv'
<1>0. DelTypeOK /\ DelShape
  BY DEF DelInv
<1>1. DelTypeOK'
  BY <1>0, DelegationAssumption DEF DelInv, DelTypeOK, DelShape, Works, Reaches, Untouched,
     AfterWork, Issued, RequestSteps, Unsigned
<1>2. DelShape'
  BY <1>0, DelegationAssumption DEF DelInv, DelTypeOK, DelShape, Works, Reaches, Untouched,
     AfterWork, RequestSteps
<1>3. TakenIsIssued'
  BY <1>0, DelegationAssumption DEF DelInv, DelTypeOK, DelShape, Works, Reaches, Untouched,
     AfterWork, TakenIsIssued, Issued
<1>4. ClaimsRemembered'
  BY <1>0, DelegationAssumption DEF DelInv, DelTypeOK, DelShape, Works, Reaches, Untouched,
     AfterWork, ClaimsRemembered, Claimed, Expired, TakenIsIssued, Issued, RequestSteps,
     Unsigned
<1>5. SecondClaimIsLate'
  BY <1>0, DelegationAssumption DEF DelInv, DelTypeOK, DelShape, Works, Reaches, Untouched,
     AfterWork, SecondClaimIsLate, ClaimsRemembered, WorkedIsAdmitted, TakenIsIssued, Claimed,
     Admitted, Expired, Issued, RequestSteps, Unsigned
<1>6. WorkedIsAdmitted'
  BY <1>0, DelegationAssumption DEF DelInv, DelTypeOK, DelShape, Works, Reaches, Untouched,
     AfterWork, WorkedIsAdmitted, RequestSteps
<1>7. RightsSeenAgain'
  BY <1>0, DelegationAssumption DEF DelInv, DelTypeOK, DelShape, Works, Reaches, Untouched,
     AfterWork, RightsSeenAgain, WorkedIsAdmitted
<1>9. QED BY <1>1, <1>2, <1>3, <1>4, <1>5, <1>6, <1>7 DEF DelInv

LEMMA DelStuttersKeep == ASSUME DelInv, UNCHANGED delVars PROVE DelInv'
BY DEF DelInv, DelTypeOK, DelShape, TakenIsIssued, ClaimsRemembered, SecondClaimIsLate,
       WorkedIsAdmitted, RightsSeenAgain, Claimed, Admitted, Issued, Expired, delVars

\* Whoever is worked for was admitted under a claim that is remembered for as long as its
\* call may come again (mcp-delegation.ts:362, 508).
THEOREM DelegationInvariance == DelSpec => []DelInv
<1>1. ASSUME DelInv, [DelNext]_delVars PROVE DelInv'
  BY <1>1, PassesKeeps, RightsEndKeeps, SignsKeeps, ArrivesKeeps, ClaimsKeeps, AsksPeerKeeps,
     HearsKeeps, ProceedsKeeps, WorksKeeps, DelStuttersKeep DEF DelNext, Serves
<1>2. QED BY <1>1, DelInvInit, PTL DEF DelSpec

\* A signed call is worked once, and a result given out was worked under rights that were in
\* force when its work ended, for any panels, copies and lifetimes (mcp-delegation.ts:482-565).
THEOREM DelegatedWorkIsInForce == DelSpec => []DelegatedInForce
<1>1. DelInv => DelTypeOK /\ WorkedOnce /\ ResultsInForce
  BY DEF DelInv, DelTypeOK, WorkedOnce, ResultsInForce, SecondClaimIsLate, Admitted,
     RightsSeenAgain
<1>2. QED BY <1>1, DelegationInvariance, PTL DEF DelegatedInForce

----------------------------------------------------------------------------
(* The counted rows of the log *)

AuditGroup == [attempts : Nat, written : Nat, timer : BOOLEAN,
               listed : BOOLEAN, chained : Nat, through : Nat,
               taking : Nat \cup {NotWriting}]
FlushSteps == {"idle", "waits", "read"}
AuditFlush == [at : FlushSteps, until : [Groups -> Nat], owed : [Groups -> Nat]]
AuditShape ==
    /\ current \in Groups \cup {NoGroup} /\ writeFaults \in 0..MaxWriteFaults
    /\ counts \in [Groups -> AuditGroup]
    /\ rows \in [Groups -> Nat] /\ givenUp \in [Groups -> Nat]
    /\ flushes \in [Readers -> AuditFlush]

\* A group that is not listed with a timer has a write in its chain still to begin, or one
\* that took everything counted.
Covered(group) ==
    \/ group.listed /\ group.timer
    \/ group.taking = group.attempts
    \/ group.taking = NotWriting /\ group.written = group.attempts
    \/ group.taking = NotWriting /\ group.through < group.chained
    \/ group.through + 1 < group.chained
\* What is written never falls, and is in the row or given up.
GroupKept(group, row, given) ==
    /\ group.written <= group.attempts /\ group.through <= group.chained
    /\ group.taking # NotWriting =>
         /\ group.through < group.chained
         /\ group.written <= group.taking /\ group.taking <= group.attempts
    /\ row <= group.written /\ given <= group.written
    /\ row = group.written \/ given = group.written
    /\ Covered(group)
GroupsKept == \A g \in Groups : GroupKept(counts[g], rows[g], givenUp[g])

\* What a reader waits for covers what was counted when its flush began.
Covers(at, until, owed, group, row, given) ==
    \/ owed <= row \/ owed <= given
    \/ /\ at = "waits"
       /\ owed <= group.attempts /\ until = group.through + 1
       /\ group.taking # NotWriting => owed <= group.taking
FlushCovers ==
    \A p \in Readers, g \in Groups : flushes[p].at # "idle" =>
        Covers(flushes[p].at, flushes[p].until[g], flushes[p].owed[g],
               counts[g], rows[g], givenUp[g])

AuditInvariant == AuditShape /\ GroupsKept /\ FlushCovers

LEMMA AuditInvariantInit == AuditInit => AuditInvariant
<1>1. ASSUME AuditInit PROVE AuditShape
  BY <1>1, AuditBoundsAssumption DEF AuditInit, AuditShape, AuditGroup, AuditFlush,
     FlushSteps, NewGroup, NoFlush,
     Groups, NoGroup, NotWriting
<1>2. ASSUME AuditInit PROVE GroupsKept /\ FlushCovers
  BY <1>2 DEF AuditInit, GroupsKept, GroupKept, Covered, FlushCovers, NewGroup, NoFlush,
     NotWriting
<1>3. QED BY <1>1, <1>2 DEF AuditInvariant

\* Each change of a group keeps it, and what a reader waits for in it.
LEMMA CountedAgain ==
    ASSUME NEW group \in AuditGroup, NEW row \in Nat, NEW given \in Nat,
           GroupKept(group, row, given)
    PROVE  /\ Timed([group EXCEPT !.attempts = group.attempts + 1]) \in AuditGroup
           /\ GroupKept(Timed([group EXCEPT !.attempts = group.attempts + 1]), row, given)
           /\ \A at \in FlushSteps, until \in Nat, owed \in Nat :
                Covers(at, until, owed, group, row, given)
                => Covers(at, until, owed,
                          Timed([group EXCEPT !.attempts = group.attempts + 1]), row, given)
<1> DEFINE new == Timed([group EXCEPT !.attempts = group.attempts + 1])
<1>1. /\ new \in AuditGroup /\ new.attempts = group.attempts + 1
      /\ new.written = group.written /\ new.timer = TRUE /\ new.listed = TRUE
      /\ new.chained = group.chained /\ new.through = group.through
      /\ new.taking = group.taking
  <2>1. new \in AuditGroup
    <3>1. group.attempts + 1 \in Nat /\ group.chained + 1 \in Nat /\ group.through + 1 \in Nat
      BY DEF AuditGroup
    <3>2. group.taking # NotWriting => group.taking \in Nat
      BY DEF AuditGroup
    <3>3. QED BY <3>1, <3>2 DEF AuditGroup, Timed
  <2>2. new.attempts = group.attempts + 1
    BY DEF AuditGroup, Timed
  <2>3. new.written = group.written
    BY DEF AuditGroup, Timed
  <2>4. new.timer = TRUE
    BY DEF AuditGroup, Timed
  <2>5. new.listed = TRUE
    BY DEF AuditGroup, Timed
  <2>6. new.chained = group.chained
    BY DEF AuditGroup, Timed
  <2>7. new.through = group.through
    BY DEF AuditGroup, Timed
  <2>8. new.taking = group.taking
    BY DEF AuditGroup, Timed
  <2> HIDE DEF new
  <2>9. QED BY <2>1, <2>2, <2>3, <2>4, <2>5, <2>6, <2>7, <2>8
<1> HIDE DEF new
<1>2. GroupKept(new, row, given)
  BY <1>1 DEF GroupKept, Covered, AuditGroup, NotWriting
<1>3. ASSUME NEW at \in FlushSteps, NEW until \in Nat, NEW owed \in Nat,
             Covers(at, until, owed, group, row, given)
      PROVE  Covers(at, until, owed, new, row, given)
  BY <1>1, <1>3 DEF GroupKept, Covered, Covers, AuditGroup, NotWriting
<1>4. QED BY <1>1, <1>2, <1>3 DEF new

LEMMA TimerWrites ==
    ASSUME NEW group \in AuditGroup, NEW row \in Nat, NEW given \in Nat,
           GroupKept(group, row, given)
    PROVE  /\ [group EXCEPT !.timer = FALSE, !.chained = @ + 1] \in AuditGroup
           /\ GroupKept([group EXCEPT !.timer = FALSE, !.chained = @ + 1], row, given)
           /\ \A at \in FlushSteps, until \in Nat, owed \in Nat :
                Covers(at, until, owed, group, row, given)
                => Covers(at, until, owed,
                          [group EXCEPT !.timer = FALSE, !.chained = @ + 1], row, given)
<1> DEFINE new == [group EXCEPT !.timer = FALSE, !.chained = @ + 1]
<1>1. /\ new \in AuditGroup /\ new.attempts = group.attempts /\ new.written = group.written
      /\ new.timer = FALSE /\ new.listed = group.listed /\ new.chained = group.chained + 1
      /\ new.through = group.through /\ new.taking = group.taking
  <2>1. new \in AuditGroup
    <3>1. group.attempts + 1 \in Nat /\ group.chained + 1 \in Nat /\ group.through + 1 \in Nat
      BY DEF AuditGroup
    <3>2. group.taking # NotWriting => group.taking \in Nat
      BY DEF AuditGroup
    <3>3. QED BY <3>1, <3>2 DEF AuditGroup
  <2>2. new.attempts = group.attempts
    BY DEF AuditGroup
  <2>3. new.written = group.written
    BY DEF AuditGroup
  <2>4. new.timer = FALSE
    BY DEF AuditGroup
  <2>5. new.listed = group.listed
    BY DEF AuditGroup
  <2>6. new.chained = group.chained + 1
    BY DEF AuditGroup
  <2>7. new.through = group.through
    BY DEF AuditGroup
  <2>8. new.taking = group.taking
    BY DEF AuditGroup
  <2> HIDE DEF new
  <2>9. QED BY <2>1, <2>2, <2>3, <2>4, <2>5, <2>6, <2>7, <2>8
<1> HIDE DEF new
<1>2. GroupKept(new, row, given)
  BY <1>1 DEF GroupKept, Covered, AuditGroup, NotWriting
<1>3. ASSUME NEW at \in FlushSteps, NEW until \in Nat, NEW owed \in Nat,
             Covers(at, until, owed, group, row, given)
      PROVE  Covers(at, until, owed, new, row, given)
  BY <1>1, <1>3 DEF GroupKept, Covered, Covers, AuditGroup, NotWriting
<1>4. QED BY <1>1, <1>2, <1>3 DEF new

LEMMA NothingToWrite ==
    ASSUME NEW group \in AuditGroup, NEW row \in Nat, NEW given \in Nat,
           GroupKept(group, row, given), group.through < group.chained, group.taking = NotWriting,
           group.written = group.attempts
    PROVE  /\ [group EXCEPT !.through = @ + 1, !.listed = FALSE] \in AuditGroup
           /\ GroupKept([group EXCEPT !.through = @ + 1, !.listed = FALSE], row, given)
           /\ \A at \in FlushSteps, until \in Nat, owed \in Nat :
                Covers(at, until, owed, group, row, given)
                => Covers(at, until, owed,
                          [group EXCEPT !.through = @ + 1, !.listed = FALSE], row, given)
<1> DEFINE new == [group EXCEPT !.through = @ + 1, !.listed = FALSE]
<1>1. /\ new \in AuditGroup /\ new.attempts = group.attempts /\ new.written = group.written
      /\ new.timer = group.timer /\ new.listed = FALSE /\ new.chained = group.chained
      /\ new.through = group.through + 1 /\ new.taking = group.taking
  <2>1. new \in AuditGroup
    <3>1. group.attempts + 1 \in Nat /\ group.chained + 1 \in Nat /\ group.through + 1 \in Nat
      BY DEF AuditGroup
    <3>2. group.taking # NotWriting => group.taking \in Nat
      BY DEF AuditGroup
    <3>3. QED BY <3>1, <3>2 DEF AuditGroup
  <2>2. new.attempts = group.attempts
    BY DEF AuditGroup
  <2>3. new.written = group.written
    BY DEF AuditGroup
  <2>4. new.timer = group.timer
    BY DEF AuditGroup
  <2>5. new.listed = FALSE
    BY DEF AuditGroup
  <2>6. new.chained = group.chained
    BY DEF AuditGroup
  <2>7. new.through = group.through + 1
    BY DEF AuditGroup
  <2>8. new.taking = group.taking
    BY DEF AuditGroup
  <2> HIDE DEF new
  <2>9. QED BY <2>1, <2>2, <2>3, <2>4, <2>5, <2>6, <2>7, <2>8
<1> HIDE DEF new
<1>2. GroupKept(new, row, given)
  BY <1>1 DEF GroupKept, Covered, AuditGroup, NotWriting
<1>3. ASSUME NEW at \in FlushSteps, NEW until \in Nat, NEW owed \in Nat,
             Covers(at, until, owed, group, row, given)
      PROVE  Covers(at, until, owed, new, row, given)
  BY <1>1, <1>3 DEF GroupKept, Covered, Covers, AuditGroup, NotWriting
<1>4. QED BY <1>1, <1>2, <1>3 DEF new

LEMMA TakesCount ==
    ASSUME NEW group \in AuditGroup, NEW row \in Nat, NEW given \in Nat,
           GroupKept(group, row, given), group.through < group.chained, group.taking = NotWriting
    PROVE  /\ [group EXCEPT !.taking = group.attempts] \in AuditGroup
           /\ GroupKept([group EXCEPT !.taking = group.attempts], row, given)
           /\ \A at \in FlushSteps, until \in Nat, owed \in Nat :
                Covers(at, until, owed, group, row, given)
                => Covers(at, until, owed, [group EXCEPT !.taking = group.attempts], row, given)
<1> DEFINE new == [group EXCEPT !.taking = group.attempts]
<1>1. /\ new \in AuditGroup /\ new.attempts = group.attempts /\ new.written = group.written
      /\ new.timer = group.timer /\ new.listed = group.listed /\ new.chained = group.chained
      /\ new.through = group.through /\ new.taking = group.attempts
  <2>1. new \in AuditGroup
    <3>1. group.attempts + 1 \in Nat /\ group.chained + 1 \in Nat /\ group.through + 1 \in Nat
      BY DEF AuditGroup
    <3>2. group.taking # NotWriting => group.taking \in Nat
      BY DEF AuditGroup
    <3>3. QED BY <3>1, <3>2 DEF AuditGroup
  <2>2. new.attempts = group.attempts
    BY DEF AuditGroup
  <2>3. new.written = group.written
    BY DEF AuditGroup
  <2>4. new.timer = group.timer
    BY DEF AuditGroup
  <2>5. new.listed = group.listed
    BY DEF AuditGroup
  <2>6. new.chained = group.chained
    BY DEF AuditGroup
  <2>7. new.through = group.through
    BY DEF AuditGroup
  <2>8. new.taking = group.attempts
    BY DEF AuditGroup
  <2> HIDE DEF new
  <2>9. QED BY <2>1, <2>2, <2>3, <2>4, <2>5, <2>6, <2>7, <2>8
<1> HIDE DEF new
<1>2. GroupKept(new, row, given)
  BY <1>1 DEF GroupKept, Covered, AuditGroup, NotWriting
<1>3. ASSUME NEW at \in FlushSteps, NEW until \in Nat, NEW owed \in Nat,
             Covers(at, until, owed, group, row, given)
      PROVE  Covers(at, until, owed, new, row, given)
  BY <1>1, <1>3 DEF GroupKept, Covered, Covers, AuditGroup, NotWriting
<1>4. QED BY <1>1, <1>2, <1>3 DEF new

LEMMA WritesCount ==
    ASSUME NEW group \in AuditGroup, NEW row \in Nat, NEW given \in Nat,
           GroupKept(group, row, given), group.taking # NotWriting
    PROVE  /\ Unlisted([group EXCEPT !.through = @ + 1, !.taking = NotWriting,
                                     !.written = group.taking]) \in AuditGroup
           /\ GroupKept(Unlisted([group EXCEPT !.through = @ + 1, !.taking = NotWriting,
                                               !.written = group.taking]), group.taking, given)
           /\ \A at \in FlushSteps, until \in Nat, owed \in Nat :
                Covers(at, until, owed, group, row, given)
                => Covers(at, until, owed,
                          Unlisted([group EXCEPT !.through = @ + 1, !.taking = NotWriting,
                                                 !.written = group.taking]), group.taking, given)
<1> DEFINE new == Unlisted([group EXCEPT !.through = @ + 1, !.taking = NotWriting,
                                         !.written = group.taking])
<1>1. /\ new \in AuditGroup /\ new.attempts = group.attempts /\ new.written = group.taking
      /\ new.timer = group.timer /\ new.listed = (group.listed /\ group.timer)
      /\ new.chained = group.chained /\ new.through = group.through + 1
      /\ new.taking = NotWriting
  <2>1. new \in AuditGroup
    <3>1. group.attempts + 1 \in Nat /\ group.chained + 1 \in Nat /\ group.through + 1 \in Nat
      BY DEF AuditGroup
    <3>2. group.taking # NotWriting => group.taking \in Nat
      BY DEF AuditGroup
    <3>3. QED BY <3>1, <3>2 DEF AuditGroup, Unlisted
  <2>2. new.attempts = group.attempts
    BY DEF AuditGroup, Unlisted
  <2>3. new.written = group.taking
    BY DEF AuditGroup, Unlisted
  <2>4. new.timer = group.timer
    BY DEF AuditGroup, Unlisted
  <2>5. new.listed = (group.listed /\ group.timer)
    BY DEF AuditGroup, Unlisted
  <2>6. new.chained = group.chained
    BY DEF AuditGroup, Unlisted
  <2>7. new.through = group.through + 1
    BY DEF AuditGroup, Unlisted
  <2>8. new.taking = NotWriting
    BY DEF AuditGroup, Unlisted
  <2> HIDE DEF new
  <2>9. QED BY <2>1, <2>2, <2>3, <2>4, <2>5, <2>6, <2>7, <2>8
<1> HIDE DEF new
<1>2. GroupKept(new, group.taking, given)
  BY <1>1 DEF GroupKept, Covered, AuditGroup, NotWriting
<1>3. ASSUME NEW at \in FlushSteps, NEW until \in Nat, NEW owed \in Nat,
             Covers(at, until, owed, group, row, given)
      PROVE  Covers(at, until, owed, new, group.taking, given)
  BY <1>1, <1>3 DEF GroupKept, Covered, Covers, AuditGroup, NotWriting
<1>4. QED BY <1>1, <1>2, <1>3 DEF new

LEMMA GivesUp ==
    ASSUME NEW group \in AuditGroup, NEW row \in Nat, NEW given \in Nat,
           GroupKept(group, row, given), group.taking # NotWriting
    PROVE  /\ Unlisted([group EXCEPT !.through = @ + 1, !.taking = NotWriting,
                                     !.written = group.taking]) \in AuditGroup
           /\ GroupKept(Unlisted([group EXCEPT !.through = @ + 1, !.taking = NotWriting,
                                               !.written = group.taking]), row, group.taking)
           /\ \A at \in FlushSteps, until \in Nat, owed \in Nat :
                Covers(at, until, owed, group, row, given)
                => Covers(at, until, owed,
                          Unlisted([group EXCEPT !.through = @ + 1, !.taking = NotWriting,
                                                 !.written = group.taking]), row, group.taking)
<1> DEFINE new == Unlisted([group EXCEPT !.through = @ + 1, !.taking = NotWriting,
                                         !.written = group.taking])
<1>1. /\ new \in AuditGroup /\ new.attempts = group.attempts /\ new.written = group.taking
      /\ new.timer = group.timer /\ new.listed = (group.listed /\ group.timer)
      /\ new.chained = group.chained /\ new.through = group.through + 1
      /\ new.taking = NotWriting
  <2>1. new \in AuditGroup
    <3>1. group.attempts + 1 \in Nat /\ group.chained + 1 \in Nat /\ group.through + 1 \in Nat
      BY DEF AuditGroup
    <3>2. group.taking # NotWriting => group.taking \in Nat
      BY DEF AuditGroup
    <3>3. QED BY <3>1, <3>2 DEF AuditGroup, Unlisted
  <2>2. new.attempts = group.attempts
    BY DEF AuditGroup, Unlisted
  <2>3. new.written = group.taking
    BY DEF AuditGroup, Unlisted
  <2>4. new.timer = group.timer
    BY DEF AuditGroup, Unlisted
  <2>5. new.listed = (group.listed /\ group.timer)
    BY DEF AuditGroup, Unlisted
  <2>6. new.chained = group.chained
    BY DEF AuditGroup, Unlisted
  <2>7. new.through = group.through + 1
    BY DEF AuditGroup, Unlisted
  <2>8. new.taking = NotWriting
    BY DEF AuditGroup, Unlisted
  <2> HIDE DEF new
  <2>9. QED BY <2>1, <2>2, <2>3, <2>4, <2>5, <2>6, <2>7, <2>8
<1> HIDE DEF new
<1>2. GroupKept(new, row, group.taking)
  BY <1>1 DEF GroupKept, Covered, AuditGroup, NotWriting
<1>3. ASSUME NEW at \in FlushSteps, NEW until \in Nat, NEW owed \in Nat,
             Covers(at, until, owed, group, row, given)
      PROVE  Covers(at, until, owed, new, row, group.taking)
  BY <1>1, <1>3 DEF GroupKept, Covered, Covers, AuditGroup, NotWriting
<1>4. QED BY <1>1, <1>2, <1>3 DEF new

\* A step that changes one group, in a way that keeps it.
LEMMA GroupChangeKeeps ==
    ASSUME AuditInvariant, NEW g \in Groups, NEW new \in AuditGroup, NEW row \in Nat,
           NEW given \in Nat,
           GroupKept(new, row, given),
           \A at \in FlushSteps, until \in Nat, owed \in Nat :
                Covers(at, until, owed, counts[g], rows[g], givenUp[g])
                  => Covers(at, until, owed, new, row, given),
           counts' = [counts EXCEPT ![g] = new], rows' = [rows EXCEPT ![g] = row],
           givenUp' = [givenUp EXCEPT ![g] = given], flushes' = flushes,
           current' \in Groups \cup {NoGroup}, writeFaults' \in 0..MaxWriteFaults
    PROVE  AuditInvariant'
<1>1. AuditShape'
  BY DEF AuditInvariant, AuditShape
<1>2. ASSUME NEW h \in Groups
      PROVE  \/ h = g /\ counts'[h] = new /\ rows'[h] = row /\ givenUp'[h] = given
             \/ h # g /\ counts'[h] = counts[h] /\ rows'[h] = rows[h] /\ givenUp'[h] = givenUp[h]
  BY DEF AuditInvariant, AuditShape
<1>3. GroupsKept'
  <2>1. ASSUME NEW h \in Groups PROVE GroupKept(counts'[h], rows'[h], givenUp'[h])
    BY <1>2 DEF AuditInvariant, GroupsKept
  <2>2. QED BY <2>1 DEF GroupsKept
<1>4. FlushCovers'
  <2>1. ASSUME NEW p \in Readers, NEW h \in Groups, flushes[p].at # "idle"
        PROVE  Covers(flushes[p].at, flushes[p].until[h], flushes[p].owed[h],
                      counts'[h], rows'[h], givenUp'[h])
    <3>1. Covers(flushes[p].at, flushes[p].until[h], flushes[p].owed[h],
                 counts[h], rows[h], givenUp[h])
      BY <2>1 DEF AuditInvariant, FlushCovers
    <3>2. /\ flushes[p].at \in FlushSteps /\ flushes[p].until[h] \in Nat
          /\ flushes[p].owed[h] \in Nat
      <4>1. flushes[p] \in AuditFlush
        BY DEF AuditInvariant, AuditShape
      <4>2. flushes[p].at \in FlushSteps /\ flushes[p].until \in [Groups -> Nat]
            /\ flushes[p].owed \in [Groups -> Nat]
        BY <4>1 DEF AuditFlush, FlushSteps
      <4>3. QED BY <4>2
    <3>3. QED BY <1>2, <3>1, <3>2
  <2>2. QED BY <2>1 DEF FlushCovers
<1>5. QED BY <1>1, <1>3, <1>4 DEF AuditInvariant

LEMMA RowsStay ==
    ASSUME AuditInvariant, NEW g \in Groups
    PROVE  /\ counts[g] \in AuditGroup /\ rows[g] \in Nat /\ givenUp[g] \in Nat
           /\ GroupKept(counts[g], rows[g], givenUp[g])
           /\ rows = [rows EXCEPT ![g] = rows[g]]
           /\ givenUp = [givenUp EXCEPT ![g] = givenUp[g]]
           /\ current \in Groups \cup {NoGroup} /\ writeFaults \in 0..MaxWriteFaults
BY DEF AuditInvariant, AuditShape, GroupsKept

LEMMA RepeatedKeeps == ASSUME AuditInvariant, Repeated PROVE AuditInvariant'
<1>1. PICK g \in Groups : CountsAgain(g) /\ current' = g
  BY AuditBoundsAssumption DEF Repeated, AuditInvariant, AuditShape, Groups, NoGroup
<1>2. counts' = [counts EXCEPT ![g] = Timed([counts[g] EXCEPT !.attempts = counts[g].attempts + 1])]
  BY <1>1 DEF CountsAgain, Counted
<1>3. rows' = rows /\ flushes' = flushes /\ writeFaults' = writeFaults /\ givenUp' = givenUp
  BY DEF Repeated
<1> DEFINE new == Timed([counts[g] EXCEPT !.attempts = counts[g].attempts + 1])
<1>4. /\ new \in AuditGroup /\ GroupKept(new, rows[g], givenUp[g])
      /\ \A at \in FlushSteps, until \in Nat, owed \in Nat :
            Covers(at, until, owed, counts[g], rows[g], givenUp[g])
              => Covers(at, until, owed, new, rows[g], givenUp[g])
  BY RowsStay, CountedAgain
<1> HIDE DEF new
<1>5. counts' = [counts EXCEPT ![g] = new]
  BY <1>2 DEF new
<1>6. QED BY <1>1, <1>3, <1>4, <1>5, RowsStay, GroupChangeKeeps

LEMMA FiresKeeps == ASSUME AuditInvariant, NEW g \in Groups, Fires(g) PROVE AuditInvariant'
<1> DEFINE new == [counts[g] EXCEPT !.timer = FALSE, !.chained = @ + 1]
<1>1. counts' = [counts EXCEPT ![g] = new]
  BY DEF Fires
<1>2. /\ new \in AuditGroup /\ GroupKept(new, rows[g], givenUp[g])
      /\ \A at \in FlushSteps, until \in Nat, owed \in Nat :
            Covers(at, until, owed, counts[g], rows[g], givenUp[g])
              => Covers(at, until, owed, new, rows[g], givenUp[g])
  BY RowsStay, TimerWrites
<1> HIDE DEF new
<1>3. QED BY <1>1, <1>2, RowsStay, GroupChangeKeeps DEF Fires

LEMMA WriteBeginsKeeps ==
    ASSUME AuditInvariant, NEW g \in Groups, WriteBegins(g) PROVE AuditInvariant'
<1>1. counts[g].through < counts[g].chained /\ counts[g].taking = NotWriting
      /\ UNCHANGED <<current, rows, flushes, writeFaults, givenUp>>
  BY DEF WriteBegins
<1>2. CASE counts[g].written = counts[g].attempts
  <2> DEFINE new == [counts[g] EXCEPT !.through = @ + 1, !.listed = FALSE]
  <2>1. counts' = [counts EXCEPT ![g] = new]
    BY <1>2, RowsStay DEF WriteBegins, Counted, AuditGroup
  <2>2. /\ new \in AuditGroup /\ GroupKept(new, rows[g], givenUp[g])
        /\ \A at \in FlushSteps, until \in Nat, owed \in Nat :
            Covers(at, until, owed, counts[g], rows[g], givenUp[g])
              => Covers(at, until, owed, new, rows[g], givenUp[g])
    BY <1>1, <1>2, RowsStay, NothingToWrite
  <2> HIDE DEF new
  <2>3. QED BY <1>1, <2>1, <2>2, RowsStay, GroupChangeKeeps
<1>3. CASE counts[g].written # counts[g].attempts
  <2> DEFINE new == [counts[g] EXCEPT !.taking = counts[g].attempts]
  <2>1. counts' = [counts EXCEPT ![g] = new]
    BY <1>3, RowsStay DEF WriteBegins, Counted, AuditGroup
  <2>2. /\ new \in AuditGroup /\ GroupKept(new, rows[g], givenUp[g])
        /\ \A at \in FlushSteps, until \in Nat, owed \in Nat :
            Covers(at, until, owed, counts[g], rows[g], givenUp[g])
              => Covers(at, until, owed, new, rows[g], givenUp[g])
    BY <1>1, RowsStay, TakesCount
  <2> HIDE DEF new
  <2>3. QED BY <1>1, <2>1, <2>2, RowsStay, GroupChangeKeeps
<1>4. QED BY <1>2, <1>3

LEMMA WriteEndsKeeps == ASSUME AuditInvariant, NEW g \in Groups, WriteEnds(g) PROVE AuditInvariant'
<1> DEFINE new == Unlisted([counts[g] EXCEPT !.through = @ + 1, !.taking = NotWriting,
                                             !.written = counts[g].taking])
<1>1. counts[g].taking # NotWriting /\ current' = current /\ flushes' = flushes
      /\ counts' = [counts EXCEPT ![g] = new]
  BY DEF WriteEnds, Taken
<1>2. /\ new \in AuditGroup /\ GroupKept(new, counts[g].taking, givenUp[g])
      /\ \A at \in FlushSteps, until \in Nat, owed \in Nat :
            Covers(at, until, owed, counts[g], rows[g], givenUp[g])
            => Covers(at, until, owed, new, counts[g].taking, givenUp[g])
  BY <1>1, RowsStay, WritesCount
<1>3. /\ GroupKept(new, rows[g], counts[g].taking)
      /\ \A at \in FlushSteps, until \in Nat, owed \in Nat :
            Covers(at, until, owed, counts[g], rows[g], givenUp[g])
            => Covers(at, until, owed, new, rows[g], counts[g].taking)
  BY <1>1, RowsStay, GivesUp
<1>4. counts[g].taking \in Nat
  BY <1>1, RowsStay DEF AuditGroup
<1>5. \/ /\ rows' = [rows EXCEPT ![g] = counts[g].taking] /\ UNCHANGED <<writeFaults, givenUp>>
      \/ /\ writeFaults < MaxWriteFaults /\ writeFaults' = writeFaults + 1
         /\ givenUp' = [givenUp EXCEPT ![g] = counts[g].taking] /\ UNCHANGED rows
  BY DEF WriteEnds
<1> HIDE DEF new
<1>6. CASE rows' = [rows EXCEPT ![g] = counts[g].taking] /\ UNCHANGED <<writeFaults, givenUp>>
  BY <1>1, <1>2, <1>4, <1>6, RowsStay, GroupChangeKeeps
<1>7. CASE writeFaults < MaxWriteFaults /\ writeFaults' = writeFaults + 1
           /\ givenUp' = [givenUp EXCEPT ![g] = counts[g].taking] /\ UNCHANGED rows
  <2>1. writeFaults' \in 0..MaxWriteFaults
    BY <1>7, RowsStay, AuditBoundsAssumption
  <2>2. QED BY <1>1, <1>2, <1>3, <1>4, <1>7, <2>1, RowsStay, GroupChangeKeeps
<1>8. QED BY <1>5, <1>6, <1>7

LEMMA FlushBeginsKeeps ==
    ASSUME AuditInvariant, NEW p \in Readers, FlushBegins(p) PROVE AuditInvariant'
<1> DEFINE chained(g) == [counts[g] EXCEPT !.timer = FALSE, !.chained = @ + 1]
<1>1. rows' = rows /\ givenUp' = givenUp /\ current' = current /\ writeFaults' = writeFaults
  BY DEF FlushBegins
<1>2. ASSUME NEW g \in Groups
      PROVE  /\ counts[g] \in AuditGroup /\ rows[g] \in Nat /\ givenUp[g] \in Nat
             /\ GroupKept(counts[g], rows[g], givenUp[g])
             /\ chained(g) \in AuditGroup /\ GroupKept(chained(g), rows[g], givenUp[g])
             /\ \A at \in FlushSteps, until \in Nat, owed \in Nat :
                  Covers(at, until, owed, counts[g], rows[g], givenUp[g])
                  => Covers(at, until, owed, chained(g), rows[g], givenUp[g])
  BY RowsStay, TimerWrites
<1>3. ASSUME NEW g \in Groups
      PROVE  /\ counts[g].listed /\ counts[g].timer => counts'[g] = chained(g)
             /\ ~(counts[g].listed /\ counts[g].timer) => counts'[g] = counts[g]
  BY DEF FlushBegins
<1>4. /\ flushes' = [flushes EXCEPT ![p] =
         [at |-> "waits",
          until |-> [g \in Groups |-> IF g \in {h \in Groups : counts[h].listed} THEN counts'[g].chained
                                      ELSE 0],
          owed |-> [g \in Groups |->
             IF counts[g].through = counts[g].chained THEN counts[g].attempts ELSE 0]]]
      /\ counts' = [g \in Groups |-> counts'[g]]
  BY DEF FlushBegins, Counted
<1>5. \A g \in Groups : /\ chained(g).chained = counts[g].chained + 1
                        /\ chained(g).attempts = counts[g].attempts
        /\ chained(g).through = counts[g].through /\ chained(g).taking = counts[g].taking
  BY <1>2 DEF AuditGroup
<1> HIDE DEF chained
<1>6. ASSUME NEW g \in Groups
      PROVE  /\ counts'[g] \in AuditGroup /\ GroupKept(counts'[g], rows[g], givenUp[g])
             /\ \A at \in FlushSteps, until \in Nat, owed \in Nat :
                  Covers(at, until, owed, counts[g], rows[g], givenUp[g])
                  => Covers(at, until, owed, counts'[g], rows[g], givenUp[g])
  BY <1>2, <1>3
<1>7. ASSUME NEW g \in Groups
      PROVE  /\ counts[g].attempts \in Nat /\ counts'[g].chained \in Nat
             /\ counts[g].through \in Nat /\ counts[g].chained \in Nat
  BY <1>2, <1>6 DEF AuditGroup
<1>8. AuditShape'
  <2>1. counts' \in [Groups -> AuditGroup]
    BY <1>4, <1>6
  <2>2. flushes' \in [Readers -> AuditFlush]
    BY <1>4, <1>7 DEF AuditInvariant, AuditShape, AuditFlush, FlushSteps
  <2>3. QED BY <1>1, <2>1, <2>2 DEF AuditInvariant, AuditShape
<1>9. GroupsKept'
  BY <1>1, <1>6 DEF GroupsKept
<1>10. ASSUME NEW q \in Readers, NEW g \in Groups, flushes'[q].at # "idle"
       PROVE  Covers(flushes'[q].at, flushes'[q].until[g], flushes'[q].owed[g],
                     counts'[g], rows[g], givenUp[g])
  <2>1. CASE q # p
    <3>1. flushes'[q] = flushes[q] /\ flushes[q] \in AuditFlush
      BY <1>4, <2>1 DEF AuditInvariant, AuditShape
    <3>2. /\ flushes[q].at \in FlushSteps /\ flushes[q].until[g] \in Nat
          /\ flushes[q].owed[g] \in Nat
      <4>1. flushes[q].at \in FlushSteps /\ flushes[q].until \in [Groups -> Nat]
            /\ flushes[q].owed \in [Groups -> Nat]
        BY <3>1 DEF AuditFlush
      <4>2. QED BY <4>1
    <3>3. Covers(flushes[q].at, flushes[q].until[g], flushes[q].owed[g],
                 counts[g], rows[g], givenUp[g])
      BY <1>10, <3>1 DEF AuditInvariant, FlushCovers
    <3>4. QED BY <1>6, <3>1, <3>2, <3>3
  <2>2. CASE q = p
    <3>1. /\ flushes'[p].at = "waits"
          /\ flushes'[p].until[g] = IF counts[g].listed THEN counts'[g].chained ELSE 0
          /\ flushes'[p].owed[g] = IF counts[g].through = counts[g].chained THEN counts[g].attempts
                                   ELSE 0
      BY <1>4 DEF AuditInvariant, AuditShape
    <3>2. CASE counts[g].through # counts[g].chained
      BY <1>2, <2>2, <3>1, <3>2 DEF Covers
    <3>3. CASE counts[g].through = counts[g].chained
      <4>1. counts[g].taking = NotWriting
        BY <1>2, <1>7, <3>3 DEF GroupKept
      <4>2. (counts[g].listed /\ counts[g].timer) \/ counts[g].written = counts[g].attempts
        BY <1>2, <1>7, <3>3, <4>1 DEF GroupKept, Covered, AuditGroup, NotWriting
      <4>3. CASE counts[g].listed /\ counts[g].timer
        <5>1. counts'[g] = chained(g)
          BY <1>3, <4>3
        <5>2. /\ counts'[g].chained = counts[g].through + 1
              /\ counts'[g].attempts = counts[g].attempts
              /\ counts'[g].through = counts[g].through /\ counts'[g].taking = NotWriting
          BY <1>5, <3>3, <4>1, <5>1
        <5>3. QED BY <1>7, <2>2, <3>1, <3>3, <4>3, <5>2 DEF Covers
      <4>4. CASE counts[g].written = counts[g].attempts
        <5>1. rows[g] = counts[g].attempts \/ givenUp[g] = counts[g].attempts
          BY <1>2, <4>4 DEF GroupKept
        <5>2. QED BY <1>7, <2>2, <3>1, <3>3, <5>1 DEF Covers
      <4>5. QED BY <4>2, <4>3, <4>4
    <3>4. QED BY <3>2, <3>3
  <2>3. QED BY <2>1, <2>2
<1>11. FlushCovers'
  BY <1>1, <1>10 DEF FlushCovers
<1>12. QED BY <1>8, <1>9, <1>11 DEF AuditInvariant

LEMMA FlushedKeeps == ASSUME AuditInvariant, NEW p \in Readers, Flushed(p) PROVE AuditInvariant'
<1>1. /\ flushes[p].at = "waits" /\ \A g \in Groups : counts[g].through >= flushes[p].until[g]
      /\ flushes' = [flushes EXCEPT ![p] = [flushes[p] EXCEPT !.at = "read"]]
      /\ UNCHANGED <<current, counts, rows, writeFaults, givenUp>>
  BY DEF Flushed
<1>2. flushes \in [Readers -> AuditFlush] /\ counts \in [Groups -> AuditGroup]
  BY DEF AuditInvariant, AuditShape
<1>3. /\ flushes'[p].at = "read" /\ flushes'[p].until = flushes[p].until
      /\ flushes'[p].owed = flushes[p].owed /\ flushes' \in [Readers -> AuditFlush]
      /\ \A q \in Readers : q # p => flushes'[q] = flushes[q]
  BY <1>1, <1>2 DEF AuditFlush, FlushSteps
<1>4. AuditShape' /\ GroupsKept'
  BY <1>1, <1>3 DEF AuditInvariant, AuditShape, GroupsKept
<1>5. ASSUME NEW q \in Readers, NEW g \in Groups, flushes'[q].at # "idle"
      PROVE  Covers(flushes'[q].at, flushes'[q].until[g], flushes'[q].owed[g],
                    counts[g], rows[g], givenUp[g])
  <2>1. flushes[q].at # "idle"
    => Covers(flushes[q].at, flushes[q].until[g], flushes[q].owed[g], counts[g], rows[g], givenUp[g])
    BY DEF AuditInvariant, FlushCovers
  <2>2. CASE q # p
    BY <1>3, <1>5, <2>1, <2>2
  <2>3. CASE q = p
    <3>1. /\ counts[g].through \in Nat /\ flushes[p].until[g] \in Nat
          /\ counts[g].through >= flushes[p].until[g]
      BY <1>1, <1>2 DEF AuditGroup, AuditFlush
    <3>2. flushes[p].owed[g] <= rows[g] \/ flushes[p].owed[g] <= givenUp[g]
      BY <1>1, <2>1, <2>3, <3>1 DEF Covers
    <3>3. QED BY <1>3, <2>3, <3>2 DEF Covers
  <2>4. QED BY <2>2, <2>3
<1>6. FlushCovers'
  BY <1>1, <1>5 DEF FlushCovers
<1>7. QED BY <1>4, <1>6 DEF AuditInvariant

LEMMA AuditStuttersKeep == ASSUME AuditInvariant, UNCHANGED auditVars PROVE AuditInvariant'
BY DEF AuditInvariant, AuditShape, GroupsKept, FlushCovers, auditVars

\* What a group has counted is in its row, in a write of its chain or still to be written,
\* and a flush waits for the writes that owe it something (mcp-audit.ts:157-247).
THEOREM AuditInvariance == AuditSpec => []AuditInvariant
<1>1. ASSUME AuditInvariant, [AuditNext]_auditVars PROVE AuditInvariant'
  BY <1>1, RepeatedKeeps, FiresKeeps, WriteBeginsKeeps, WriteEndsKeeps, FlushBeginsKeeps,
     FlushedKeeps, AuditStuttersKeep DEF AuditNext, Writes
<1>2. QED BY <1>1, AuditInvariantInit, PTL DEF AuditSpec

\* Whoever has flushed reads what was counted before of every group that had no write in its
\* chain when the flush began (one that had may be taken off the list, mcp-audit.ts:180, and is
\* owed nothing), save for counts whose write failed and was given up (175-178); for any number
\* of groups, readers, repeats and failed writes (mcp-audit.ts:238).
THEOREM FlushedLogIsComplete == AuditSpec => []RepeatsKept
<1>1. ASSUME AuditInvariant PROVE AuditTypeOK
  <2>1. ASSUME NEW g \in Groups
        PROVE  /\ counts[g].written <= counts[g].attempts
               /\ counts[g].through <= counts[g].chained
               /\ counts[g].taking \in (counts[g].written..counts[g].attempts) \cup {NotWriting}
    BY <1>1, RowsStay DEF AuditGroup, GroupKept
  <2>2. QED BY <1>1, <2>1 DEF AuditInvariant, AuditShape, AuditTypeOK
<1>2. ASSUME AuditInvariant PROVE FlushedIsWritten
  <2>1. ASSUME NEW p \in Readers, flushes[p].at = "read", NEW g \in Groups
        PROVE  Settled(g, flushes[p].owed[g])
    <3>1. flushes[p].owed[g] <= rows[g] \/ flushes[p].owed[g] <= givenUp[g]
      BY <1>2, <2>1 DEF AuditInvariant, FlushCovers, Covers
    <3>2. flushes[p].owed[g] \in Nat /\ rows[g] \in Nat /\ givenUp[g] \in Nat
      BY <1>2 DEF AuditInvariant, AuditShape, AuditFlush
    <3>3. QED BY <3>1, <3>2 DEF Settled
  <2>2. QED BY <2>1 DEF FlushedIsWritten
<1>3. QED BY <1>1, <1>2, AuditInvariance, PTL DEF RepeatsKept
==============================================================================
