----------------------------- MODULE Delegation -----------------------------
(***************************************************************************)
(* Calls of one panel's machine keys served by another (mcp-delegation.ts). *)
(* The caller signs an assertion that is good for a while; the receiver    *)
(* serves it once, and before and after the work asks the caller's panel   *)
(* whether the key still has the rights.  Each panel serves few requests   *)
(* at a time, and the questions take a place as the calls do.              *)
(*                                                                         *)
(* Copies of a request may arrive, in any order, at any time.  External:   *)
(* the keys of the caller, the configuration file and the tools.           *)
(***************************************************************************)
EXTENDS Naturals, FiniteSets

CONSTANTS
    Panels,         \* two panels that call each other
    Receiver(_),    \* the panel that a call is addressed to
    Assertions,     \* calls that are signed
    Copies,         \* requests that may arrive: each a copy of a call
    CallOf(_),      \* the call that a copy carries
    Places,         \* requests a panel serves at a time (4 in the code)
    Lifetime,       \* TTL of an assertion
    MaxMoment       \* bound on the clock

ASSUME DelegationAssumption ==
    /\ {Places, Lifetime, MaxMoment} \subseteq Nat \ {0}
    /\ \A k \in Assertions : Receiver(k) \in Panels
    /\ \A r \in Copies : CallOf(r) \in Assertions

VARIABLES
    moment,    \* the clock of both panels
    signedAt,  \* when each call was signed, Unsigned before
    granted,   \* calls whose key still has the rights they were signed with
    trusting,  \* calls whose caller the receiver still has configured
    seen,      \* of each panel: the calls it has served, until they expire
    progress,  \* how far each copy is
    worked,    \* copies whose work was done
    inForce    \* copies whose rights and trust were in force when their work ended

delVars == <<moment, signedAt, granted, trusting, seen, progress, worked, inForce>>

Unsigned == MaxMoment + 1
Caller(k) == CHOOSE p \in Panels : p # Receiver(k)
Issued(k) == signedAt[k] # Unsigned
Expired(k) == moment >= signedAt[k] + Lifetime

\* The question before the work, and the one after it, which ends in "Again".
RequestSteps == {"away", "authenticated", "asks", "asking", "confirmed", "works",
                 "asksAgain", "askingAgain", "confirmedAgain", "answered", "denied"}
Asking(step) == step \in {"asking", "askingAgain"}

DelTypeOK ==
    /\ moment \in 0..MaxMoment
    /\ granted \subseteq Assertions /\ trusting \subseteq Assertions
    /\ \A k \in Assertions : signedAt[k] \in 0..MaxMoment \cup {Unsigned}
    /\ \A p \in Panels : seen[p] \subseteq {k \in Assertions : Receiver(k) = p /\ Issued(k)}
    /\ \A r \in Copies : progress[r] \in RequestSteps
    /\ inForce \subseteq worked /\ worked \subseteq Copies

DelInit ==
    /\ moment = 0 /\ signedAt = [k \in Assertions |-> Unsigned]
    /\ granted = Assertions /\ trusting = Assertions
    /\ seen = [p \in Panels |-> {}]
    /\ progress = [r \in Copies |-> "away"]
    /\ worked = {} /\ inForce = {}

\* active of panel p: calls it serves, and questions it answers.
Active(p) ==
    Cardinality({r \in Copies : Receiver(CallOf(r)) = p
                                /\ progress[r] \notin {"away", "answered", "denied"}})
        + Cardinality({r \in Copies : Caller(CallOf(r)) = p /\ Asking(progress[r])})
Full(p) == Active(p) >= Places

----------------------------------------------------------------------------
(* The clock and the two configurations *)

Passes ==
    /\ moment < MaxMoment /\ moment' = moment + 1
    /\ UNCHANGED <<signedAt, granted, trusting, seen, progress, worked, inForce>>
\* A key is revoked or reduced; a peer is taken out of the receiver's file.
RightsEnd(k) ==
    /\ \/ k \in granted /\ granted' = granted \ {k} /\ UNCHANGED trusting
       \/ k \in trusting /\ trusting' = trusting \ {k} /\ UNCHANGED granted
    /\ UNCHANGED <<moment, signedAt, seen, progress, worked, inForce>>

----------------------------------------------------------------------------
(* The receiver *)

Reaches(r, step) == progress' = [progress EXCEPT ![r] = step]
Untouched == <<moment, granted, trusting>>

\* callDelegatedTool signs what it may send.
Signs(k) ==
    /\ ~Issued(k) /\ k \in granted
    /\ signedAt' = [signedAt EXCEPT ![k] = moment]
    /\ UNCHANGED <<Untouched, seen, progress, worked, inForce>>

\* A place, then authenticate up to the question for the peer's account.
Arrives(r) ==
    LET k == CallOf(r) IN
    /\ progress[r] = "away" /\ Issued(k)
    /\ Reaches(r, IF Full(Receiver(k)) \/ Expired(k) \/ k \notin trusting
               THEN "denied" ELSE "authenticated")
    /\ UNCHANGED <<Untouched, signedAt, seen, worked, inForce>>

\* claimNonce: what expired is forgotten, what is there was served.
Claims(r) ==
    LET k == CallOf(r)
        p == Receiver(k)
        remembered == {j \in seen[p] : ~Expired(j)}
    IN
    /\ progress[r] = "authenticated"
    /\ IF k \in remembered
       THEN Reaches(r, "denied") /\ seen' = [seen EXCEPT ![p] = remembered]
       ELSE Reaches(r, "asks") /\ seen' = [seen EXCEPT ![p] = remembered \cup {k}]
    /\ UNCHANGED <<Untouched, signedAt, worked, inForce>>

\* revalidate: the peer has to be configured as it was, and to have a place.
AsksMutant(r) ==
    LET k == CallOf(r) IN
    /\ progress[r] \in {"asks", "asksAgain"}
    /\ k \in trusting => ~Full(Caller(k))
    /\ Reaches(r, IF k \notin trusting THEN "denied"
               ELSE IF progress[r] = "asks" THEN "asking" ELSE "askingAgain")
    /\ UNCHANGED <<Untouched, signedAt, seen, worked, inForce>>
AsksPeer(r) ==
    LET k == CallOf(r) IN
    /\ progress[r] \in {"asks", "asksAgain"}
    /\ Reaches(r, IF k \notin trusting \/ Full(Caller(k)) THEN "denied"
               ELSE IF progress[r] = "asks" THEN "asking" ELSE "askingAgain")
    /\ UNCHANGED <<Untouched, signedAt, seen, worked, inForce>>

\* confirmAssertion, with the rights as they are now.  No answer within the deadline of
\* the question is a refusal.
Hears(r) ==
    /\ Asking(progress[r])
    /\ \/ Reaches(r, "denied")
       \/ /\ CallOf(r) \in granted
          /\ Reaches(r, IF progress[r] = "asking" THEN "confirmed" ELSE "confirmedAgain")
    /\ UNCHANGED <<Untouched, signedAt, seen, worked, inForce>>

\* The rest of revalidate: the assertion may have expired meanwhile.
StillCurrentMutant(k) == TRUE
StillCurrent(k) == ~Expired(k)
Proceeds(r) ==
    /\ progress[r] \in {"confirmed", "confirmedAgain"}
    /\ Reaches(r, IF ~StillCurrent(CallOf(r)) THEN "denied"
               ELSE IF progress[r] = "confirmed" THEN "works" ELSE "answered")
    /\ UNCHANGED <<Untouched, signedAt, seen, worked, inForce>>

\* read or dispatch, which may fail.
AfterWorkMutant == "answered"
AfterWork == "asksAgain"
Works(r) ==
    /\ progress[r] = "works"
    /\ \/ Reaches(r, "denied") /\ UNCHANGED <<worked, inForce>>
       \/ /\ Reaches(r, AfterWork) /\ worked' = worked \cup {r}
          /\ inForce' = IF CallOf(r) \in granted \cap trusting
                        THEN inForce \cup {r} ELSE inForce
    /\ UNCHANGED <<Untouched, signedAt, seen>>

Serves(r) == Claims(r) \/ AsksPeer(r) \/ Hears(r) \/ Proceeds(r) \/ Works(r)
DelNext ==
    \/ Passes
    \/ \E k \in Assertions : RightsEnd(k) \/ Signs(k)
    \/ \E r \in Copies : Arrives(r) \/ Serves(r)
\* Queries and tools end, questions have deadlines.
DelFairness == \A r \in Copies : WF_delVars(Serves(r))
DelSpec == DelInit /\ [][DelNext]_delVars /\ DelFairness

----------------------------------------------------------------------------
(* Properties *)

\* A signed call is worked for once, however many copies of it arrive and whenever:
\* also when the first is forgotten while a second is being authenticated
\* (mcp-delegation.ts:363, 508).
WorkedOnce ==
    \A r, other \in worked : CallOf(r) = CallOf(other) => r = other

\* A key revoked or a peer taken away while the work was under way leaves no result
\* behind (mcp-delegation.ts:524).
ResultsInForce == \A r \in Copies : progress[r] = "answered" => r \in inForce

\* Two panels whose places are all taken by calls of each other do not wait for one
\* another for ever: when no more copies arrive, each that was taken has been
\* answered or denied (mcp-delegation.ts:541).
RequestsEnd == <>[](\A r \in Copies : progress[r] \in {"away", "answered", "denied"})

\* A delegated call is worked once, and a result given out was worked under rights that
\* were in force when its work ended (mcp-delegation.ts:482-565).
DelegatedInForce == DelTypeOK /\ WorkedOnce /\ ResultsInForce
=============================================================================
