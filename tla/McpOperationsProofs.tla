------------------------ MODULE McpOperationsProofs ------------------------
(***************************************************************************)
(* Proofs about McpOperations: an operation is executed at most once, for  *)
(* any number of calls, operations, tabs, owner's acts and failures.       *)
(***************************************************************************)
EXTENDS McpOperations, TLAPS

\* The null records have the type of what they stand for.
LEMMA Records ==
    /\ NoStack \in Stack /\ NoRow \in Row /\ NoCall \in Call
    /\ NoEffect \in Effect /\ NoTab \in Key
  BY DEF NoStack, Stack, NoRow, Row, NoCall, Call, NoEffect, Effect, NoTab, Key, Modes,
         Places, Applying, Claimed, Preparing, Final

\* A free lock is nobody's.
LEMMA FreeIsNobody == \A c \in Calls : Free # c
  BY FreeAssumption

\* A call that leaves the rows and the effects alone, and claims nothing, keeps
\* the claims as they are.
LEMMA CallMoves ==
  ASSUME OnceInv, NEW c \in Calls,
         \A d \in Calls \ {c} : calls'[d] = calls[d],
         UNCHANGED rows, \A i \in Ops : effect'[i].begun = effect[i].begun,
         calls'[c].at \in Applying => calls'[c].op \in Ops /\ rows[calls'[c].op].state # "none",
         calls'[c].at \in Claimed => calls[c].at \in Claimed /\ calls'[c].op = calls[c].op,
         calls'[c].at \in NotYet => calls[c].at \in NotYet /\ calls'[c].round = calls[c].round
  PROVE  OneRowPerRequest' /\ ClaimHeld' /\ ExecutedByHolder'
<1>1. OneRowPerRequest'
  BY DEF OnceInv, OneRowPerRequest
<1>2. ClaimHeld'
  BY DEF OnceInv, ClaimHeld
<1>3. ExecutedByHolder'
  <2>1. \A d \in Calls : calls[d].at \in NotYet => calls[d].op \in Ops
    BY DEF OnceInv, TypeOK, NotYet, Applying, Claimed
  <2>2. \A d \in Calls : calls'[d].at \in NotYet => calls'[d].op \in Ops
    BY <2>1 DEF NotYet, Applying, Claimed
  <2>. QED
    BY <2>1, <2>2 DEF OnceInv, ExecutedByHolder, NotYet, Claimed
<1>. QED
  BY <1>1, <1>2, <1>3

\* An answered call holds nothing.
LEMMA Answered ==
  ASSUME TypeOK, NEW c \in Calls, Answer(c)
  PROVE  /\ calls' \in [Calls -> Call]
         /\ calls'[c] = NoCall
         /\ \A d \in Calls \ {c} : calls'[d] = calls[d]
         /\ calls'[c].at \notin Applying
  BY Records DEF TypeOK, Answer, NoCall, Applying, Claimed

\* A call that goes to another place keeps what it knows.
LEMMA Went ==
  ASSUME TypeOK, NEW c \in Calls, NEW place \in Places, Goto(c, place)
  PROVE  /\ calls' \in [Calls -> Call]
         /\ calls'[c].at = place
         /\ calls'[c].op = calls[c].op /\ calls'[c].round = calls[c].round
         /\ \A d \in Calls \ {c} : calls'[d] = calls[d]
  BY DEF TypeOK, Goto, Call

\* A released lock is free or somebody else's.
LEMMA Unlocked ==
  ASSUME TypeOK, NEW c \in Calls, Unlock(c)
  PROVE  lock' \in Calls \cup {Free} /\ lock' # c /\ (lock' = lock \/ lock' = Free)
  BY FreeIsNobody DEF TypeOK, Unlock

\* A call that fails answers, or is about to record the failure of the operation
\* it has claimed; it has given back the lock.
LEMMA Failed ==
  ASSUME TypeOK, NEW c \in Calls, Fail(c)
  PROVE  /\ calls' \in [Calls -> Call]
         /\ \A d \in Calls \ {c} : calls'[d] = calls[d]
         /\ \/ calls[c].at \in Claimed /\ calls'[c].at = "failing" /\ calls'[c].op = calls[c].op
            \/ calls'[c].at \notin Applying
         /\ lock' \in Calls \cup {Free} /\ lock' # c /\ (lock' = lock \/ lock' = Free)
<1>1. "failing" \in Places
  BY DEF Places, Applying, Claimed
<1>2. CASE calls[c].at \in Claimed
  BY <1>1, <1>2, Went, Unlocked DEF Fail
<1>3. CASE calls[c].at \notin Claimed
  BY <1>3, Answered, Unlocked DEF Fail
<1>. QED
  BY <1>2, <1>3

----------------------------------------------------------------------------
(* operation_prepare *)

LEMMA PrepareStep == ASSUME OnceInv, NEW c \in Calls, Prepare(c) PROVE OnceInv'
<1>1. PICK request \in Requests :
        calls' = [calls EXCEPT ![c] = [NoCall EXCEPT !.at = "inspect", !.request = request,
                                         !.version = key.version]]
  BY DEF Prepare
<1>2. /\ calls' \in [Calls -> Call] /\ calls'[c].at = "inspect"
      /\ \A d \in Calls \ {c} : calls'[d] = calls[d]
  BY <1>1, Records DEF OnceInv, TypeOK, Call, NoCall, Key, Places, Preparing
<1>3. TypeOK'
  BY <1>2 DEF OnceInv, TypeOK, Prepare, At, durable, counters, Applying, Claimed
<1>4. OneRowPerRequest' /\ ClaimHeld' /\ ExecutedByHolder'
  BY <1>2, CallMoves DEF Prepare, durable, Applying, Claimed, NotYet
<1>. QED
  BY <1>3, <1>4 DEF OnceInv

LEMMA InspectStep == ASSUME OnceInv, NEW c \in Calls, Inspect(c) PROVE OnceInv'
<1>. TypeOK
  BY DEF OnceInv
<1>1. /\ calls' \in [Calls -> Call] /\ calls'[c].at \notin Applying
      /\ \A d \in Calls \ {c} : calls'[d] = calls[d]
  <2>1. CASE Answer(c)
    BY <2>1, Answered
  <2>2. CASE calls' = [calls EXCEPT ![c].at = "fresh", ![c].fp = stack]
    <3>1. calls[c] \in Call /\ stack \in Stack /\ "fresh" \in Places
      BY DEF TypeOK, Places, Preparing
    <3>2. [calls[c] EXCEPT !.at = "fresh", !.fp = stack] \in Call
      BY <3>1 DEF Call
    <3>3. /\ calls'[c] = [calls[c] EXCEPT !.at = "fresh", !.fp = stack]
          /\ calls' \in [Calls -> Call] /\ \A d \in Calls \ {c} : calls'[d] = calls[d]
      BY <2>2, <3>2 DEF TypeOK
    <3>4. calls'[c].at = "fresh"
      BY <3>1, <3>3 DEF Call
    <3>. QED
      BY <3>3, <3>4 DEF Applying, Claimed
  <2>. QED
    BY <2>1, <2>2 DEF Inspect
<1>2. faults' \in 0..MaxFaults
  BY McpBoundAssumption DEF TypeOK, Inspect, Fault, NoFault
<1>3. TypeOK'
  BY <1>1, <1>2 DEF TypeOK, Inspect, At, durable
<1>4. OneRowPerRequest' /\ ClaimHeld' /\ ExecutedByHolder'
  BY <1>1, CallMoves DEF Inspect, durable, Applying, Claimed, NotYet
<1>. QED
  BY <1>3, <1>4 DEF OnceInv

LEMMA FreshStep == ASSUME OnceInv, NEW c \in Calls, Fresh(c) PROVE OnceInv'
<1>. TypeOK
  BY DEF OnceInv
<1>1. /\ calls' \in [Calls -> Call] /\ calls'[c].at \notin Applying
      /\ \A d \in Calls \ {c} : calls'[d] = calls[d]
  <2>1. CASE Answer(c)
    BY <2>1, Answered
  <2>2. CASE \E place \in {"prune", "insert"} :
               calls' = [calls EXCEPT ![c].mode = key.mode, ![c].at = place]
    <3>1. PICK place \in {"prune", "insert"} :
            calls' = [calls EXCEPT ![c].mode = key.mode, ![c].at = place]
      BY <2>2
    <3>2. calls[c] \in Call /\ key.mode \in Modes /\ place \in Places
      BY DEF TypeOK, Key, Places, Preparing
    <3>3. [calls[c] EXCEPT !.mode = key.mode, !.at = place] \in Call
      BY <3>2 DEF Call
    <3>4. /\ calls'[c] = [calls[c] EXCEPT !.mode = key.mode, !.at = place]
          /\ calls' \in [Calls -> Call] /\ \A d \in Calls \ {c} : calls'[d] = calls[d]
      BY <3>1, <3>3 DEF TypeOK
    <3>5. calls'[c].at = place
      BY <3>2, <3>4 DEF Call
    <3>. QED
      BY <3>4, <3>5 DEF Applying, Claimed
  <2>. QED
    BY <2>1, <2>2 DEF Fresh
<1>2. TypeOK'
  BY <1>1 DEF TypeOK, Fresh, At, durable, counters
<1>3. OneRowPerRequest' /\ ClaimHeld' /\ ExecutedByHolder'
  BY <1>1, CallMoves DEF Fresh, durable, Applying, Claimed, NotYet
<1>. QED
  BY <1>2, <1>3 DEF OnceInv

LEMMA PruneStep == ASSUME OnceInv, NEW c \in Calls, Prune(c) PROVE OnceInv'
<1>. TypeOK
  BY DEF OnceInv
<1>1. /\ calls' \in [Calls -> Call] /\ calls'[c].at \notin Applying
      /\ \A d \in Calls \ {c} : calls'[d] = calls[d]
  <2>1. "insert" \in Places /\ "insert" \notin Applying
    BY DEF Places, Preparing, Applying, Claimed
  <2>. QED
    BY <2>1, Answered, Went DEF Prune
<1>2. TypeOK'
  BY <1>1 DEF TypeOK, Prune, At, durable, counters
<1>3. OneRowPerRequest' /\ ClaimHeld' /\ ExecutedByHolder'
  BY <1>1, CallMoves DEF Prune, durable, Applying, Claimed, NotYet
<1>. QED
  BY <1>2, <1>3 DEF OnceInv

\* The new row is the only one of its request, and nobody has claimed it.
LEMMA InsertStep == ASSUME OnceInv, NEW c \in Calls, Insert(c) PROVE OnceInv'
<1>. TypeOK
  BY DEF OnceInv
<1>1. /\ calls' \in [Calls -> Call] /\ calls'[c].at \notin Applying
      /\ \A d \in Calls \ {c} : calls'[d] = calls[d]
  BY Answered DEF Insert
<1>2. faults' \in 0..MaxFaults /\ UNCHANGED effect
  <2>1. (Fault \/ NoFault) /\ UNCHANGED effect
    BY DEF Insert
  <2>. QED
    BY <2>1, McpBoundAssumption DEF TypeOK, Fault, NoFault
<1>3. CASE UNCHANGED <<rows, memory>>
  <2>1. TypeOK'
    BY <1>1, <1>2, <1>3 DEF TypeOK, Insert, At
  <2>2. OneRowPerRequest' /\ ClaimHeld' /\ ExecutedByHolder'
    BY <1>1, <1>3, CallMoves DEF Insert, Applying, Claimed, NotYet
  <2>. QED
    BY <2>1, <2>2 DEF OnceInv
<1>4. CASE ~UNCHANGED <<rows, memory>>
  <2>1. PICK i \in Ops, kind \in Kinds :
          /\ Insertable(c) /\ rows[i].state = "none"
          /\ rows' = [rows EXCEPT ![i] = [NoRow EXCEPT !.state = StateFor(calls[c].mode),
                        !.request = calls[c].request, !.kind = kind,
                        !.version = calls[c].version, !.fp = calls[c].fp]]
          /\ memory' = memory \cup {i}
    BY <1>4 DEF Insert
  <2>2. /\ rows' \in [Ops -> Row] /\ \A j \in Ops \ {i} : rows'[j] = rows[j]
        /\ rows'[i].state \in {"awaiting", "prepared"}
        /\ rows'[i].request = calls[c].request
    <3>1. calls[c] \in Call /\ kind \in {"write", "control", "update"}
      BY KindAssumption DEF TypeOK
    <3>2. StateFor(calls[c].mode) \in {"awaiting", "prepared"}
      BY DEF StateFor
    <3>3. [NoRow EXCEPT !.state = StateFor(calls[c].mode), !.request = calls[c].request,
             !.kind = kind, !.version = calls[c].version, !.fp = calls[c].fp] \in Row
      BY <3>1, <3>2, Records DEF Row, Call, Final
    <3>4. rows'[i] = [NoRow EXCEPT !.state = StateFor(calls[c].mode),
             !.request = calls[c].request, !.kind = kind, !.version = calls[c].version,
             !.fp = calls[c].fp]
      BY <2>1 DEF TypeOK
    <3>5. rows' \in [Ops -> Row] /\ \A j \in Ops \ {i} : rows'[j] = rows[j]
      BY <2>1, <3>3 DEF TypeOK
    <3>6. rows'[i].state = StateFor(calls[c].mode) /\ rows'[i].request = calls[c].request
      BY <3>4 DEF NoRow
    <3>. QED
      BY <3>2, <3>5, <3>6
  <2>3. TypeOK'
    <3>1. \A d \in Calls : calls[d].at \in Applying => calls[d].op # i
      BY <2>1 DEF OnceInv, ClaimHeld
    <3>2. UNCHANGED <<key, stack, tabs, lock, acts>> /\ calls[c].at = "insert"
      BY DEF Insert, At
    <3>3. \A d \in Calls : lock = d => d # c /\ rows'[calls[d].op] = rows[calls[d].op]
      <4>1. \A d \in Calls : lock = d => calls[d].at \in {"guard", "resnap", "command"}
        BY DEF TypeOK
      <4>2. \A d \in Calls : lock = d => d # c /\ calls[d].at \in Applying
        BY <3>2, <4>1 DEF Applying, Claimed
      <4>3. \A d \in Calls : lock = d => calls[d].op \in Ops
        BY <4>2 DEF TypeOK
      <4>. QED
        BY <2>2, <3>1, <4>2, <4>3
    <3>4. memory' \in SUBSET Ops /\ \A j \in memory' : rows'[j].state # "none"
      BY <2>1, <2>2 DEF TypeOK
    <3>5. \A d \in Calls :
            /\ calls'[d].at \in Applying => calls'[d].op \in Ops
            /\ lock' = d => /\ calls'[d].at \in {"guard", "resnap", "command"}
                           /\ rows'[calls'[d].op].kind = "write"
      BY <1>1, <3>2, <3>3 DEF TypeOK
    <3>. QED
      BY <1>1, <1>2, <2>2, <3>2, <3>4, <3>5 DEF TypeOK
  <2>4. OneRowPerRequest'
    <3>1. \A j \in Ops : rows[j].state # "none" => rows[j].request # calls[c].request
      BY <2>1 DEF Insertable, Known
    <3>2. SUFFICES ASSUME NEW j \in Ops, NEW k \in Ops,
                          rows'[j].state # "none", rows'[k].state # "none",
                          rows'[j].request = rows'[k].request, j # k
                   PROVE  FALSE
      BY DEF OneRowPerRequest
    <3>. QED
      BY <2>1, <2>2, <3>1, <3>2 DEF OnceInv, OneRowPerRequest
  <2>5. ClaimHeld'
    BY <1>1, <2>1, <2>2 DEF OnceInv, ClaimHeld, TypeOK, Applying
  <2>6. ExecutedByHolder'
    BY <1>1, <1>2, <2>1, <2>2 DEF OnceInv, ExecutedByHolder, TypeOK, NotYet, Applying, Claimed
  <2>. QED
    BY <2>3, <2>4, <2>5, <2>6 DEF OnceInv
<1>. QED
  BY <1>3, <1>4

----------------------------------------------------------------------------
(* operation_apply *)

LEMMA ApplyStep == ASSUME OnceInv, NEW c \in Calls, Apply(c) PROVE OnceInv'
<1>1. PICK i \in memory :
        calls' = [calls EXCEPT ![c] = [NoCall EXCEPT !.at = "revalidate", !.op = i]]
  BY DEF Apply
<1>2. i \in Ops /\ rows[i].state # "none"
  BY DEF OnceInv, TypeOK
<1>3. /\ calls' \in [Calls -> Call] /\ calls'[c].at = "revalidate" /\ calls'[c].op = i
      /\ \A d \in Calls \ {c} : calls'[d] = calls[d]
  BY <1>1, <1>2, Records DEF OnceInv, TypeOK, Call, NoCall, Places, Applying
<1>4. TypeOK'
  BY <1>2, <1>3 DEF OnceInv, TypeOK, Apply, At, durable, counters
<1>5. OneRowPerRequest' /\ ClaimHeld' /\ ExecutedByHolder'
  BY <1>2, <1>3, CallMoves DEF Apply, durable, Claimed, NotYet
<1>. QED
  BY <1>4, <1>5 DEF OnceInv

\* A step that finds nothing wrong claims nothing and executes nothing.
LEMMA Follows ==
  ASSUME OnceInv, NEW c \in Calls, calls[c].at \in CheckpointAt \cup CompareAt
  PROVE  /\ Following(c) \in Applying
         /\ Following(c) \in Claimed => calls[c].at \in Claimed
         /\ Following(c) \in NotYet => calls[c].at \in NotYet
         /\ calls[c].at \in {"guard", "resnap"} => Following(c) \in {"resnap", "command"}
         /\ calls[c].at = "snapshot" => Following(c) = "guard"
  BY DEF Following, CheckpointAt, CompareAt, Applying, Claimed, NotYet

LEMMA CheckpointStep == ASSUME OnceInv, NEW c \in Calls, Checkpoint(c) PROVE OnceInv'
<1>. TypeOK
  BY DEF OnceInv
<1>1. faults' \in 0..MaxFaults
  BY McpBoundAssumption DEF TypeOK, Checkpoint, Fault, NoFault
<1>2. calls[c].at \in Applying /\ calls[c].op \in Ops /\ rows[calls[c].op].state # "none"
  BY DEF OnceInv, ClaimHeld, TypeOK, Checkpoint, CheckpointAt, Applying, Claimed
<1>3. CASE /\ Goto(c, Following(c)) /\ UNCHANGED lock
           /\ effect' = [effect EXCEPT ![calls[c].op].late =
                           IF InForce(RowOf(c)) THEN 0 ELSE @]
  <2>1. Following(c) \in Places
    BY Follows DEF Checkpoint, Places
  <2>2. /\ calls' \in [Calls -> Call] /\ calls'[c].at = Following(c)
        /\ calls'[c].op = calls[c].op /\ calls'[c].round = calls[c].round
        /\ \A d \in Calls \ {c} : calls'[d] = calls[d]
    BY <1>3, <2>1, Went
  <2>3. /\ Following(c) \in Applying
        /\ Following(c) \in Claimed => calls[c].at \in Claimed
        /\ Following(c) \in NotYet => calls[c].at \in NotYet
        /\ calls[c].at \in {"guard", "resnap"} => Following(c) \in {"resnap", "command"}
        /\ calls[c].at = "snapshot" => Following(c) = "guard"
    BY Follows DEF Checkpoint
  <2>4. effect' \in [Ops -> Effect] /\ \A i \in Ops : effect'[i].begun = effect[i].begun
    BY <1>2, <1>3 DEF TypeOK, Effect
  <2>5. TypeOK'
    BY <1>1, <1>2, <1>3, <2>1, <2>2, <2>3, <2>4
       DEF TypeOK, Checkpoint, CheckpointAt, durable
  <2>6. OneRowPerRequest' /\ ClaimHeld' /\ ExecutedByHolder'
    BY <1>2, <2>2, <2>3, <2>4, CallMoves DEF Checkpoint, durable
  <2>. QED
    BY <2>5, <2>6 DEF OnceInv
<1>4. CASE Fail(c) /\ UNCHANGED effect
  <2>1. TypeOK'
    BY <1>1, <1>2, <1>4, Failed, FreeIsNobody DEF TypeOK, Checkpoint, durable
  <2>2. OneRowPerRequest' /\ ClaimHeld' /\ ExecutedByHolder'
    BY <1>2, <1>4, Failed, CallMoves DEF Checkpoint, durable, Applying, Claimed, NotYet
  <2>. QED
    BY <2>1, <2>2 DEF OnceInv
<1>. QED
  BY <1>3, <1>4 DEF Checkpoint

LEMMA CompareStep == ASSUME OnceInv, NEW c \in Calls, Compare(c) PROVE OnceInv'
<1>. TypeOK
  BY DEF OnceInv
<1>1. faults' \in 0..MaxFaults
  BY McpBoundAssumption DEF TypeOK, Compare, Fault, NoFault
<1>2. calls[c].at \in Applying /\ calls[c].op \in Ops /\ rows[calls[c].op].state # "none"
  BY DEF OnceInv, ClaimHeld, TypeOK, Compare, CompareAt, Applying, Claimed
<1>3. CASE Goto(c, Following(c)) /\ lock' = IF Locks(c) THEN c ELSE lock
  <2>1. Following(c) \in Places
    BY Follows DEF Compare, Places
  <2>2. /\ lock' \in Calls \cup {Free}
        /\ \A d \in Calls : lock' = d => \/ lock = d
                                         \/ /\ d = c /\ calls[c].at = "snapshot"
                                            /\ rows[calls[c].op].kind = "write"
    BY <1>3 DEF TypeOK, Locks, At, RowOf
  <2>3. TypeOK'
    BY <1>1, <1>2, <1>3, <2>1, <2>2, Went, Follows DEF TypeOK, Compare, CompareAt, durable
  <2>4. OneRowPerRequest' /\ ClaimHeld' /\ ExecutedByHolder'
    BY <1>2, <1>3, <2>1, Went, Follows, CallMoves DEF Compare, durable
  <2>. QED
    BY <2>3, <2>4 DEF OnceInv
<1>4. CASE Fail(c)
  <2>1. TypeOK'
    BY <1>1, <1>2, <1>4, Failed, FreeIsNobody DEF TypeOK, Compare, durable
  <2>2. OneRowPerRequest' /\ ClaimHeld' /\ ExecutedByHolder'
    BY <1>2, <1>4, Failed, CallMoves DEF Compare, durable, Applying, Claimed, NotYet
  <2>. QED
    BY <2>1, <2>2 DEF OnceInv
<1>. QED
  BY <1>3, <1>4 DEF Compare

\* Only a prepared operation is claimed, so nobody has claimed it before.
LEMMA ClaimStep == ASSUME OnceInv, NEW c \in Calls, Claim(c) PROVE OnceInv'
<1>. TypeOK
  BY DEF OnceInv
<1>1. faults' \in 0..MaxFaults
  BY McpBoundAssumption DEF TypeOK, Claim, Fault, NoFault
<1>2. calls[c].at \in Applying /\ calls[c].op \in Ops /\ lock # c
  BY DEF TypeOK, Claim, At, Applying
<1>3. CASE Answer(c) /\ UNCHANGED <<rows, effect>>
  <2>1. TypeOK'
    BY <1>1, <1>2, <1>3, Answered DEF TypeOK, Claim
  <2>2. OneRowPerRequest' /\ ClaimHeld' /\ ExecutedByHolder'
    BY <1>3, Answered, CallMoves DEF Applying, Claimed, NotYet
  <2>. QED
    BY <2>1, <2>2 DEF OnceInv
<1>4. CASE /\ Claimable(RowOf(c)) /\ Goto(c, "confirm")
           /\ rows' = [rows EXCEPT ![calls[c].op].state = "running"]
           /\ effect' = [effect EXCEPT ![calls[c].op].mode = key.mode]
  <2>. DEFINE i == calls[c].op
  <2>1. rows[i].state = "prepared"
    BY <1>4 DEF Claimable, RowOf
  <2>2. /\ rows' \in [Ops -> Row] /\ \A j \in Ops \ {i} : rows'[j] = rows[j]
        /\ rows'[i].state = "running" /\ rows'[i].request = rows[i].request
        /\ rows'[i].kind = rows[i].kind
    BY <1>2, <1>4 DEF TypeOK, Row
  <2>3. effect' \in [Ops -> Effect] /\ \A j \in Ops : effect'[j].begun = effect[j].begun
    BY <1>2, <1>4 DEF TypeOK, Effect, Key
  <2>4. "confirm" \in Places
    BY DEF Places, Applying, Claimed
  <2>5. /\ calls' \in [Calls -> Call] /\ calls'[c].at = "confirm" /\ calls'[c].op = i
        /\ \A d \in Calls \ {c} : calls'[d] = calls[d]
    BY <1>4, <2>4, Went
  <2>6. TypeOK'
    <3>1. UNCHANGED <<key, stack, tabs, memory, lock, acts>>
      BY DEF Claim
    <3>2. \A j \in memory : rows'[j].state # "none"
      BY <2>2 DEF TypeOK
    <3>3. \A d \in Calls : lock = d => /\ d # c /\ calls[d].op \in Ops
                                      /\ rows'[calls[d].op].kind = "write"
      BY <1>2, <2>2 DEF TypeOK, Applying, Claimed
    <3>. QED
      BY <1>1, <1>2, <2>2, <2>3, <2>5, <3>1, <3>2, <3>3 DEF TypeOK
  <2>7. OneRowPerRequest'
    BY <1>2, <2>1, <2>2 DEF OnceInv, OneRowPerRequest
  <2>8. ClaimHeld'
    <3>1. \A d \in Calls \ {c} : ~(calls[d].at \in Claimed /\ calls[d].op = i)
      BY <2>1 DEF OnceInv, ClaimHeld
    <3>. QED
      BY <1>2, <2>2, <2>5, <3>1 DEF OnceInv, ClaimHeld, TypeOK, Applying
  <2>9. ExecutedByHolder'
    <3>1. effect[i].begun = 0
      BY <1>2, <2>1 DEF OnceInv, ExecutedByHolder
    <3>2. \A d \in Calls : calls[d].at \in NotYet => calls[d].op \in Ops
      BY DEF TypeOK, NotYet, Applying, Claimed
    <3>3. /\ \A j \in Ops : rows'[j].state \in {"none", "awaiting", "prepared"}
                              => effect'[j].begun = 0
          /\ \A j \in Ops : effect'[j].begun <= 1
      BY <1>2, <2>2, <2>3, <3>1 DEF OnceInv, ExecutedByHolder
    <3>4. \A d \in Calls : (calls'[d].at \in NotYet /\ calls'[d].round = 1)
                             => effect'[calls'[d].op].begun = 0
      BY <1>2, <2>3, <2>5, <3>1, <3>2 DEF OnceInv, ExecutedByHolder
    <3>. QED
      BY <3>3, <3>4 DEF ExecutedByHolder
  <2>. QED
    BY <2>6, <2>7, <2>8, <2>9 DEF OnceInv
<1>. QED
  BY <1>3, <1>4 DEF Claim

\* What a set of commands does to an operation is what one of them does.
LEMMA TookEffect ==
  ASSUME OnceInv, NEW S \in SUBSET Calls, Took(S)
  PROVE  /\ effect' \in [Ops -> Effect] /\ stack' \in Stack
         /\ \A i \in Ops : \/ effect'[i].begun = effect[i].begun
                           \/ \E c \in S : /\ calls[c].op = i /\ calls[c].round = 1
                                           /\ effect'[i].begun = effect[i].begun + 1
<1>1. stack' \in Stack
  <2>. DEFINE files == \E c \in S : RowOf(c).kind = "write"
              runtime == \E c \in S : RowOf(c).kind = "control" \/ calls[c].round = 2
  <2>1. stack' = [files |-> IF files THEN stack.files + 1 ELSE stack.files,
                  runtime |-> IF runtime THEN stack.runtime + 1 ELSE stack.runtime]
    BY DEF Took
  <2>. HIDE DEF files, runtime
  <2>. QED
    BY <2>1 DEF OnceInv, TypeOK, Stack
<1>2. ASSUME NEW i \in Ops
      PROVE  /\ effect'[i] \in Effect
             /\ \/ effect'[i].begun = effect[i].begun
                \/ \E c \in S : /\ calls[c].op = i /\ calls[c].round = 1
                                /\ effect'[i].begun = effect[i].begun + 1
  <2>1. effect[i] \in Effect
    BY <1>2 DEF OnceInv, TypeOK
  <2>2. CASE ~ \E c \in S : calls[c].op = i
    BY <1>2, <2>1, <2>2 DEF Took
  <2>3. CASE \E c \in S : calls[c].op = i
    <3>. DEFINE c == CHOOSE x \in S : calls[x].op = i
                begun == IF calls[c].round = 1 THEN effect[i].begun + 1 ELSE effect[i].begun
                late == IF InForce(rows[i]) THEN effect[i].late ELSE effect[i].late + 1
                blind == effect[i].blind \/ (rows[i].kind = "write"
                                               /\ stack.files # rows[i].fp.files)
    <3>1. c \in S /\ calls[c].op = i
      BY <2>3
    <3>2. effect'[i] = [effect[i] EXCEPT !.begun = begun, !.late = late, !.blind = blind]
      BY <1>2, <2>3 DEF Took
    <3>3. begun \in Nat /\ late \in Nat
      BY <2>1 DEF Effect
    <3>4. blind \in BOOLEAN
      OBVIOUS
    <3>. HIDE DEF c, begun, late, blind
    <3>5. effect'[i] \in Effect /\ effect'[i].begun = begun
      BY <2>1, <3>2, <3>3, <3>4 DEF Effect
    <3>. QED
      BY <3>1, <3>5 DEF begun
  <2>. QED
    BY <2>2, <2>3
<1>3. effect' \in [Ops -> Effect]
  BY <1>2 DEF Took
<1>. QED
  BY <1>1, <1>2, <1>3

\* The holder of the claim executes the operation, once.
LEMMA CommandStep == ASSUME OnceInv, NEW c \in Calls, Command(c) PROVE OnceInv'
<1>. TypeOK
  BY DEF OnceInv
<1>. DEFINE i == calls[c].op
<1>1. faults' \in 0..MaxFaults
  <2>1. Fault \/ NoFault
    BY DEF Command
  <2>. QED
    BY <2>1, McpBoundAssumption DEF TypeOK, Fault, NoFault
<1>2. /\ calls[c].at = "command" /\ i \in Ops /\ rows[i].state = "running"
      /\ UNCHANGED <<key, rows, tabs, memory, acts>>
  BY DEF OnceInv, ClaimHeld, TypeOK, Command, At, Applying, Claimed
<1>3. \A d \in Calls \ {c} : ~(calls[d].at \in Claimed /\ calls[d].op = i)
  BY <1>2 DEF OnceInv, ClaimHeld, Claimed
<1>4. /\ effect' \in [Ops -> Effect] /\ stack' \in Stack
      /\ \A j \in Ops \ {i} : effect'[j].begun = effect[j].begun
      /\ effect'[i].begun <= 1
  <2>1. calls[c].round = 1 => effect[i].begun = 0
    BY <1>2 DEF OnceInv, ExecutedByHolder, NotYet
  <2>2. effect[i].begun <= 1
    BY <1>2 DEF OnceInv, ExecutedByHolder
  <2>3. CASE Took({c})
    BY <1>2, <2>1, <2>2, <2>3, TookEffect
  <2>4. CASE UNCHANGED <<effect, stack>>
    BY <1>2, <2>2, <2>4 DEF TypeOK
  <2>. QED
    BY <2>3, <2>4 DEF Command
<1>5. /\ calls' \in [Calls -> Call] /\ \A d \in Calls \ {c} : calls'[d] = calls[d]
      /\ calls'[c].at \in Claimed => calls'[c].op = i
      /\ calls'[c].at \in Applying => calls'[c].op = i
      /\ ~(calls'[c].at \in NotYet /\ calls'[c].round = 1)
      /\ lock' \in Calls \cup {Free} /\ lock' # c /\ (lock' = lock \/ lock' = Free)
  <2>1. CASE Fail(c)
    BY <1>2, <2>1, Failed DEF Applying, Claimed, NotYet
  <2>2. CASE Goto(c, "finish") /\ Unlock(c)
    <3>1. "finish" \in Places /\ "finish" \notin NotYet
      BY DEF Places, Applying, Claimed, NotYet
    <3>. QED
      BY <2>2, <3>1, Went, Unlocked
  <2>3. CASE /\ More(c) /\ calls' = [calls EXCEPT ![c].round = 2, ![c].at = "snapshot"]
             /\ UNCHANGED lock
    <3>1. calls[c] \in Call /\ "snapshot" \in Places
      BY DEF TypeOK, Places, Applying, Claimed
    <3>2. [calls[c] EXCEPT !.round = 2, !.at = "snapshot"] \in Call
      BY <3>1 DEF Call
    <3>3. /\ calls'[c] = [calls[c] EXCEPT !.round = 2, !.at = "snapshot"]
          /\ calls' \in [Calls -> Call] /\ \A d \in Calls \ {c} : calls'[d] = calls[d]
      BY <2>3, <3>2 DEF TypeOK
    <3>4. calls'[c].at = "snapshot" /\ calls'[c].op = i /\ calls'[c].round = 2
      BY <3>1, <3>3 DEF Call
    <3>5. lock # c
      BY <2>3 DEF More, RowOf, TypeOK
    <3>. QED
      BY <2>3, <3>3, <3>4, <3>5 DEF TypeOK
  <2>. QED
    BY <2>1, <2>2, <2>3 DEF Command
<1>6. TypeOK'
  BY <1>1, <1>2, <1>4, <1>5, FreeIsNobody DEF TypeOK
<1>7. OneRowPerRequest'
  BY <1>2 DEF OnceInv, OneRowPerRequest
<1>8. ClaimHeld'
  <2>1. calls[c].at \in Claimed
    BY <1>2 DEF Claimed
  <2>. QED
    BY <1>2, <1>3, <1>5, <2>1 DEF OnceInv, ClaimHeld
<1>9. ExecutedByHolder'
  <2>1. \A j \in Ops : effect'[j].begun <= 1
    BY <1>4 DEF OnceInv, ExecutedByHolder
  <2>2. \A j \in Ops : rows'[j].state \in {"none", "awaiting", "prepared"} => effect'[j].begun = 0
    BY <1>2, <1>4 DEF OnceInv, ExecutedByHolder
  <2>3. \A d \in Calls : (calls'[d].at \in NotYet /\ calls'[d].round = 1)
                           => effect'[calls'[d].op].begun = 0
    BY <1>3, <1>4, <1>5 DEF OnceInv, ExecutedByHolder, TypeOK, NotYet, Claimed, Applying
  <2>. QED
    BY <2>1, <2>2, <2>3 DEF ExecutedByHolder
<1>. QED
  BY <1>6, <1>7, <1>8, <1>9 DEF OnceInv

\* Ending an operation gives the claim up.
LEMMA SettleStep ==
  ASSUME OnceInv, NEW c \in Calls, calls[c].at \in {"finish", "failing"},
         NEW state \in Final, Settle(c, state),
         UNCHANGED <<key, stack, tabs, lock, acts, effect>>, faults' \in 0..MaxFaults
  PROVE  OnceInv'
<1>. TypeOK
  BY DEF OnceInv
<1>. DEFINE i == calls[c].op
<1>1. i \in Ops /\ lock # c /\ calls[c].at \in Claimed
  BY DEF TypeOK, Applying, Claimed
<1>2. /\ rows' \in [Ops -> Row] /\ \A j \in Ops \ {i} : rows'[j] = rows[j]
      /\ rows'[i].state = state /\ rows'[i].request = rows[i].request
      /\ rows'[i].kind = rows[i].kind
  BY <1>1 DEF Settle, TypeOK, Row
<1>3. /\ calls' \in [Calls -> Call] /\ calls'[c].at \notin Applying
      /\ \A d \in Calls \ {c} : calls'[d] = calls[d]
  BY Answered DEF Settle
<1>4. state \notin {"none", "awaiting", "prepared"}
  BY DEF Final
<1>5. TypeOK'
  <2>1. memory' \in SUBSET Ops /\ \A j \in memory' : rows'[j].state # "none"
    BY <1>2, <1>4 DEF TypeOK, Settle
  <2>2. \A d \in Calls : lock = d => /\ d # c /\ calls[d].op \in Ops
                                    /\ rows'[calls[d].op].kind = "write"
    BY <1>1, <1>2 DEF TypeOK, Applying, Claimed
  <2>. QED
    BY <1>2, <1>3, <2>1, <2>2 DEF TypeOK
<1>6. OneRowPerRequest'
  <2>1. rows[i].state # "none"
    BY <1>1 DEF OnceInv, ClaimHeld
  <2>. QED
    BY <1>1, <1>2, <2>1 DEF OnceInv, OneRowPerRequest
<1>7. ClaimHeld'
  <2>1. \A d \in Calls \ {c} : ~(calls[d].at \in Claimed /\ calls[d].op = i)
    BY <1>1 DEF OnceInv, ClaimHeld
  <2>. QED
    BY <1>1, <1>2, <1>3, <1>4, <2>1 DEF OnceInv, ClaimHeld, TypeOK, Applying
<1>8. ExecutedByHolder'
  <2>1. NotYet \subseteq Applying
    BY DEF NotYet, Applying, Claimed
  <2>2. \A j \in Ops : /\ effect'[j].begun <= 1
                       /\ rows'[j].state \in {"none", "awaiting", "prepared"}
                            => effect'[j].begun = 0
    BY <1>1, <1>2, <1>4 DEF OnceInv, ExecutedByHolder
  <2>. QED
    BY <1>3, <2>1, <2>2 DEF OnceInv, ExecutedByHolder
<1>. QED
  BY <1>5, <1>6, <1>7, <1>8 DEF OnceInv

LEMMA FinishStep == ASSUME OnceInv, NEW c \in Calls, Finish(c) PROVE OnceInv'
<1>. TypeOK
  BY DEF OnceInv
<1>1. /\ faults' \in 0..MaxFaults /\ calls[c].at = "finish"
      /\ UNCHANGED <<key, stack, tabs, lock, acts, effect>>
  <2>1. Fault \/ NoFault
    BY DEF Finish
  <2>. QED
    BY <2>1, McpBoundAssumption DEF Finish, At, TypeOK, Fault, NoFault
<1>2. CASE Settle(c, "succeeded")
  <2>1. "succeeded" \in Final
    BY DEF Final
  <2>. QED
    BY <1>1, <1>2, <2>1, SettleStep
<1>3. CASE Goto(c, "failing") /\ UNCHANGED <<rows, memory>>
  <2>1. "failing" \in Places /\ "failing" \notin NotYet /\ calls[c].at \in Claimed
    BY <1>1 DEF Places, Applying, Claimed, NotYet
  <2>2. /\ calls' \in [Calls -> Call] /\ calls'[c].at = "failing"
        /\ calls'[c].op = calls[c].op /\ \A d \in Calls \ {c} : calls'[d] = calls[d]
    BY <1>3, <2>1, Went
  <2>3. calls[c].op \in Ops /\ rows[calls[c].op].state # "none" /\ lock # c
    BY <1>1, <2>1 DEF OnceInv, ClaimHeld, TypeOK, Applying
  <2>4. TypeOK'
    BY <1>1, <1>3, <2>2, <2>3 DEF TypeOK
  <2>5. OneRowPerRequest' /\ ClaimHeld' /\ ExecutedByHolder'
    BY <1>1, <1>3, <2>1, <2>2, <2>3, CallMoves
  <2>. QED
    BY <2>4, <2>5 DEF OnceInv
<1>. QED
  BY <1>2, <1>3 DEF Finish

LEMMA FailingStep == ASSUME OnceInv, NEW c \in Calls, Failing(c) PROVE OnceInv'
<1>. TypeOK
  BY DEF OnceInv
<1>1. /\ faults' \in 0..MaxFaults /\ calls[c].at = "failing"
      /\ UNCHANGED <<key, stack, tabs, lock, acts, effect>>
  <2>1. Fault \/ NoFault
    BY DEF Failing
  <2>. QED
    BY <2>1, McpBoundAssumption DEF Failing, At, TypeOK, Fault, NoFault
<1>2. CASE Settle(c, "failed")
  <2>1. "failed" \in Final
    BY DEF Final
  <2>. QED
    BY <1>1, <1>2, <2>1, SettleStep
<1>3. CASE memory' = memory \ {calls[c].op} /\ Answer(c) /\ UNCHANGED rows
  <2>1. lock # c /\ NotYet \subseteq Applying /\ Claimed \subseteq Applying
    BY <1>1 DEF TypeOK, NotYet, Applying, Claimed
  <2>2. /\ calls' \in [Calls -> Call] /\ calls'[c].at \notin Applying
        /\ \A d \in Calls \ {c} : calls'[d] = calls[d]
    BY <1>3, Answered
  <2>3. TypeOK'
    BY <1>1, <1>3, <2>1, <2>2 DEF TypeOK
  <2>4. OneRowPerRequest' /\ ClaimHeld' /\ ExecutedByHolder'
    BY <1>1, <1>3, <2>1, <2>2, CallMoves
  <2>. QED
    BY <2>3, <2>4 DEF OnceInv
<1>. QED
  BY <1>2, <1>3 DEF Failing

----------------------------------------------------------------------------
(* The owner, the clock, the panel's own saves, restarts *)

\* What leaves rows, calls and effects alone leaves the claims alone.
LEMMA OwnerMoves ==
  ASSUME OnceInv, UNCHANGED <<rows, calls, effect>>
  PROVE  OneRowPerRequest' /\ ClaimHeld' /\ ExecutedByHolder'
  BY DEF OnceInv, OneRowPerRequest, ClaimHeld, ExecutedByHolder

LEMMA ReadKeyStep == ASSUME OnceInv, NEW o \in Owners, ReadKey(o) PROVE OnceInv'
<1>1. acts' \in 0..MaxActs
  BY McpBoundAssumption DEF OnceInv, TypeOK, ReadKey
<1>2. TypeOK'
  BY <1>1 DEF OnceInv, TypeOK, ReadKey, durable
<1>. QED
  BY <1>2, OwnerMoves DEF OnceInv, ReadKey, durable

LEMMA WriteKeyStep == ASSUME OnceInv, NEW o \in Owners, WriteKey(o) PROVE OnceInv'
<1>1. PICK mode \in Modes : key' = [key EXCEPT !.mode = mode, !.version = tabs[o].version + 1]
  BY DEF WriteKey, NextVersion
<1>2. key' \in Key
  <2>1. key \in Key /\ tabs[o].version + 1 \in Nat
    BY DEF OnceInv, TypeOK, Key
  <2>. QED
    BY <1>1, <2>1 DEF Key
<1>3. tabs' \in [Owners -> Key]
  BY Records DEF OnceInv, TypeOK, WriteKey
<1>4. TypeOK'
  BY <1>2, <1>3 DEF OnceInv, TypeOK, WriteKey, counters
<1>. QED
  BY <1>4, OwnerMoves DEF OnceInv, WriteKey

LEMMA RevokeStep == ASSUME OnceInv, Revoke PROVE OnceInv'
<1>1. acts' \in 0..MaxActs /\ key' \in Key
  <2>1. acts \in 0..MaxActs /\ key \in Key
    BY DEF OnceInv, TypeOK
  <2>2. acts < MaxActs /\ acts' = acts + 1 /\ key' = [key EXCEPT !.live = FALSE]
    BY DEF Revoke
  <2>3. key' \in Key
    BY <2>1, <2>2 DEF Key
  <2>. QED
    BY <2>1, <2>2, <2>3, McpBoundAssumption
<1>2. TypeOK'
  BY <1>1 DEF OnceInv, TypeOK, Revoke
<1>. QED
  BY <1>2, OwnerMoves DEF OnceInv, Revoke

LEMMA SaveStep == ASSUME OnceInv, Save PROVE OnceInv'
<1>1. acts' \in 0..MaxActs /\ stack' \in Stack
  BY McpBoundAssumption DEF OnceInv, TypeOK, Save, Stack
<1>2. TypeOK'
  BY <1>1 DEF OnceInv, TypeOK, Save
<1>. QED
  BY <1>2, OwnerMoves DEF OnceInv, Save

\* A row that changes without being claimed or forgotten keeps the claims.
LEMMA RowMoves ==
  ASSUME OnceInv, NEW i \in Ops, rows' \in [Ops -> Row],
         \A j \in Ops \ {i} : rows'[j] = rows[j],
         rows'[i].request = rows[i].request, rows'[i].kind = rows[i].kind,
         rows'[i].state # "none", rows[i].state # "none",
         rows'[i].state = "running" <=> rows[i].state = "running",
         rows'[i].state \in {"awaiting", "prepared"}
            => rows[i].state \in {"awaiting", "prepared"},
         UNCHANGED <<key, stack, tabs, memory, calls, lock, acts, faults, effect>>
  PROVE  OnceInv'
<1>1. TypeOK'
  <2>1. \A j \in memory : rows'[j].state # "none"
    BY DEF OnceInv, TypeOK
  <2>2. \A d \in Calls : lock = d => rows'[calls[d].op].kind = "write"
    BY DEF OnceInv, TypeOK, Applying, Claimed
  <2>. QED
    BY <2>1, <2>2 DEF OnceInv, TypeOK
<1>2. OneRowPerRequest'
  BY DEF OnceInv, OneRowPerRequest
<1>3. ClaimHeld'
  BY DEF OnceInv, ClaimHeld, TypeOK, Applying
<1>4. ExecutedByHolder'
  BY DEF OnceInv, ExecutedByHolder
<1>. QED
  BY <1>1, <1>2, <1>3, <1>4 DEF OnceInv

LEMMA ApproveStep == ASSUME OnceInv, NEW i \in Ops, Approve(i) PROVE OnceInv'
<1>1. /\ rows' \in [Ops -> Row] /\ \A j \in Ops \ {i} : rows'[j] = rows[j]
      /\ rows[i].state = "awaiting" /\ rows'[i].state = "prepared"
      /\ rows'[i].request = rows[i].request /\ rows'[i].kind = rows[i].kind
  <2>. DEFINE row == [rows[i] EXCEPT !.state = "prepared", !.approved = TRUE]
  <2>1. rows \in [Ops -> Row] /\ rows[i] \in Row /\ rows[i].state = "awaiting"
    BY DEF OnceInv, TypeOK, Approve, Approvable
  <2>2. /\ row \in Row /\ row.state = "prepared"
        /\ row.request = rows[i].request /\ row.kind = rows[i].kind
    BY <2>1 DEF Row
  <2>3. rows' = [rows EXCEPT ![i] = row]
    BY <2>1 DEF Approve
  <2>. HIDE DEF row
  <2>. QED
    BY <2>1, <2>2, <2>3
<1>. QED
  BY <1>1, RowMoves DEF Approve, counters

LEMMA ExpireStep == ASSUME OnceInv, NEW i \in Ops, Expire(i) PROVE OnceInv'
<1>1. /\ rows' \in [Ops -> Row] /\ \A j \in Ops \ {i} : rows'[j] = rows[j]
      /\ rows'[i].state = rows[i].state /\ rows[i].state # "none"
      /\ rows'[i].request = rows[i].request /\ rows'[i].kind = rows[i].kind
  <2>. DEFINE row == [rows[i] EXCEPT !.expired = TRUE]
  <2>1. rows \in [Ops -> Row] /\ rows[i] \in Row /\ rows[i].state # "none"
    BY DEF OnceInv, TypeOK, Expire
  <2>2. /\ row \in Row /\ row.state = rows[i].state
        /\ row.request = rows[i].request /\ row.kind = rows[i].kind
    BY <2>1 DEF Row
  <2>3. rows' = [rows EXCEPT ![i] = row]
    BY <2>1 DEF Expire
  <2>. HIDE DEF row
  <2>. QED
    BY <2>1, <2>2, <2>3
<1>. QED
  BY <1>1, RowMoves DEF Expire, counters

\* The commands that the dying process may still have issued are those of calls
\* that hold a claim and had not issued one before.
LEMMA RestartStep == ASSUME OnceInv, Restart PROVE OnceInv'
<1>. TypeOK
  BY DEF OnceInv
<1>1. faults' \in 0..MaxFaults
  BY McpBoundAssumption DEF TypeOK, Restart, Fault
<1>2. PICK S \in SUBSET {c \in Calls : At(c, "command")} : Took(S)
  BY DEF Restart
<1>3. /\ effect' \in [Ops -> Effect] /\ stack' \in Stack
      /\ \A i \in Ops : \/ effect'[i].begun = effect[i].begun
                        \/ \E c \in S : /\ calls[c].op = i /\ calls[c].round = 1
                                        /\ effect'[i].begun = effect[i].begun + 1
  BY <1>2, TookEffect
<1>4. \A c \in S : /\ rows[calls[c].op].state = "running"
                   /\ calls[c].round = 1 => effect[calls[c].op].begun = 0
  BY <1>2 DEF OnceInv, ClaimHeld, ExecutedByHolder, At, Claimed, NotYet
<1>5. /\ \A c \in Calls : calls'[c].at = "idle"
      /\ calls' \in [Calls -> Call] /\ tabs' \in [Owners -> Key]
  BY Records DEF Restart, NoCall
<1>6. "idle" \notin Applying /\ Claimed \subseteq Applying /\ NotYet \subseteq Applying
  BY DEF Applying, Claimed, NotYet
<1>7. TypeOK'
  BY <1>1, <1>3, <1>5, <1>6, FreeIsNobody DEF TypeOK, Restart
<1>8. OneRowPerRequest'
  BY DEF OnceInv, OneRowPerRequest, Restart
<1>9. ClaimHeld'
  BY <1>5, <1>6 DEF ClaimHeld
<1>10. ExecutedByHolder'
  <2>1. ASSUME NEW i \in Ops
        PROVE  /\ effect'[i].begun <= 1
               /\ rows'[i].state \in {"none", "awaiting", "prepared"} => effect'[i].begun = 0
    BY <1>3, <1>4, <2>1 DEF OnceInv, ExecutedByHolder, Restart
  <2>. QED
    BY <1>5, <1>6, <2>1 DEF ExecutedByHolder
<1>. QED
  BY <1>7, <1>8, <1>9, <1>10 DEF OnceInv

----------------------------------------------------------------------------
(* The theorems *)

LEMMA InitOnce == Init => OnceInv
<1>. SUFFICES ASSUME Init PROVE OnceInv
  OBVIOUS
<1>1. TypeOK
  <2>1. key \in Key
    <3>1. PICK mode \in Made : key = [live |-> TRUE, mode |-> mode, version |-> 1]
      BY DEF Init
    <3>2. mode \in Modes
      BY MadeAssumption DEF Modes
    <3>. QED
      BY <3>1, <3>2 DEF Key
  <2>2. /\ tabs \in [Owners -> Key] /\ rows \in [Ops -> Row] /\ calls \in [Calls -> Call]
        /\ effect \in [Ops -> Effect] /\ stack \in Stack /\ memory = {}
    BY Records DEF Init
  <2>3. acts \in 0..MaxActs /\ faults \in 0..MaxFaults
    BY McpBoundAssumption DEF Init
  <2>4. lock = Free /\ \A c \in Calls : lock # c /\ calls[c].at \notin Applying
    <3>1. NoCall.at \notin Applying
      BY DEF NoCall, Applying, Claimed
    <3>. QED
      BY <3>1, FreeIsNobody DEF Init
  <2>. QED
    BY <2>1, <2>2, <2>3, <2>4 DEF TypeOK
<1>2. OneRowPerRequest
  BY DEF Init, OneRowPerRequest, NoRow
<1>3. ClaimHeld
  BY DEF Init, ClaimHeld, NoCall, Applying, Claimed
<1>4. ExecutedByHolder
  BY DEF Init, ExecutedByHolder, NoEffect, NoCall, NotYet
<1>. QED
  BY <1>1, <1>2, <1>3, <1>4 DEF OnceInv

LEMMA NextOnce == OnceInv /\ [Next]_vars => OnceInv'
<1>. SUFFICES ASSUME OnceInv, [Next]_vars PROVE OnceInv'
  OBVIOUS
<1>1. CASE UNCHANGED vars
  <2>1. TypeOK'
    BY <1>1 DEF vars, durable, counters, OnceInv, TypeOK
  <2>. QED
    BY <1>1, <2>1, OwnerMoves DEF vars, durable, OnceInv
<1>2. ASSUME NEW c \in Calls, Prepare(c) \/ Apply(c) PROVE OnceInv'
  BY <1>2, PrepareStep, ApplyStep
<1>3. ASSUME NEW c \in Calls, Going(c) PROVE OnceInv'
  BY <1>3, InspectStep, FreshStep, PruneStep, InsertStep, CheckpointStep, CompareStep,
     ClaimStep, CommandStep, FinishStep, FailingStep DEF Going
<1>4. CASE Owner
  BY <1>4, ReadKeyStep, WriteKeyStep, RevokeStep, ApproveStep DEF Owner
<1>5. ASSUME NEW i \in Ops, Expire(i) PROVE OnceInv'
  BY <1>5, ExpireStep
<1>6. CASE Save \/ Restart
  BY <1>6, SaveStep, RestartStep
<1>. QED
  BY <1>1, <1>2, <1>3, <1>4, <1>5, <1>6 DEF Next

\* The claim and the row of a request (mcp-operations.ts:227 and 271) are held by
\* one call and one operation in every reachable state.
THEOREM OnceInvariant == Spec => []OnceInv
  BY InitOnce, NextOnce, PTL DEF Spec

\* Rows, calls, memory and the lock keep their types for any number of calls,
\* operations, tabs and failures.
THEOREM TypeCorrect == Spec => []TypeOK
<1>1. OnceInv => TypeOK
  BY DEF OnceInv
<1>. QED
  BY <1>1, OnceInvariant, PTL

\* docs/mcp.md:171 and 241: an operation is executed once and a repeated request
\* does not execute a second one, with any number of clients, retries, failures
\* and restarts.
THEOREM ExecutedAtMostOnce == Spec => []AtMostOnce
<1>1. OnceInv => AtMostOnce
  <2>. SUFFICES ASSUME OnceInv, NEW i \in Ops, NEW j \in Ops
                PROVE  /\ effect[i].begun <= 1
                       /\ (/\ rows[i].request = rows[j].request
                           /\ effect[i].begun + effect[j].begun > 1) => i = j
    BY DEF AtMostOnce
  <2>1. /\ effect[i].begun \in Nat /\ effect[j].begun \in Nat
        /\ effect[i].begun <= 1 /\ effect[j].begun <= 1
    BY DEF OnceInv, TypeOK, Effect, ExecutedByHolder
  <2>2. (effect[i].begun # 0 => rows[i].state # "none")
        /\ (effect[j].begun # 0 => rows[j].state # "none")
    BY DEF OnceInv, ExecutedByHolder
  <2>3. (rows[i].state # "none" /\ rows[j].state # "none"
           /\ rows[i].request = rows[j].request) => i = j
    BY DEF OnceInv, OneRowPerRequest
  <2>. QED
    BY <2>1, <2>2, <2>3
<1>. QED
  BY <1>1, OnceInvariant, PTL

----------------------------------------------------------------------------
(* What an operation does to the stack and what its row says of it, on top   *)
(* of the claim that has one holder                                           *)

Before == {"revalidate", "owned", "claim"}
Guarded == {"guard", "resnap", "command"}

\* What a call that holds a claim knows: whether its first command has run, that the
\* file it is about to replace is the one that was read, that the checkpoint before its
\* command found the key in force.
Doing(c) ==
    /\ calls[c].at \in Before => calls[c].round = 1
    /\ calls[c].at = "finish" \/ (calls[c].at \in NotYet /\ calls[c].round = 2)
         => effect[calls[c].op].begun = 1
    /\ calls[c].at \in Guarded /\ rows[calls[c].op].kind = "write"
         => lock = c /\ stack.files = rows[calls[c].op].fp.files
    /\ calls[c].at \in {"resnap", "command"} => effect[calls[c].op].late = 0

Done(i) ==
    /\ rows[i].state = "succeeded" => effect[i].begun = 1
    /\ effect[i].blind = FALSE
    /\ effect[i].late <= 1

OutcomeInv == (\A c \in Calls : Doing(c)) /\ (\A i \in Ops : Done(i))

\* A step that executes nothing of i, and leaves its row what it was about.
Undisturbed(i) ==
    /\ effect'[i].begun = effect[i].begun /\ effect'[i].blind = effect[i].blind
    /\ effect'[i].late = effect[i].late \/ effect'[i].late = 0
Lasting(i) ==
    /\ rows[i].state # "none" => rows'[i].kind = rows[i].kind /\ rows'[i].fp = rows[i].fp
    /\ rows'[i].state = "succeeded" => rows[i].state = "succeeded" \/ effect[i].begun = 1

\* A call that applies an operation names one that has a row.
LEMMA Named ==
  ASSUME OnceInv, NEW d \in Calls, calls[d].at \in NotYet \cup {"finish"}
  PROVE  calls[d].op \in Ops /\ rows[calls[d].op].state # "none"
BY DEF OnceInv, TypeOK, ClaimHeld, NotYet, Applying, Claimed

\* What the other calls know is not changed by a step that executes nothing.
LEMMA Elsewhere ==
  ASSUME OnceInv, NEW d \in Calls, Doing(d), calls'[d] = calls[d],
         UNCHANGED stack, lock = d => lock' = d,
         \A i \in Ops : Undisturbed(i) /\ Lasting(i)
  PROVE  Doing(d)'
<1>1. CASE calls[d].at \in NotYet \cup {"finish"}
  <2>1. calls[d].op \in Ops /\ rows[calls[d].op].state # "none"
    BY <1>1, Named
  <2> QED BY <2>1 DEF Doing, Undisturbed, Lasting
<1>2. CASE calls[d].at \notin NotYet \cup {"finish"}
  BY <1>2 DEF Doing, NotYet, Guarded, Before
<1> QED BY <1>1, <1>2

LEMMA Ended ==
  ASSUME NEW i \in Ops, Done(i), Undisturbed(i), Lasting(i)
  PROVE  Done(i)'
BY DEF Done, Undisturbed, Lasting

\* A step of one call that executes nothing.
LEMMA Stepped ==
  ASSUME OnceInv, OutcomeInv, NEW c \in Calls,
         \A d \in Calls \ {c} : calls'[d] = calls[d],
         UNCHANGED stack, lock' = lock \/ lock \in {c, Free},
         \A i \in Ops : Undisturbed(i) /\ Lasting(i),
         Doing(c)'
  PROVE  OutcomeInv'
<1>1. \A d \in Calls \ {c} : Doing(d)'
  <2> TAKE d \in Calls \ {c}
  <2>1. lock = d => lock' = d
    BY FreeIsNobody
  <2> QED BY <2>1, Elsewhere DEF OutcomeInv
<1>2. \A i \in Ops : Done(i)'
  BY Ended DEF OutcomeInv
<1> QED BY <1>1, <1>2 DEF OutcomeInv

\* Calls that prepare, and calls that gave up, have nothing to keep.
LEMMA Idle ==
  ASSUME NEW c \in Calls, calls'[c].at \notin Before \cup NotYet \cup {"finish"}
  PROVE  Doing(c)'
BY DEF Doing, NotYet, Guarded

\* What does not touch effects and rows.
LEMMA Unaltered ==
  ASSUME UNCHANGED <<rows, effect>>
  PROVE  \A i \in Ops : Undisturbed(i) /\ Lasting(i)
BY DEF Undisturbed, Lasting

----------------------------------------------------------------------------
(* Calls *)

\* operation_prepare up to its insertion.
LEMMA PreparingKeeps ==
  ASSUME OnceInv, OutcomeInv, NEW c \in Calls,
         Prepare(c) \/ Inspect(c) \/ Fresh(c) \/ Prune(c)
  PROVE  OutcomeInv'
<1>1. UNCHANGED <<rows, effect, stack, lock>> /\ \A d \in Calls \ {c} : calls'[d] = calls[d]
  BY DEF Prepare, Inspect, Fresh, Prune, durable, Answer, Goto, OnceInv, TypeOK
<1>2. calls'[c].at \in {"idle"} \cup Preparing
  <2>1. CASE Prepare(c)
    BY <2>1 DEF Prepare, NoCall, Preparing, OnceInv, TypeOK
  <2>2. CASE Answer(c)
    BY <2>2 DEF Answer, NoCall, OnceInv, TypeOK
  <2>3. CASE Goto(c, "insert")
    BY <2>3, Went DEF OnceInv, Places, Preparing
  <2>4. calls[c] \in Call
    BY DEF OnceInv, TypeOK
  <2>5. CASE Inspect(c) /\ ~Answer(c)
    BY <2>4, <2>5 DEF Inspect, Call, Preparing, OnceInv, TypeOK
  <2>6. CASE Fresh(c) /\ ~Answer(c)
    BY <2>4, <2>6 DEF Fresh, Call, Preparing, OnceInv, TypeOK
  <2> QED BY <2>1, <2>2, <2>3, <2>5, <2>6 DEF Prune
<1>3. Doing(c)'
  BY <1>2, Idle DEF NotYet, Preparing, Before
<1> QED BY <1>1, <1>3, Stepped, Unaltered

\* A new row is nobody's yet.
LEMMA InsertKeeps ==
  ASSUME OnceInv, OutcomeInv, NEW c \in Calls, Insert(c)
  PROVE  OutcomeInv'
<1>1. /\ UNCHANGED <<effect, stack, lock>> /\ \A d \in Calls \ {c} : calls'[d] = calls[d]
      /\ calls'[c].at \notin Applying
  BY Answered DEF Insert, OnceInv
<1>2. Doing(c)'
  BY <1>1, Idle DEF NotYet, Applying, Claimed, Before
<1>3. \A i \in Ops : Undisturbed(i)
  BY <1>1 DEF Undisturbed
<1>4. CASE UNCHANGED rows
  BY <1>1, <1>2, <1>4, Stepped, Unaltered
<1>5. CASE ~UNCHANGED rows
  <2>1. PICK i \in Ops, kind \in Kinds :
          /\ rows[i].state = "none"
          /\ rows' = [rows EXCEPT ![i] = [NoRow EXCEPT !.state = StateFor(calls[c].mode),
                        !.request = calls[c].request, !.kind = kind,
                        !.version = calls[c].version, !.fp = calls[c].fp]]
    BY <1>5 DEF Insert
  <2>2. /\ \A j \in Ops \ {i} : rows'[j] = rows[j]
        /\ rows'[i].state = StateFor(calls[c].mode)
    BY <2>1 DEF NoRow, OnceInv, TypeOK
  <2>3. \A j \in Ops : Lasting(j)
    BY <2>1, <2>2 DEF Lasting, StateFor
  <2> QED BY <1>1, <1>2, <1>3, <2>3, Stepped
<1> QED BY <1>4, <1>5

LEMMA ApplyKeeps ==
  ASSUME OnceInv, OutcomeInv, NEW c \in Calls, Apply(c)
  PROVE  OutcomeInv'
<1>1. /\ UNCHANGED <<rows, effect, stack, lock>> /\ \A d \in Calls \ {c} : calls'[d] = calls[d]
      /\ calls'[c].at = "revalidate" /\ calls'[c].round = 1
  BY DEF Apply, NoCall, durable, OnceInv, TypeOK
<1>2. Doing(c)'
  BY <1>1 DEF Doing, NotYet, Guarded, Before
<1> QED BY <1>1, <1>2, Stepped, Unaltered

\* An error before the claim is answered, one after it is recorded.
LEMMA FailKeeps ==
  ASSUME OnceInv, OutcomeInv, NEW c \in Calls, Fail(c), UNCHANGED <<rows, effect, stack>>
  PROVE  OutcomeInv'
<1>1. \A d \in Calls \ {c} : calls'[d] = calls[d]
  BY Failed DEF OnceInv
<1>2. lock' = lock \/ lock = c
  BY DEF Fail, Unlock
<1>3. Doing(c)'
  <2>1. calls'[c].at = "failing" \/ calls'[c].at \notin Applying
    BY Failed DEF OnceInv
  <2> QED BY <2>1, Idle DEF NotYet, Before, Applying, Claimed
<1> QED BY <1>1, <1>2, <1>3, Stepped, Unaltered

\* A checkpoint that passes has read a key in force.
LEMMA CheckpointKeeps ==
  ASSUME OnceInv, OutcomeInv, NEW c \in Calls, Checkpoint(c)
  PROVE  OutcomeInv'
<1>1. UNCHANGED <<rows, stack>> /\ calls[c].at \in CheckpointAt /\ Doing(c)
  BY DEF Checkpoint, durable, OutcomeInv
<1>2. CASE Fail(c) /\ UNCHANGED effect
  BY <1>1, <1>2, FailKeeps
<1>3. CASE /\ Owned(key, RowOf(c)) /\ Goto(c, Following(c)) /\ UNCHANGED lock
           /\ effect' = [effect EXCEPT ![calls[c].op].late =
                           IF InForce(RowOf(c)) THEN 0 ELSE @]
  <2>1. Following(c) \in Places
    BY <1>1, Follows DEF Places
  <2>2. /\ calls'[c].at = Following(c) /\ calls'[c].op = calls[c].op
        /\ calls'[c].round = calls[c].round /\ \A d \in Calls \ {c} : calls'[d] = calls[d]
    BY <1>3, <2>1, Went DEF OnceInv
  <2>3. effect' = [effect EXCEPT ![calls[c].op].late = 0]
    BY <1>3 DEF Owned, InForce
  <2>4. calls[c].op \in Ops
    BY <1>1 DEF OnceInv, TypeOK, CheckpointAt, Applying, Claimed
  <2>5. (\A i \in Ops : Undisturbed(i)) /\ effect'[calls[c].op].late = 0
    BY <2>3, <2>4 DEF Undisturbed, OnceInv, TypeOK, Effect
  <2>6. \A i \in Ops : Lasting(i)
    BY <1>1 DEF Lasting
  <2>7. Doing(c)'
    <3>1. effect'[calls[c].op].begun = effect[calls[c].op].begun
      BY <2>4, <2>5 DEF Undisturbed
    <3>2. /\ calls[c].at = "owned" => Following(c) = "claim"
          /\ calls[c].at = "confirm" => Following(c) = "reread"
          /\ calls[c].at = "guard" => Following(c) \in {"resnap", "command"}
      BY DEF Following
    <3> QED BY <1>1, <1>3, <2>2, <2>5, <3>1, <3>2
            DEF Doing, CheckpointAt, Before, NotYet, Guarded
  <2> QED BY <1>1, <1>3, <2>2, <2>5, <2>6, <2>7, Stepped
<1> QED BY <1>2, <1>3 DEF Checkpoint

\* A comparison that passes before the lock is held, takes it, or is made under it.
LEMMA CompareKeeps ==
  ASSUME OnceInv, OutcomeInv, NEW c \in Calls, Compare(c)
  PROVE  OutcomeInv'
<1>1. /\ UNCHANGED <<rows, stack, effect>> /\ calls[c].at \in CompareAt /\ Doing(c)
      /\ Locks(c) => lock = Free
  BY DEF Compare, durable, OutcomeInv
<1>2. CASE Fail(c)
  BY <1>1, <1>2, FailKeeps
<1>3. CASE /\ Same(c) /\ Goto(c, Following(c))
           /\ lock' = IF Locks(c) THEN c ELSE lock
  <2>1. Following(c) \in Places
    BY <1>1, Follows DEF Places
  <2>2. /\ calls'[c].at = Following(c) /\ calls'[c].op = calls[c].op
        /\ calls'[c].round = calls[c].round /\ \A d \in Calls \ {c} : calls'[d] = calls[d]
    BY <1>3, <2>1, Went DEF OnceInv
  <2>3. /\ calls[c].at = "revalidate" => Following(c) = "owned"
        /\ calls[c].at = "reread" => Following(c) = "snapshot"
        /\ calls[c].at = "snapshot" => Following(c) = "guard"
        /\ calls[c].at = "resnap" => Following(c) = "command"
    BY DEF Following
  <2>4. stack.files = rows[calls[c].op].fp.files
    BY <1>3 DEF Same, Unchanged, RowOf
  <2>5. calls[c].at = "snapshot" /\ rows[calls[c].op].kind = "write" => lock' = c
    BY <1>3 DEF Locks, At, RowOf
  <2>6. calls[c].at # "snapshot" => lock' = lock
    BY <1>3 DEF Locks, At
  <2>7. Doing(c)'
    BY <1>1, <2>2, <2>3, <2>4, <2>5, <2>6 DEF Doing, CompareAt, Before, NotYet, Guarded
  <2>8. lock' = lock \/ lock \in {c, Free}
    BY <1>1, <1>3
  <2> QED BY <1>1, <2>2, <2>7, <2>8, Stepped, Unaltered
<1> QED BY <1>2, <1>3 DEF Compare

\* The claim changes the state of the row, and the mode it is made under.
LEMMA ClaimKeeps ==
  ASSUME OnceInv, OutcomeInv, NEW c \in Calls, Claim(c)
  PROVE  OutcomeInv'
<1>1. /\ UNCHANGED <<stack, lock>> /\ calls[c].at = "claim" /\ Doing(c)
      /\ calls[c].op \in Ops
  BY DEF Claim, At, OutcomeInv, OnceInv, TypeOK, Applying
<1>2. CASE Answer(c) /\ UNCHANGED <<rows, effect>>
  <2>1. Doing(c)' /\ \A d \in Calls \ {c} : calls'[d] = calls[d]
    <3>1. /\ calls'[c].at \notin Applying
          /\ \A d \in Calls \ {c} : calls'[d] = calls[d]
      BY <1>2, Answered DEF OnceInv
    <3>2. Doing(c)'
      BY <3>1, Idle DEF NotYet, Before, Applying, Claimed
    <3> QED BY <3>1, <3>2
  <2> QED BY <1>1, <1>2, <2>1, Stepped, Unaltered
<1>3. CASE /\ rows' = [rows EXCEPT ![calls[c].op].state = "running"]
           /\ effect' = [effect EXCEPT ![calls[c].op].mode = key.mode]
           /\ Goto(c, "confirm")
  <2>1. "confirm" \in Places
    BY DEF Places, Applying, Claimed
  <2>2. /\ calls'[c].at = "confirm" /\ calls'[c].round = calls[c].round
        /\ \A d \in Calls \ {c} : calls'[d] = calls[d]
    BY <1>3, <2>1, Went DEF OnceInv
  <2>3. \A i \in Ops : Undisturbed(i)
    BY <1>1, <1>3 DEF Undisturbed, OnceInv, TypeOK, Effect
  <2>4. \A i \in Ops : Lasting(i)
    BY <1>1, <1>3 DEF Lasting, OnceInv, TypeOK, Row
  <2>5. Doing(c)'
    BY <1>1, <2>2 DEF Doing, Before, Guarded
  <2> QED BY <1>1, <2>2, <2>3, <2>4, <2>5, Stepped
<1> QED BY <1>2, <1>3 DEF Claim

\* Only what has been executed is settled as succeeded.
LEMMA SettledKeeps ==
  ASSUME OnceInv, OutcomeInv, NEW c \in Calls, calls[c].at \in {"finish", "failing"},
         NEW state \in Final, Settle(c, state), UNCHANGED <<stack, lock, effect>>,
         state = "succeeded" => calls[c].at = "finish"
  PROVE  OutcomeInv'
<1>1. calls[c].op \in Ops /\ Doing(c)
  BY DEF OnceInv, TypeOK, Applying, Claimed, OutcomeInv
<1>2. /\ calls'[c].at \notin Applying
      /\ \A d \in Calls \ {c} : calls'[d] = calls[d]
  BY Answered DEF OnceInv, Settle
<1>3. Doing(c)'
  BY <1>2, Idle DEF NotYet, Before, Applying, Claimed
<1>4. \A i \in Ops : Undisturbed(i)
  BY DEF Undisturbed
<1>5. \A i \in Ops : Lasting(i)
  <2>1. /\ \A i \in Ops \ {calls[c].op} : rows'[i] = rows[i]
        /\ rows'[calls[c].op].kind = rows[calls[c].op].kind
        /\ rows'[calls[c].op].fp = rows[calls[c].op].fp
        /\ rows'[calls[c].op].state = state
    BY <1>1 DEF Settle, OnceInv, TypeOK, Row
  <2>2. state = "succeeded" => effect[calls[c].op].begun = 1
    BY <1>1 DEF Doing
  <2> QED BY <2>1, <2>2 DEF Lasting
<1> QED BY <1>2, <1>3, <1>4, <1>5, Stepped

LEMMA FinishKeeps ==
  ASSUME OnceInv, OutcomeInv, NEW c \in Calls, Finish(c) \/ Failing(c)
  PROVE  OutcomeInv'
<1>1. UNCHANGED <<stack, lock, effect>> /\ "succeeded" \in Final /\ "failed" \in Final
  BY DEF Finish, Failing, Final
<1>2. CASE Finish(c) /\ Settle(c, "succeeded")
  BY <1>1, <1>2, SettledKeeps DEF Finish, At
<1>3. CASE Failing(c) /\ Settle(c, "failed")
  BY <1>1, <1>3, SettledKeeps DEF Failing, At
<1>4. CASE (Goto(c, "failing") \/ Answer(c)) /\ UNCHANGED rows
  <2>1. "failing" \in Places
    BY DEF Places, Applying, Claimed
  <2>2. /\ calls'[c].at = "failing" \/ calls'[c].at \notin Applying
        /\ \A d \in Calls \ {c} : calls'[d] = calls[d]
    BY <1>4, <2>1, Went, Answered DEF OnceInv
  <2>3. Doing(c)'
    BY <2>2, Idle DEF NotYet, Before, Applying, Claimed
  <2> QED BY <1>1, <1>4, <2>2, <2>3, Stepped, Unaltered
<1> QED BY <1>2, <1>3, <1>4 DEF Finish, Failing

----------------------------------------------------------------------------
(* Commands and their effects *)

\* What commands do to an operation is done by one of them.
LEMMA TookHistory ==
  ASSUME OnceInv, NEW S \in SUBSET Calls, Took(S), NEW i \in Ops
  PROVE  \/ effect'[i] = effect[i] /\ \A c \in S : calls[c].op # i
         \/ \E c \in S :
              /\ calls[c].op = i
              /\ effect'[i].begun =
                   IF calls[c].round = 1 THEN effect[i].begun + 1 ELSE effect[i].begun
              /\ effect'[i].late \in {effect[i].late, effect[i].late + 1}
              /\ effect[i].blind = FALSE /\ effect'[i].blind # FALSE
                   => rows[i].kind = "write" /\ stack.files # rows[i].fp.files
<1>1. effect[i] \in Effect
  BY DEF OnceInv, TypeOK
<1>2. CASE ~ \E c \in S : calls[c].op = i
  BY <1>2 DEF Took
<1>3. CASE \E c \in S : calls[c].op = i
  <2> DEFINE c == CHOOSE x \in S : calls[x].op = i
             begun == IF calls[c].round = 1 THEN effect[i].begun + 1 ELSE effect[i].begun
             late == IF InForce(rows[i]) THEN effect[i].late ELSE effect[i].late + 1
             blind == effect[i].blind \/ (rows[i].kind = "write"
                                            /\ stack.files # rows[i].fp.files)
  <2>1. c \in S /\ calls[c].op = i
    BY <1>3
  <2>2. effect'[i] = [effect[i] EXCEPT !.begun = begun, !.late = late, !.blind = blind]
    BY <1>3 DEF Took
  <2>3. late \in {effect[i].late, effect[i].late + 1}
    OBVIOUS
  <2>4. /\ blind \in BOOLEAN
        /\ effect[i].blind = FALSE /\ blind # FALSE
             => rows[i].kind = "write" /\ stack.files # rows[i].fp.files
    OBVIOUS
  <2> HIDE DEF c, late, blind
  <2>5. effect'[i].begun = begun /\ effect'[i].late = late /\ effect'[i].blind = blind
    BY <1>1, <2>2 DEF Effect
  <2> QED BY <2>1, <2>3, <2>4, <2>5
<1> QED BY <1>2, <1>3

\* Only a call at its command writes, and a file only under the lock.
LEMMA TookFiles ==
  ASSUME OnceInv, NEW S \in SUBSET Calls, Took(S),
         stack'.files # stack.files
  PROVE  \E c \in S : rows[calls[c].op].kind = "write"
<1> DEFINE files == \E c \in S : RowOf(c).kind = "write"
           runtime == \E c \in S : RowOf(c).kind = "control" \/ calls[c].round = 2
<1>1. stack' = [files |-> IF files THEN stack.files + 1 ELSE stack.files,
                runtime |-> IF runtime THEN stack.runtime + 1 ELSE stack.runtime]
  BY DEF Took
<1> HIDE DEF runtime, files
<1>2. files
  BY <1>1
<1> QED BY <1>2 DEF files, RowOf

\* What holds of a call at its command.
LEMMA AtCommand ==
  ASSUME OnceInv, OutcomeInv, NEW c \in Calls, calls[c].at = "command"
  PROVE  /\ calls[c].op \in Ops /\ rows[calls[c].op].state = "running"
         /\ effect[calls[c].op].late = 0
         /\ rows[calls[c].op].kind = "write" =>
              lock = c /\ stack.files = rows[calls[c].op].fp.files
         /\ effect[calls[c].op].begun = IF calls[c].round = 1 THEN 0 ELSE 1
         /\ calls[c].round \in {1, 2}
<1>1. calls[c].at \in NotYet /\ calls[c].at \in Claimed /\ calls[c].at \in Guarded
  BY DEF NotYet, Claimed, Guarded
<1>2. calls[c].op \in Ops /\ rows[calls[c].op].state = "running" /\ calls[c].round \in {1, 2}
  BY <1>1 DEF OnceInv, ClaimHeld, TypeOK, Applying, Call
<1>3. Doing(c)
  BY DEF OutcomeInv
<1> QED BY <1>1, <1>2, <1>3 DEF Doing, OnceInv, ExecutedByHolder

\* Commands at their place leave every operation as it should be.
LEMMA TookDone ==
  ASSUME OnceInv, OutcomeInv, NEW S \in SUBSET {c \in Calls : At(c, "command")}, Took(S),
         UNCHANGED rows, NEW i \in Ops
  PROVE  Done(i)'
<1>1. Done(i) /\ effect[i] \in Effect
  BY DEF OutcomeInv, OnceInv, TypeOK
<1>2. CASE effect'[i] = effect[i]
  BY <1>1, <1>2 DEF Done
<1>3. CASE \E c \in S :
             /\ calls[c].op = i
             /\ effect'[i].late \in {effect[i].late, effect[i].late + 1}
             /\ effect[i].blind = FALSE /\ effect'[i].blind # FALSE
                  => rows[i].kind = "write" /\ stack.files # rows[i].fp.files
  <2>1. PICK c \in S :
             /\ calls[c].op = i
             /\ effect'[i].late \in {effect[i].late, effect[i].late + 1}
             /\ effect[i].blind = FALSE /\ effect'[i].blind # FALSE
                  => rows[i].kind = "write" /\ stack.files # rows[i].fp.files
    BY <1>3
  <2>2. c \in Calls /\ calls[c].at = "command"
    BY DEF At
  <2>3. /\ rows[i].state = "running" /\ effect[i].late = 0
        /\ rows[i].kind = "write" => stack.files = rows[i].fp.files
    BY <2>1, <2>2, AtCommand
  <2>4. effect'[i].blind = FALSE
    BY <1>1, <2>1, <2>3 DEF Done
  <2> QED BY <2>1, <2>3, <2>4 DEF Done
<1>4. S \in SUBSET Calls
  OBVIOUS
<1> QED BY <1>2, <1>3, <1>4, TookHistory

LEMMA CommandKeeps ==
  ASSUME OnceInv, OutcomeInv, NEW c \in Calls, Command(c)
  PROVE  OutcomeInv'
<1> DEFINE i == calls[c].op
<1>1. calls[c].at = "command" /\ UNCHANGED rows
  BY DEF Command, At
<1>2. /\ i \in Ops /\ rows[i].state = "running"
      /\ rows[i].kind = "write" => lock = c
      /\ effect[i].begun = IF calls[c].round = 1 THEN 0 ELSE 1
      /\ calls[c].round \in {1, 2}
  BY <1>1, AtCommand
<1>3. \A d \in Calls \ {c} : ~(calls[d].at \in Claimed /\ calls[d].op = i)
  BY <1>1 DEF OnceInv, ClaimHeld, Claimed
<1>4. CASE Fail(c) /\ UNCHANGED <<effect, stack>>
  BY <1>1, <1>4, FailKeeps
<1>5. CASE Took({c})
  <2>1. {c} \in SUBSET {d \in Calls : At(d, "command")} /\ {c} \in SUBSET Calls
    BY <1>1 DEF At
  <2>2. \A j \in Ops : Done(j)'
    BY <1>1, <1>5, <2>1, TookDone
  <2>3. \A j \in Ops \ {i} : effect'[j] = effect[j]
    BY <1>5 DEF Took
  <2>4. effect'[i].begun = 1
    <3> DEFINE S == {c}
    <3>1. S \in SUBSET Calls /\ Took(S) /\ c \in S /\ \A d \in S : d = c
      BY <1>5
    <3> HIDE DEF S
    <3>2. i \in Ops /\ calls[c].op = i
      BY <1>2
    <3> HIDE DEF i
    <3>3. \/ effect'[i] = effect[i] /\ \A d \in S : calls[d].op # i
          \/ \E d \in S :
               effect'[i].begun =
                 IF calls[d].round = 1 THEN effect[i].begun + 1 ELSE effect[i].begun
      BY <3>1, <3>2, TookHistory
    <3>4. effect'[i].begun =
            IF calls[c].round = 1 THEN effect[i].begun + 1 ELSE effect[i].begun
      BY <3>1, <3>2, <3>3
    <3> QED BY <1>2, <3>4 DEF i
  <2>5. stack'.files = stack.files \/ rows[i].kind = "write"
    BY <1>5, <2>1, TookFiles
  <2>6. \/ Fail(c)
        \/ Goto(c, "finish") /\ Unlock(c)
        \/ More(c) /\ calls' = [calls EXCEPT ![c].round = 2, ![c].at = "snapshot"]
             /\ UNCHANGED lock
    BY DEF Command
  <2>7. /\ \A d \in Calls \ {c} : calls'[d] = calls[d]
        /\ \/ calls'[c].at = "failing" \/ calls'[c].at \notin Applying
           \/ calls'[c].at = "finish" /\ calls'[c].op = i
           \/ calls'[c].at = "snapshot" /\ calls'[c].op = i
        /\ lock' = lock \/ lock = c
    <3>1. CASE Fail(c)
      <4>1. lock' = lock \/ lock = c
        BY <3>1 DEF Fail, Unlock
      <4> QED BY <3>1, <4>1, Failed DEF OnceInv
    <3>2. CASE Goto(c, "finish") /\ Unlock(c)
      <4>1. "finish" \in Places
        BY DEF Places, Applying, Claimed
      <4>2. lock' = lock \/ lock = c
        BY <3>2 DEF Unlock
      <4> QED BY <3>2, <4>1, <4>2, Went DEF OnceInv
    <3>3. CASE /\ calls' = [calls EXCEPT ![c].round = 2, ![c].at = "snapshot"]
               /\ UNCHANGED lock
      <4>1. calls[c] \in Call
        BY DEF OnceInv, TypeOK
      <4> QED BY <3>3, <4>1 DEF OnceInv, TypeOK, Call
    <3> QED BY <2>6, <3>1, <3>2, <3>3
  <2>8. Doing(c)'
    <3>1. CASE calls'[c].at = "failing" \/ calls'[c].at \notin Applying
      BY <3>1, Idle DEF NotYet, Before, Applying, Claimed
    <3>2. CASE calls'[c].at \in {"finish", "snapshot"} /\ calls'[c].op = i
      BY <2>4, <3>2 DEF Doing, Before, Guarded
    <3> QED BY <2>7, <3>1, <3>2
  <2>9. ASSUME NEW d \in Calls \ {c} PROVE Doing(d)'
    <3>1. Doing(d) /\ calls'[d] = calls[d] /\ (lock = d => lock' = d)
      BY <2>7 DEF OutcomeInv
    <3>2. CASE calls[d].at \in NotYet \cup {"finish"}
      <4>1. calls[d].op \in Ops /\ calls[d].at \in Claimed
        BY <3>2, Named DEF NotYet, Claimed
      <4>2. effect'[calls[d].op] = effect[calls[d].op]
        BY <1>3, <2>3, <4>1
      <4>3. calls[d].at \in Guarded /\ rows[calls[d].op].kind = "write" =>
              stack'.files = stack.files
        BY <1>2, <2>5, <3>1 DEF Doing
      <4> QED BY <1>1, <3>1, <4>2, <4>3 DEF Doing
    <3>3. CASE calls[d].at \notin NotYet \cup {"finish"}
      BY <3>1, <3>3 DEF Doing, NotYet, Guarded, Before
    <3> QED BY <3>2, <3>3
  <2> QED BY <2>2, <2>8, <2>9 DEF OutcomeInv
<1> QED BY <1>4, <1>5 DEF Command

\* The commands of a process that dies were at their place too.
LEMMA RestartKeeps ==
  ASSUME OnceInv, OutcomeInv, Restart
  PROVE  OutcomeInv'
<1>1. PICK S \in SUBSET {c \in Calls : At(c, "command")} : Took(S)
  BY DEF Restart
<1>2. UNCHANGED rows /\ \A c \in Calls : calls'[c] = NoCall
  BY DEF Restart
<1>3. \A i \in Ops : Done(i)'
  BY <1>1, <1>2, TookDone
<1>4. \A c \in Calls : Doing(c)'
  BY <1>2, Idle DEF NoCall, NotYet, Before
<1> QED BY <1>3, <1>4 DEF OutcomeInv

----------------------------------------------------------------------------
(* The owner, the clock, the panel's own saves *)

\* No call has to know of the key, the tabs or the age of a row.
LEMMA OutsideKeeps ==
  ASSUME OnceInv, OutcomeInv, UNCHANGED <<calls, lock, stack, effect>>,
         \A i \in Ops : Lasting(i)
  PROVE  OutcomeInv'
<1>1. \A i \in Ops : Undisturbed(i)
  BY DEF Undisturbed
<1>2. \A c \in Calls : Doing(c)'
  BY <1>1, Elsewhere DEF OutcomeInv
<1>3. \A i \in Ops : Done(i)'
  BY <1>1, Ended DEF OutcomeInv
<1> QED BY <1>2, <1>3 DEF OutcomeInv

LEMMA OwnerKeeps ==
  ASSUME OnceInv, OutcomeInv, Owner \/ \E i \in Ops : Expire(i)
  PROVE  OutcomeInv'
<1>1. UNCHANGED <<calls, lock, stack, effect>>
  BY DEF Owner, ReadKey, WriteKey, Revoke, Approve, Expire, durable
<1>2. \A i \in Ops : Lasting(i)
  <2>1. CASE UNCHANGED rows
    BY <2>1 DEF Lasting
  <2>2. CASE \E i \in Ops : Approve(i) \/ Expire(i)
    <3>1. PICK i \in Ops : Approve(i) \/ Expire(i)
      BY <2>2
    <3>2. rows \in [Ops -> Row] /\ rows[i] \in Row
      BY DEF OnceInv, TypeOK
    <3>3. CASE Approve(i)
      <4>1. /\ \A j \in Ops \ {i} : rows'[j] = rows[j]
            /\ rows'[i] = [rows[i] EXCEPT !.state = "prepared", !.approved = TRUE]
        BY <3>2, <3>3 DEF Approve
      <4>2. /\ rows'[i].kind = rows[i].kind /\ rows'[i].fp = rows[i].fp
            /\ rows'[i].state = "prepared"
        BY <3>2, <4>1 DEF Row
      <4> QED BY <4>1, <4>2 DEF Lasting
    <3>4. CASE Expire(i)
      <4>1. /\ \A j \in Ops \ {i} : rows'[j] = rows[j]
            /\ rows'[i] = [rows[i] EXCEPT !.expired = TRUE]
        BY <3>2, <3>4 DEF Expire
      <4>2. /\ rows'[i].kind = rows[i].kind /\ rows'[i].fp = rows[i].fp
            /\ rows'[i].state = rows[i].state
        BY <3>2, <4>1 DEF Row
      <4> QED BY <4>1, <4>2 DEF Lasting
    <3> QED BY <3>1, <3>3, <3>4
  <2> QED BY <2>1, <2>2 DEF Owner, ReadKey, WriteKey, Revoke, durable
<1> QED BY <1>1, <1>2, OutsideKeeps

\* A save of the panel waits for the lock, which whoever is about to write holds.
LEMMA SaveKeeps ==
  ASSUME OnceInv, OutcomeInv, Save
  PROVE  OutcomeInv'
<1>1. UNCHANGED <<calls, lock, effect, rows>> /\ lock = Free
  BY DEF Save
<1>2. \A c \in Calls : Doing(c)'
  BY <1>1, FreeIsNobody DEF OutcomeInv, Doing
<1>3. \A i \in Ops : Done(i)'
  BY <1>1 DEF OutcomeInv, Done
<1> QED BY <1>2, <1>3 DEF OutcomeInv

----------------------------------------------------------------------------
(* The theorems *)

\* Every call that applies an operation knows what has happened to it, and every row
\* says it (mcp-operations.ts:271-300, mcp-files-git.ts).
THEOREM OutcomeInvariance == Spec => [](OnceInv /\ OutcomeInv)
<1>1. Init => OutcomeInv
  BY DEF Init, OutcomeInv, Doing, Done, NoRow, NoCall, NoEffect, NotYet, Guarded, Before
<1>2. OnceInv /\ OutcomeInv /\ [Next]_vars => OutcomeInv'
  <2> SUFFICES ASSUME OnceInv, OutcomeInv, [Next]_vars PROVE OutcomeInv'
    OBVIOUS
  <2>1. CASE UNCHANGED vars
    BY <2>1, OutsideKeeps DEF vars, durable, Lasting
  <2>2. ASSUME NEW c \in Calls, Prepare(c) \/ Apply(c) \/ Going(c) PROVE OutcomeInv'
    BY <2>2, PreparingKeeps, InsertKeeps, ApplyKeeps, CheckpointKeeps, CompareKeeps,
       ClaimKeeps, CommandKeeps, FinishKeeps DEF Going
  <2>3. CASE Owner \/ \E i \in Ops : Expire(i)
    BY <2>3, OwnerKeeps
  <2>4. CASE Save \/ Restart
    BY <2>4, SaveKeeps, RestartKeeps
  <2> QED BY <2>1, <2>2, <2>3, <2>4 DEF Next
<1> QED BY <1>1, <1>2, InitOnce, NextOnce, PTL DEF Spec

\* A row says "succeeded" of what was done and waits only with what was not, whatever
\* failed or died between the command and its record.
THEOREM OutcomeIsTrue == Spec => []OutcomeTrue
<1>1. OnceInv /\ OutcomeInv => OutcomeTrue
  BY DEF OnceInv, ExecutedByHolder, OutcomeInv, Done, OutcomeTrue
<1> QED BY <1>1, OutcomeInvariance, PTL

\* A revocation or a reduction is followed by one command at most, the one that was
\* under way: also with several tabs, and when the key is allowed again in between.
THEOREM StopsAtItsCheckpoint == Spec => []StopsAtCheckpoint
<1>1. OnceInv /\ OutcomeInv => StopsAtCheckpoint
  BY DEF OutcomeInv, Done, StopsAtCheckpoint
<1> QED BY <1>1, OutcomeInvariance, PTL

\* A write replaces what the client has read, whatever the panel saves meanwhile.
THEOREM WritesWhatWasRead == Spec => []NothingOverwrittenUnread
<1>1. OnceInv /\ OutcomeInv => NothingOverwrittenUnread
  BY DEF OutcomeInv, Done, NothingOverwrittenUnread
<1> QED BY <1>1, OutcomeInvariance, PTL

-----------------------------------------------------------------------------

\* The tabs of the owner reduce a key one after the other.
OneTab == \A o, p \in Owners : o = p

\* A row of the key's version was made under the key's mode, and what was claimed under
\* it was claimed in that mode.
RowApproved(i) ==
    /\ rows[i].state # "none" => rows[i].version <= key.version
    /\ (/\ rows[i].state \notin {"none", "awaiting"}
        /\ rows[i].version = key.version /\ key.mode = "approval")
         => rows[i].approved = TRUE
    /\ rows[i].state \in {"running"} \cup Final /\ rows[i].version = key.version
         => effect[i].mode = key.mode
    /\ effect[i].begun > 0 /\ effect[i].mode = "approval" => rows[i].approved = TRUE

CallApproved(c) ==
    /\ calls[c].at \in Preparing => calls[c].version <= key.version
    /\ calls[c].at \in {"prune", "insert"} /\ calls[c].version = key.version
         => calls[c].mode = key.mode
    /\ calls[c].at \in NotYet \ {"confirm"} /\ effect[calls[c].op].mode = "approval"
         => rows[calls[c].op].approved = TRUE

ApprovalInv ==
    /\ OneTab
    /\ \A o \in Owners : tabs[o].live => /\ tabs[o].version = key.version
                                         /\ tabs[o].mode = key.mode
    /\ \A i \in Ops : RowApproved(i)
    /\ \A c \in Calls : CallApproved(c)

\* A row that keeps its version and its approval, and is executed only if that was given.
RowKept(i) ==
    /\ rows'[i] = rows[i] /\ effect'[i].mode = effect[i].mode
    /\ effect'[i].begun = effect[i].begun
         \/ (effect[i].mode = "approval" => rows[i].approved = TRUE)

LEMMA KeptRow ==
  ASSUME NEW i \in Ops, RowApproved(i), UNCHANGED key, RowKept(i)
  PROVE  RowApproved(i)'
BY DEF RowApproved, RowKept

\* What another call knows lasts while its row and its mode do.
LEMMA KeptCall ==
  ASSUME OnceInv, NEW d \in Calls, CallApproved(d), UNCHANGED key, calls'[d] = calls[d],
         \A i \in Ops : rows[i].state # "none" =>
           \/ effect'[i].mode = effect[i].mode
                /\ (rows[i].approved = TRUE => rows'[i].approved = TRUE)
           \/ rows[i].state = "prepared"
  PROVE  CallApproved(d)'
<1>1. CASE calls[d].at \in NotYet
  <2>1. calls[d].op \in Ops /\ rows[calls[d].op].state # "none"
    BY <1>1, Named
  <2>2. rows[calls[d].op].state = "running"
    BY <1>1 DEF OnceInv, ClaimHeld, NotYet, Claimed
  <2> QED BY <2>1, <2>2 DEF CallApproved
<1>2. CASE calls[d].at \notin NotYet
  BY <1>2 DEF CallApproved
<1> QED BY <1>1, <1>2

\* A step of one call that leaves the rows.
LEMMA CallSteps ==
  ASSUME OnceInv, ApprovalInv, NEW c \in Calls, UNCHANGED <<key, tabs>>,
         \A d \in Calls \ {c} : calls'[d] = calls[d],
         \A i \in Ops : RowKept(i), CallApproved(c)'
  PROVE  ApprovalInv'
<1>1. \A d \in Calls \ {c} : CallApproved(d)'
  BY KeptCall DEF ApprovalInv, RowKept
<1>2. \A i \in Ops : RowApproved(i)'
  BY KeptRow DEF ApprovalInv
<1> QED BY <1>1, <1>2 DEF ApprovalInv

LEMMA Nothing2Approve ==
  ASSUME NEW c \in Calls, calls'[c].at \notin Preparing \cup NotYet
  PROVE  CallApproved(c)'
BY DEF CallApproved, Preparing

LEMMA RowsKept ==
  ASSUME UNCHANGED rows, \A i \in Ops : Undisturbed(i) /\ effect'[i].mode = effect[i].mode
  PROVE  \A i \in Ops : RowKept(i)
BY DEF RowKept, Undisturbed

LEMMA PreparingApproves ==
  ASSUME OnceInv, ApprovalInv, NEW c \in Calls,
         Prepare(c) \/ Inspect(c) \/ Fresh(c) \/ Prune(c)
  PROVE  ApprovalInv'
<1>1. /\ UNCHANGED <<rows, effect, key, tabs>> /\ \A d \in Calls \ {c} : calls'[d] = calls[d]
  BY DEF Prepare, Inspect, Fresh, Prune, durable, Answer, Goto, OnceInv, TypeOK
<1>2. /\ calls[c] \in Call /\ key.version \in Nat /\ CallApproved(c)
  BY DEF OnceInv, TypeOK, ApprovalInv, Key
<1>3. CallApproved(c)'
  <2>1. CASE Prepare(c)
    <3>1. calls'[c].at = "inspect" /\ calls'[c].version = key.version
      BY <2>1 DEF Prepare, NoCall, OnceInv, TypeOK
    <3> QED BY <1>1, <1>2, <3>1 DEF CallApproved, NotYet
  <2>2. CASE Answer(c)
    <3>1. calls'[c].at = "idle"
      BY <2>2 DEF Answer, NoCall, OnceInv, TypeOK
    <3> QED BY <3>1, Nothing2Approve DEF Preparing, NotYet
  <2>3. CASE Inspect(c) /\ ~Answer(c)
    <3>1. calls[c].at = "inspect" /\ calls'[c].at = "fresh" /\ calls'[c].version = calls[c].version
      BY <1>2, <2>3 DEF Inspect, At, Call, OnceInv, TypeOK
    <3> QED BY <1>1, <1>2, <3>1 DEF CallApproved, Preparing, NotYet
  <2>4. CASE Fresh(c) /\ ~Answer(c)
    <3>1. /\ calls[c].at = "fresh" /\ calls'[c].at \in {"prune", "insert"}
          /\ calls'[c].version = calls[c].version /\ calls'[c].mode = key.mode
      BY <1>2, <2>4 DEF Fresh, At, Call, OnceInv, TypeOK
    <3> QED BY <1>1, <1>2, <3>1 DEF CallApproved, Preparing, NotYet
  <2>5. CASE Prune(c) /\ ~Answer(c)
    <3>1. /\ calls[c].at = "prune" /\ calls'[c].at = "insert"
          /\ calls'[c].version = calls[c].version /\ calls'[c].mode = calls[c].mode
      BY <1>2, <2>5 DEF Prune, At, Goto, Call, OnceInv, TypeOK
    <3> QED BY <1>1, <1>2, <3>1 DEF CallApproved, Preparing, NotYet
  <2> QED BY <2>1, <2>2, <2>3, <2>4, <2>5
<1>4. \A i \in Ops : RowKept(i)
  BY <1>1 DEF RowKept
<1> QED BY <1>1, <1>3, <1>4, CallSteps

\* A row waits for its approval when the key of its version wants it.
LEMMA InsertApproves ==
  ASSUME OnceInv, ApprovalInv, NEW c \in Calls, Insert(c)
  PROVE  ApprovalInv'
<1>1. /\ UNCHANGED <<effect, key, tabs>> /\ \A d \in Calls \ {c} : calls'[d] = calls[d]
      /\ calls'[c].at = "idle" /\ calls[c].at = "insert"
  BY DEF Insert, Answer, NoCall, At, OnceInv, TypeOK
<1>2. CallApproved(c)'
  BY <1>1, Nothing2Approve DEF Preparing, NotYet
<1>3. CASE UNCHANGED rows
  BY <1>1, <1>2, <1>3, CallSteps DEF RowKept
<1>4. CASE ~UNCHANGED rows
  <2>1. PICK i \in Ops, kind \in Kinds :
          /\ rows[i].state = "none"
          /\ rows' = [rows EXCEPT ![i] = [NoRow EXCEPT !.state = StateFor(calls[c].mode),
                        !.request = calls[c].request, !.kind = kind,
                        !.version = calls[c].version, !.fp = calls[c].fp]]
    BY <1>4 DEF Insert
  <2>2. /\ \A j \in Ops \ {i} : rows'[j] = rows[j]
        /\ rows'[i].state = StateFor(calls[c].mode) /\ rows'[i].version = calls[c].version
    BY <2>1 DEF NoRow, OnceInv, TypeOK
  <2>3. effect[i].begun = 0
    BY <2>1 DEF OnceInv, ExecutedByHolder
  <2>4. /\ calls[c].version <= key.version
        /\ calls[c].version = key.version => calls[c].mode = key.mode
    BY <1>1 DEF ApprovalInv, CallApproved, Preparing
  <2>5. RowApproved(i)'
    <3>1. key' = key /\ effect' = effect
      BY <1>1
    <3>2. /\ rows'[i].state \in {"awaiting", "prepared"}
          /\ rows'[i].state = "prepared" => calls[c].mode # "approval"
      BY <2>2 DEF StateFor
    <3>3. rows'[i].version <= key.version
      BY <2>2, <2>4
    <3>4. ~(/\ rows'[i].state \notin {"none", "awaiting"}
            /\ rows'[i].version = key.version /\ key.mode = "approval")
      BY <2>2, <2>4, <3>2
    <3>5. rows'[i].state \notin {"running"} \cup Final
      BY <3>2 DEF Final
    <3>6. ~(effect[i].begun > 0)
      BY <2>3
    <3> QED BY <3>1, <3>3, <3>4, <3>5, <3>6 DEF RowApproved
  <2>6. \A j \in Ops \ {i} : RowApproved(j)'
    BY <1>1, <2>2, KeptRow DEF RowKept, ApprovalInv
  <2>7. \A d \in Calls \ {c} : CallApproved(d)'
    BY <1>1, <2>1, <2>2, KeptCall DEF ApprovalInv
  <2> QED BY <1>1, <1>2, <2>5, <2>6, <2>7 DEF ApprovalInv
<1> QED BY <1>3, <1>4

\* Apply begins, and a failed step ends, without a claim.
LEMMA ApplyApproves ==
  ASSUME OnceInv, ApprovalInv, NEW c \in Calls, Apply(c)
  PROVE  ApprovalInv'
<1>1. /\ UNCHANGED <<rows, effect, key, tabs>> /\ \A d \in Calls \ {c} : calls'[d] = calls[d]
      /\ calls'[c].at = "revalidate"
  BY DEF Apply, NoCall, durable, OnceInv, TypeOK
<1>2. CallApproved(c)'
  BY <1>1, Nothing2Approve DEF NotYet, Preparing
<1> QED BY <1>1, <1>2, CallSteps DEF RowKept

LEMMA FailApproves ==
  ASSUME OnceInv, ApprovalInv, NEW c \in Calls, Fail(c), UNCHANGED <<key, tabs>>,
         calls[c].at \notin Preparing, \A i \in Ops : RowKept(i)
  PROVE  ApprovalInv'
<1>1. \A d \in Calls \ {c} : calls'[d] = calls[d]
  BY Failed DEF OnceInv
<1>2. calls'[c].at \in {"failing", "idle"}
  <2>1. CASE Answer(c)
    BY <2>1 DEF Answer, NoCall, OnceInv, TypeOK
  <2>2. CASE Goto(c, "failing")
    BY <2>2, Went DEF OnceInv, Places, Applying, Claimed
  <2> QED BY <2>1, <2>2 DEF Fail
<1>3. CallApproved(c)'
  BY <1>2, Nothing2Approve DEF NotYet, Preparing
<1> QED BY <1>1, <1>3, CallSteps

\* The first checkpoint after the claim finds the version the row was made under, so the
\* mode it was claimed in is the mode it was made in.
LEMMA CheckpointApproves ==
  ASSUME OnceInv, ApprovalInv, NEW c \in Calls, Checkpoint(c)
  PROVE  ApprovalInv'
<1>1. UNCHANGED <<rows, key, tabs>> /\ calls[c].at \in CheckpointAt /\ CallApproved(c)
  BY DEF Checkpoint, durable, ApprovalInv
<1>2. calls[c].op \in Ops /\ calls[c].at \notin Preparing
  BY <1>1 DEF OnceInv, TypeOK, CheckpointAt, Applying, Claimed, Preparing
<1>3. CASE Fail(c) /\ UNCHANGED effect
  BY <1>1, <1>2, <1>3, FailApproves DEF RowKept
<1>4. CASE /\ Owned(key, RowOf(c)) /\ Goto(c, Following(c))
           /\ effect' = [effect EXCEPT ![calls[c].op].late =
                           IF InForce(RowOf(c)) THEN 0 ELSE @]
  <2>1. Following(c) \in Places
    BY <1>1, Follows DEF Places
  <2>2. /\ calls'[c].at = Following(c) /\ calls'[c].op = calls[c].op
        /\ \A d \in Calls \ {c} : calls'[d] = calls[d]
    BY <1>4, <2>1, Went DEF OnceInv
  <2>3. \A i \in Ops : RowKept(i)
    BY <1>1, <1>2, <1>4 DEF RowKept, OnceInv, TypeOK, Effect
  <2>4. effect'[calls[c].op].mode = effect[calls[c].op].mode
    BY <1>2, <2>3 DEF RowKept
  <2>5. CASE calls[c].at = "owned"
    <3>1. calls'[c].at = "claim"
      BY <2>2, <2>5 DEF Following
    <3> QED BY <1>1, <2>2, <2>3, <3>1, Nothing2Approve, CallSteps DEF NotYet, Preparing
  <2>6. CASE calls[c].at # "owned"
    <3>1. calls[c].at \in {"confirm", "guard"} /\ calls[c].at \in Claimed
      BY <1>1, <2>6 DEF CheckpointAt, Claimed
    <3>2. Following(c) \in NotYet /\ Following(c) \notin Preparing
      BY <3>1 DEF Following, NotYet, Preparing
    <3>3. /\ rows[calls[c].op].state = "running"
          /\ rows[calls[c].op].version = key.version /\ RowApproved(calls[c].op)
      BY <1>2, <1>4, <3>1 DEF OnceInv, ClaimHeld, Owned, RowOf, ApprovalInv
    <3>4. effect[calls[c].op].mode = "approval" => rows[calls[c].op].approved = TRUE
      BY <3>3 DEF RowApproved
    <3>5. CallApproved(c)'
      BY <1>1, <2>2, <2>4, <3>2, <3>4 DEF CallApproved, Preparing
    <3> QED BY <1>1, <2>2, <2>3, <3>5, CallSteps
  <2> QED BY <2>5, <2>6
<1> QED BY <1>3, <1>4 DEF Checkpoint

LEMMA CompareApproves ==
  ASSUME OnceInv, ApprovalInv, NEW c \in Calls, Compare(c)
  PROVE  ApprovalInv'
<1>1. UNCHANGED <<rows, key, tabs, effect>> /\ calls[c].at \in CompareAt /\ CallApproved(c)
  BY DEF Compare, durable, ApprovalInv
<1>2. \A i \in Ops : RowKept(i)
  BY <1>1 DEF RowKept
<1>3. CASE Fail(c)
  BY <1>1, <1>2, <1>3, FailApproves DEF CompareAt, Preparing
<1>4. CASE Goto(c, Following(c))
  <2>1. Following(c) \in Places
    BY <1>1, Follows DEF Places
  <2>2. /\ calls'[c].at = Following(c) /\ calls'[c].op = calls[c].op
        /\ \A d \in Calls \ {c} : calls'[d] = calls[d]
    BY <1>4, <2>1, Went DEF OnceInv
  <2>3. /\ calls[c].at = "revalidate" => Following(c) = "owned"
        /\ calls[c].at # "revalidate" => calls[c].at \in NotYet \ {"confirm"}
        /\ Following(c) \notin Preparing
    BY <1>1 DEF Following, CompareAt, NotYet, Preparing
  <2>4. CallApproved(c)'
    BY <1>1, <2>2, <2>3 DEF CallApproved, Preparing, NotYet
  <2> QED BY <1>1, <1>2, <2>2, <2>4, CallSteps
<1> QED BY <1>3, <1>4 DEF Compare

\* What is claimed now is claimed in the mode the key has now.
LEMMA ClaimApproves ==
  ASSUME OnceInv, ApprovalInv, NEW c \in Calls, Claim(c)
  PROVE  ApprovalInv'
<1>0. PICK i \in Ops : i = calls[c].op
  BY DEF Claim, At, OnceInv, TypeOK, Applying
<1>1. UNCHANGED <<key, tabs>> /\ calls[c].at = "claim"
  BY DEF Claim, At
<1>2. CASE Answer(c) /\ UNCHANGED <<rows, effect>>
  <2>1. calls'[c].at = "idle" /\ \A d \in Calls \ {c} : calls'[d] = calls[d]
    BY <1>2 DEF Answer, NoCall, OnceInv, TypeOK
  <2>2. CallApproved(c)'
    BY <2>1, Nothing2Approve DEF NotYet, Preparing
  <2> QED BY <1>1, <1>2, <2>1, <2>2, CallSteps DEF RowKept
<1>3. CASE /\ Claimable(RowOf(c)) /\ Goto(c, "confirm")
           /\ rows' = [rows EXCEPT ![i].state = "running"]
           /\ effect' = [effect EXCEPT ![i].mode = key.mode]
  <2>1. "confirm" \in Places
    BY DEF Places, Applying, Claimed
  <2>2. calls'[c].at = "confirm" /\ \A d \in Calls \ {c} : calls'[d] = calls[d]
    BY <1>3, <2>1, Went DEF OnceInv
  <2>3. CallApproved(c)'
    BY <2>2 DEF CallApproved, Preparing
  <2>4. /\ rows[i].state = "prepared" /\ rows'[i].state = "running"
        /\ rows'[i].version = rows[i].version /\ rows'[i].approved = rows[i].approved
        /\ \A j \in Ops \ {i} : rows'[j] = rows[j]
    BY <1>0, <1>3 DEF Claimable, RowOf, OnceInv, TypeOK, Row
  <2>5. /\ effect'[i].mode = key.mode /\ effect'[i].begun = effect[i].begun
        /\ \A j \in Ops \ {i} : effect'[j] = effect[j]
    BY <1>1, <1>3 DEF OnceInv, TypeOK, Effect
  <2>6. effect[i].begun = 0 /\ RowApproved(i)
    BY <1>1, <2>4 DEF OnceInv, ExecutedByHolder, ApprovalInv
  <2>7. RowApproved(i)'
    <3>1. ~(effect'[i].begun > 0)
      BY <2>5, <2>6
    <3>2. key' = key
      BY <1>1
    <3> QED BY <2>4, <2>5, <2>6, <3>1, <3>2 DEF RowApproved
  <2>8. \A j \in Ops \ {i} : RowApproved(j)'
    BY <1>1, <2>4, <2>5, KeptRow DEF RowKept, ApprovalInv
  <2>9. \A d \in Calls \ {c} : CallApproved(d)'
    BY <1>1, <2>2, <2>4, <2>5, KeptCall DEF ApprovalInv
  <2>10. \A j \in Ops : RowApproved(j)'
    BY <2>7, <2>8
  <2>11. \A d \in Calls : CallApproved(d)'
    BY <2>3, <2>9
  <2> QED BY <1>1, <2>10, <2>11 DEF ApprovalInv
<1> QED BY <1>0, <1>2, <1>3 DEF Claim

\* Only what was approved, or needed no approval, comes to its command.
LEMMA TookKept ==
  ASSUME OnceInv, ApprovalInv, NEW S \in SUBSET {c \in Calls : At(c, "command")}, Took(S),
         UNCHANGED rows, NEW i \in Ops
  PROVE  RowKept(i)
<1>1. effect'[i].mode = effect[i].mode
  BY DEF Took, OnceInv, TypeOK, Effect
<1>2. CASE effect'[i] = effect[i]
  BY <1>1, <1>2 DEF RowKept
<1>3. CASE \E c \in S : calls[c].op = i
  <2>1. PICK c \in S : calls[c].op = i
    BY <1>3
  <2>2. c \in Calls /\ calls[c].at \in NotYet \ {"confirm"}
    BY DEF At, NotYet
  <2>3. effect[i].mode = "approval" => rows[i].approved = TRUE
    BY <2>1, <2>2 DEF ApprovalInv, CallApproved
  <2> QED BY <1>1, <2>3 DEF RowKept
<1>4. S \in SUBSET Calls
  OBVIOUS
<1> QED BY <1>2, <1>3, <1>4, TookHistory

LEMMA CommandApproves ==
  ASSUME OnceInv, ApprovalInv, NEW c \in Calls, Command(c)
  PROVE  ApprovalInv'
<1>1. /\ UNCHANGED <<rows, key, tabs>> /\ calls[c].at = "command" /\ CallApproved(c)
      /\ calls[c].op \in Ops
  BY DEF Command, At, ApprovalInv, OnceInv, TypeOK, Applying, Claimed
<1>2. \A i \in Ops : RowKept(i)
  <2>1. CASE UNCHANGED effect
    BY <1>1, <2>1 DEF RowKept
  <2>2. CASE Took({c})
    <3>1. {c} \in SUBSET {d \in Calls : At(d, "command")}
      BY <1>1 DEF At
    <3> QED BY <1>1, <2>2, <3>1, TookKept
  <2> QED BY <2>1, <2>2 DEF Command
<1>3. effect'[calls[c].op].mode = effect[calls[c].op].mode
  BY <1>1, <1>2 DEF RowKept
<1>4. CASE Fail(c)
  BY <1>1, <1>2, <1>4, FailApproves DEF Preparing
<1>5. CASE Goto(c, "finish")
  <2>1. "finish" \in Places
    BY DEF Places, Applying, Claimed
  <2>2. calls'[c].at = "finish" /\ \A d \in Calls \ {c} : calls'[d] = calls[d]
    BY <1>5, <2>1, Went DEF OnceInv
  <2>3. CallApproved(c)'
    BY <2>2, Nothing2Approve DEF Preparing, NotYet
  <2> QED BY <1>1, <1>2, <2>2, <2>3, CallSteps
<1>6. CASE calls' = [calls EXCEPT ![c].round = 2, ![c].at = "snapshot"]
  <2>1. /\ calls'[c].at = "snapshot" /\ calls'[c].op = calls[c].op
        /\ \A d \in Calls \ {c} : calls'[d] = calls[d]
    BY <1>6 DEF OnceInv, TypeOK, Call
  <2>2. CallApproved(c)'
    BY <1>1, <1>3, <2>1 DEF CallApproved, Preparing, NotYet
  <2> QED BY <1>1, <1>2, <2>1, <2>2, CallSteps
<1> QED BY <1>4, <1>5, <1>6 DEF Command

LEMMA RestartApproves ==
  ASSUME OnceInv, ApprovalInv, Restart
  PROVE  ApprovalInv'
<1>1. PICK S \in SUBSET {c \in Calls : At(c, "command")} : Took(S)
  BY DEF Restart
<1>2. UNCHANGED <<rows, key>>
  BY DEF Restart
<1>3. \A i \in Ops : RowApproved(i)'
  <2>1. \A i \in Ops : RowKept(i)
    BY <1>1, <1>2, TookKept
  <2> QED BY <1>2, <2>1, KeptRow DEF ApprovalInv
<1>4. \A c \in Calls : CallApproved(c)'
  <2>1. \A c \in Calls : calls'[c].at = "idle"
    BY DEF Restart, NoCall
  <2> QED BY <2>1, Nothing2Approve DEF Preparing, NotYet
<1>5. \A o \in Owners : ~tabs'[o].live
  BY DEF Restart, NoTab
<1> QED BY <1>3, <1>4, <1>5 DEF ApprovalInv

\* The end of a claimed operation leaves what it was claimed under.
LEMMA FinishApproves ==
  ASSUME OnceInv, ApprovalInv, NEW c \in Calls, Finish(c) \/ Failing(c)
  PROVE  ApprovalInv'
<1>0. PICK i \in Ops : i = calls[c].op
  BY DEF Finish, Failing, At, OnceInv, TypeOK, Applying, Claimed
<1>1. /\ UNCHANGED <<key, tabs, effect>> /\ calls[c].at \in Claimed /\ rows[i].state = "running"
  BY <1>0 DEF Finish, Failing, At, OnceInv, ClaimHeld, Claimed
<1>2. CallApproved(c)' /\ \A d \in Calls \ {c} : calls'[d] = calls[d]
  <2>1. "failing" \in Places
    BY DEF Places, Applying, Claimed
  <2>2. /\ calls'[c].at \in {"failing", "idle"}
        /\ \A d \in Calls \ {c} : calls'[d] = calls[d]
    <3>1. CASE Answer(c)
      BY <3>1 DEF Answer, NoCall, OnceInv, TypeOK
    <3>2. CASE Goto(c, "failing")
      BY <2>1, <3>2, Went DEF OnceInv
    <3> QED BY <3>1, <3>2 DEF Finish, Failing, Settle
  <2>3. CallApproved(c)'
    BY <2>2, Nothing2Approve DEF Preparing, NotYet
  <2> QED BY <2>2, <2>3
<1>3. CASE UNCHANGED rows
  BY <1>1, <1>2, <1>3, CallSteps DEF RowKept
<1>4. CASE \E state \in Final : Settle(c, state)
  <2>1. PICK state \in Final : rows' = [rows EXCEPT ![i].state = state]
    BY <1>0, <1>4 DEF Settle
  <2>2. /\ rows'[i].state = state /\ rows'[i].version = rows[i].version
        /\ rows'[i].approved = rows[i].approved /\ \A j \in Ops \ {i} : rows'[j] = rows[j]
    BY <1>1, <2>1 DEF OnceInv, TypeOK, Row
  <2>3. key' = key /\ effect' = effect /\ RowApproved(i)
    BY <1>1 DEF ApprovalInv
  <2>4. RowApproved(i)'
    BY <1>1, <2>2, <2>3 DEF RowApproved
  <2>5. \A j \in Ops \ {i} : RowApproved(j)'
    BY <2>2, <2>3, KeptRow DEF RowKept, ApprovalInv
  <2>6. \A d \in Calls \ {c} : CallApproved(d)'
    BY <1>1, <1>2, <2>2, <2>3, KeptCall DEF ApprovalInv
  <2>7. \A j \in Ops : RowApproved(j)'
    BY <2>4, <2>5
  <2>8. \A d \in Calls : CallApproved(d)'
    BY <1>2, <2>6
  <2> QED BY <1>1, <2>7, <2>8 DEF ApprovalInv
<1> QED BY <1>3, <1>4 DEF Finish, Failing, Final

\* A reduction makes every row of before one of an older version.
LEMMA WriteApproves ==
  ASSUME OnceInv, ApprovalInv, NEW o \in Owners, WriteKey(o)
  PROVE  ApprovalInv'
<1>1. /\ UNCHANGED <<rows, calls, effect>> /\ key.version \in Nat
      /\ key'.version = key.version + 1
  <2>1. key \in Key /\ tabs[o] \in Key
    BY DEF OnceInv, TypeOK
  <2>2. tabs[o].version = key.version
    BY DEF WriteKey, ApprovalInv
  <2> QED BY <2>1, <2>2 DEF WriteKey, NextVersion, Key
<1>2. \A p \in Owners : ~tabs'[p].live
  BY DEF WriteKey, NoTab, ApprovalInv, OneTab, OnceInv, TypeOK
<1>3. ASSUME NEW i \in Ops PROVE RowApproved(i)'
  <2>1. RowApproved(i) /\ rows[i].version \in Nat /\ effect[i].begun \in Nat
    BY DEF ApprovalInv, OnceInv, TypeOK, Row, Effect
  <2>2. CASE rows[i].state # "none"
    <3>1. rows[i].version <= key.version
      BY <2>1, <2>2 DEF RowApproved
    <3>2. rows[i].version <= key'.version /\ rows[i].version # key'.version
      BY <1>1, <2>1, <3>1
    <3> QED BY <1>1, <2>1, <3>2 DEF RowApproved
  <2>3. CASE rows[i].state = "none"
    BY <1>1, <2>1, <2>3 DEF RowApproved, Final
  <2> QED BY <2>2, <2>3
<1>4. ASSUME NEW c \in Calls PROVE CallApproved(c)'
  <2>1. CallApproved(c) /\ calls[c].version \in Nat
    BY DEF ApprovalInv, OnceInv, TypeOK, Call
  <2>2. CASE calls[c].at \in Preparing
    <3>1. calls[c].version <= key.version
      BY <2>1, <2>2 DEF CallApproved
    <3>2. calls[c].version <= key'.version /\ calls[c].version # key'.version
      BY <1>1, <2>1, <3>1
    <3> QED BY <1>1, <2>1, <3>2 DEF CallApproved
  <2>3. CASE calls[c].at \notin Preparing
    BY <1>1, <2>1, <2>3 DEF CallApproved, Preparing
  <2> QED BY <2>2, <2>3
<1> QED BY <1>2, <1>3, <1>4 DEF ApprovalInv

LEMMA OutsideApproves ==
  ASSUME OnceInv, ApprovalInv,
         (\E o \in Owners : ReadKey(o)) \/ Revoke \/ (\E i \in Ops : Approve(i) \/ Expire(i))
           \/ Save
  PROVE  ApprovalInv'
<1>1. /\ key'.version = key.version /\ key'.mode = key.mode
      /\ UNCHANGED <<calls, effect>>
  <2>1. key \in Key
    BY DEF OnceInv, TypeOK
  <2>2. key' = key \/ key' = [key EXCEPT !.live = FALSE]
    BY DEF ReadKey, Revoke, Approve, Expire, Save, durable
  <2> QED BY <2>1, <2>2 DEF Key, ReadKey, Revoke, Approve, Expire, Save
<1>2. \A o \in Owners : tabs'[o].live => /\ tabs'[o].version = key'.version
                                         /\ tabs'[o].mode = key'.mode
  <2>1. CASE UNCHANGED tabs
    BY <1>1, <2>1 DEF ApprovalInv
  <2>2. CASE \E o \in Owners : ReadKey(o)
    <3>1. PICK o \in Owners : tabs' = [tabs EXCEPT ![o] = key]
      BY <2>2 DEF ReadKey
    <3>2. tabs'[o] = key /\ \A p \in Owners \ {o} : tabs'[p] = tabs[p]
      BY <3>1 DEF OnceInv, TypeOK
    <3> QED BY <1>1, <3>2 DEF ApprovalInv
  <2> QED BY <2>1, <2>2 DEF Revoke, Approve, Expire, Save
<1>3. \A i \in Ops :
        /\ rows'[i].version = rows[i].version
        /\ \/ rows'[i].approved = rows[i].approved /\ rows'[i].state = rows[i].state
           \/ /\ rows'[i].approved = TRUE /\ rows[i].state = "awaiting"
              /\ rows'[i].state = "prepared"
  <2>1. CASE UNCHANGED rows
    BY <2>1
  <2>2. CASE \E i \in Ops : Approve(i) \/ Expire(i)
    <3>1. PICK i \in Ops : Approve(i) \/ Expire(i)
      BY <2>2
    <3>2. rows \in [Ops -> Row] /\ rows[i] \in Row
      BY DEF OnceInv, TypeOK
    <3>3. CASE Approve(i)
      <4>1. /\ \A j \in Ops \ {i} : rows'[j] = rows[j]
            /\ rows'[i] = [rows[i] EXCEPT !.state = "prepared", !.approved = TRUE]
            /\ rows[i].state = "awaiting"
        BY <3>2, <3>3 DEF Approve, Approvable
      <4>2. /\ rows'[i].version = rows[i].version /\ rows'[i].approved = TRUE
            /\ rows'[i].state = "prepared"
        BY <3>2, <4>1 DEF Row
      <4> QED BY <4>1, <4>2
    <3>4. CASE Expire(i)
      <4>1. /\ \A j \in Ops \ {i} : rows'[j] = rows[j]
            /\ rows'[i] = [rows[i] EXCEPT !.expired = TRUE]
        BY <3>2, <3>4 DEF Expire
      <4>2. /\ rows'[i].version = rows[i].version /\ rows'[i].approved = rows[i].approved
            /\ rows'[i].state = rows[i].state
        BY <3>2, <4>1 DEF Row
      <4> QED BY <4>1, <4>2
    <3> QED BY <3>1, <3>3, <3>4
  <2> QED BY <2>1, <2>2 DEF ReadKey, Revoke, Save, durable
<1>4. ASSUME NEW i \in Ops PROVE RowApproved(i)'
  <2>1. RowApproved(i)
    BY DEF ApprovalInv
  <2>2. CASE rows'[i].approved = rows[i].approved /\ rows'[i].state = rows[i].state
    BY <1>1, <1>3, <2>1, <2>2 DEF RowApproved
  <2>3. CASE rows'[i].approved = TRUE /\ rows[i].state = "awaiting" /\ rows'[i].state = "prepared"
    BY <1>1, <1>3, <2>1, <2>3 DEF RowApproved, Final
  <2> QED BY <1>3, <2>2, <2>3
<1>5. ASSUME NEW c \in Calls PROVE CallApproved(c)'
  <2>1. CallApproved(c)
    BY DEF ApprovalInv
  <2>2. CASE calls[c].at \in NotYet
    <3>1. calls[c].op \in Ops
      BY <2>2, Named
    <3>2. rows[calls[c].op].approved = TRUE => rows'[calls[c].op].approved = TRUE
      BY <1>3, <3>1
    <3> QED BY <1>1, <2>1, <3>2 DEF CallApproved
  <2>3. CASE calls[c].at \notin NotYet
    BY <1>1, <2>1, <2>3 DEF CallApproved
  <2> QED BY <2>2, <2>3
<1> QED BY <1>2, <1>4, <1>5 DEF ApprovalInv

\* Where the tabs reduce a key one after the other, what is executed under a key in
\* approval mode was approved, also when the key was put in that mode while the call was
\* on its way (mcp-operations.ts:263).
THEOREM ExecutedWhenApproved == OneTab /\ Spec => []ApprovedFirst
<1>1. OneTab /\ Init => ApprovalInv
  BY DEF Init, ApprovalInv, RowApproved, CallApproved, NoTab, NoRow, NoCall, NoEffect,
         Preparing, NotYet, Final
<1>2. OnceInv /\ ApprovalInv /\ [Next]_vars => ApprovalInv'
  <2> SUFFICES ASSUME OnceInv, ApprovalInv, [Next]_vars PROVE ApprovalInv'
    OBVIOUS
  <2>1. CASE UNCHANGED vars
    BY <2>1 DEF vars, durable, ApprovalInv, RowApproved, CallApproved
  <2>2. ASSUME NEW c \in Calls, Prepare(c) \/ Apply(c) \/ Going(c) PROVE ApprovalInv'
    BY <2>2, PreparingApproves, InsertApproves, ApplyApproves, CheckpointApproves,
       CompareApproves, ClaimApproves, CommandApproves, FinishApproves DEF Going
  <2>3. CASE Owner \/ \E i \in Ops : Expire(i)
    BY <2>3, WriteApproves, OutsideApproves DEF Owner
  <2>4. CASE Save \/ Restart
    BY <2>4, OutsideApproves, RestartApproves
  <2> QED BY <2>1, <2>2, <2>3, <2>4 DEF Next
<1>3. ApprovalInv => ApprovedFirst
  BY DEF ApprovalInv, RowApproved, ApprovedFirst
<1> QED BY <1>1, <1>2, <1>3, OnceInvariant, PTL DEF Spec
=============================================================================
