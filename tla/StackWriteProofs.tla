-------------------------- MODULE StackWriteProofs --------------------------
(***************************************************************************)
(* The file transaction of a stack: proofs that its types are kept, that   *)
(* between saves and after every restart the files are what the answers    *)
(* said, that no text is lost on the way and that no save overwrites what  *)
(* its editor did not read.                                                *)
(***************************************************************************)
EXTENDS StackWrite, SequenceTheorems, TLAPS

\* The shape of what the server holds: a transaction runs under the lock, and its two
\* lists of files are not empty where their ends are taken.
Forward == {"journal", "check", "replace", "verify"}
Undoing == {"undo", "put-back", "undone"}
Shape ==
    /\ tx.at # "none" => up = "up" /\ queue # <<>> /\ tx.id \in Ids
    /\ up # "up" => queue = <<>>
    /\ up # "recovering" => rec = NoRec
    /\ tx.at \in Forward => tx.todo # <<>>
    /\ tx.at = "put-back" => tx.written # <<>>

\* The parts of TypeOK that a step may leave alone.
StoredOK == disk \in [Files -> Content] /\ sel \in Selection /\ journals \in [Ids -> Journal]
ServerOK == up \in {"down", "recovering", "up"}
QueueOK ==
    /\ queue \in Seq(Savers) /\ req \in [Savers -> Request]
    /\ pc \in [Savers -> {"idle", "editing", "queued"}]
RecOK == rec \in [ids : SUBSET Ids, id : Ids \cup {NoId}, files : SUBSET Files,
                  bad : BOOLEAN, selected : BOOLEAN]
CountOK ==
    /\ asked \in 0..MaxSaves /\ edits \in 0..MaxEdits /\ races \in 0..MaxRaces
    /\ faults \in 0..MaxFaults /\ torn \in 0..MaxTorn /\ cuts \in 0..MaxCuts
ToldOK == told \in [files : [Files -> Content \cup {Unknown}], sel : Selection \cup {Unknown}]
GhostOK == ToldOK /\ touched \in SUBSET Files /\ kept \in BOOLEAN

LEMMA Parts ==
  TypeOK <=> StoredOK /\ ServerOK /\ QueueOK /\ tx \in Transaction /\ RecOK /\ CountOK /\ GhostOK
BY DEF TypeOK, StoredOK, ServerOK, QueueOK, RecOK, CountOK, GhostOK, ToldOK

----------------------------------------------------------------------------
(* Facts about the values *)

LEMMA NoPlanType == NoPlan \in Plan /\ NoPlan.files = {} /\ NoPlan.adopts = FALSE
<1>1. AnySelection \in Selection
  <2>1. \E e \in EnvFiles : [name |-> e, listed |-> {}] \in Selection
    BY FileAssumption DEF Selection
  <2> QED BY <2>1 DEF AnySelection
<1>2. [f \in Files |-> Missing] \in [Files -> Content]
  BY DEF Content
<1> QED BY <1>1, <1>2 DEF NoPlan, Plan

LEMMA NoJournalType ==
  /\ NoJournal \in Journal /\ NoJournal.state = "none" /\ NoJournal.committed = FALSE
  /\ NoJournal.copies = [f \in Files |-> "intact"]
BY NoPlanType DEF NoJournal, Journal

LEMMA NoTxType ==
  /\ NoTx \in Transaction /\ NoTx.at = "none" /\ NoTx.plan = NoPlan
  /\ NoTx.todo = <<>> /\ NoTx.written = <<>> /\ NoTx.applied = FALSE /\ NoTx.id = NoId
BY NoPlanType, EmptySeq DEF NoTx, Transaction, Steps

LEMMA NoRecType ==
  /\ NoRec \in [ids : SUBSET Ids, id : Ids \cup {NoId}, files : SUBSET Files,
                bad : BOOLEAN, selected : BOOLEAN]
  /\ NoRec.ids = {} /\ NoRec.id = NoId /\ NoRec.files = {} /\ NoRec.bad = FALSE
  /\ NoRec.selected = FALSE
BY DEF NoRec

LEMMA NoRequestType == NoRequest \in Request
<1>1. AnySelection.name \in EnvFiles
  BY NoPlanType DEF NoPlan, Plan, Selection
<1> QED BY <1>1, TextAssumption DEF NoRequest, Request, NoBase, NoWant, Content

LEMMA TxFields ==
  ASSUME tx \in Transaction
  PROVE  /\ tx.at \in Steps /\ tx.id \in Ids \cup {NoId} /\ tx.plan \in Plan
         /\ tx.todo \in Seq(Files) /\ tx.written \in Seq(Files) /\ tx.applied \in BOOLEAN
BY DEF Transaction

LEMMA PlanFields ==
  ASSUME NEW plan \in Plan
  PROVE  /\ plan.files \in SUBSET Files /\ plan.from \in [Files -> Content]
         /\ plan.to \in [Files -> Content] /\ plan.adopts \in BOOLEAN
         /\ plan.selFrom \in Selection /\ plan.selTo \in Selection
BY DEF Plan

LEMMA JournalFields ==
  ASSUME NEW j \in Journal
  PROVE  /\ j.state \in {"none", "open", "ready", "unresolved"} /\ j.committed \in BOOLEAN
         /\ j.copies \in [Files -> {"intact", "gone", "empty"}] /\ j.plan \in Plan
BY DEF Journal

\* The transaction goes on to another step, and nothing else of it changes.
MovesTo(t, at) ==
    /\ t \in Transaction /\ t.at = at /\ t.id = tx.id /\ t.plan = tx.plan
    /\ t.todo = tx.todo /\ t.written = tx.written /\ t.applied = tx.applied

LEMMA Moving ==
  ASSUME tx \in Transaction, NEW at \in Steps
  PROVE  MovesTo([tx EXCEPT !.at = at], at)
BY DEF MovesTo, Transaction

LEMMA Compensating ==
  ASSUME tx \in Transaction
  PROVE  /\ MovesTo(Compensate(tx), IF tx.applied THEN "revert" ELSE "undo")
         /\ Compensate(tx).at \in {"revert", "undo"}
BY Moving DEF Compensate, MovesTo, Transaction, Steps

\* A removal that stops half way.
LEMMA Torn ==
  ASSUME NEW j \in Journal, NEW k \in TornRemoval(j)
  PROVE  k \in Journal
BY NoJournalType DEF TornRemoval, Journal

\* One journal changes.
LEMMA JournalSet ==
  ASSUME StoredOK, NEW i \in Ids, NEW j \in Journal, journals' = [journals EXCEPT ![i] = j]
  PROVE  /\ journals' \in [Ids -> Journal] /\ journals'[i] = j
         /\ \A k \in Ids \ {i} : journals'[k] = journals[k]
BY DEF StoredOK

----------------------------------------------------------------------------
(* The shared parts of the steps *)

LEMMA Faulty ==
  ASSUME CountOK, Fault \/ NoFault, UNCHANGED <<asked, edits, races, torn, cuts>>
  PROVE  CountOK'
BY BoundAssumption DEF CountOK, Fault, NoFault

LEMMA Releasing ==
  ASSUME TypeOK, queue # <<>>, Release
  PROVE  QueueOK' /\ tx' \in Transaction /\ touched' \in SUBSET Files /\ tx' = NoTx
<1>1. Head(queue) \in Savers /\ Tail(queue) \in Seq(Savers)
  BY HeadTailProperties DEF TypeOK
<1>2. QueueOK
  BY Parts
<1> QED BY <1>1, <1>2, NoRequestType, NoTxType DEF QueueOK, Release, Holder

LEMMA Doubting ==
  ASSUME TypeOK, NEW plan \in Plan
  PROVE  Doubt(plan) \in [files : [Files -> Content \cup {Unknown}], sel : Selection \cup {Unknown}]
BY DEF Doubt, TypeOK

LEMMA Leaving ==
  ASSUME TypeOK, queue # <<>>, LeaveJournal
  PROVE  QueueOK' /\ tx' \in Transaction /\ GhostOK' /\ tx' = NoTx /\ kept' = TRUE
<1>1. told' \in [files : [Files -> Content \cup {Unknown}], sel : Selection \cup {Unknown}]
  BY Doubting, TxFields, Parts DEF LeaveJournal
<1> QED BY <1>1, Releasing DEF LeaveJournal, GhostOK, ToldOK

LEMMA Aborting ==
  ASSUME TypeOK, Abort
  PROVE  ServerOK' /\ RecOK' /\ ToldOK' /\ kept' = TRUE /\ up' = "up" /\ rec' = NoRec
<1>1. told' \in [files : [Files -> Content \cup {Unknown}], sel : Selection \cup {Unknown}]
  BY DEF Abort, TypeOK
<1> QED BY <1>1, NoRecType DEF Abort, ServerOK, RecOK, ToldOK

LEMMA Forgetting ==
  ASSUME TypeOK, MemoryLost
  PROVE  /\ ServerOK' /\ QueueOK' /\ tx' \in Transaction /\ RecOK' /\ touched' = {}
         /\ up' = "down" /\ tx' = NoTx /\ rec' = NoRec /\ queue' = <<>>
<1>1. <<>> \in Seq(Savers)
  BY EmptySeq
<1> QED BY <1>1, NoRequestType, NoTxType, NoRecType
        DEF MemoryLost, ServerOK, QueueOK, RecOK, TypeOK

\* The types after a step, from the parts it may change.
LEMMA NextParts ==
  ASSUME StoredOK', ServerOK', QueueOK', tx' \in Transaction, RecOK', CountOK', GhostOK'
  PROVE  TypeOK'
BY DEF TypeOK, StoredOK, ServerOK, QueueOK, RecOK, CountOK, GhostOK, ToldOK

\* The transaction is over, or the server is down: nothing is left of its shape.
LEMMA NoTxShape ==
  ASSUME tx' = NoTx, up' # "up" => queue' = <<>>, up' # "recovering" => rec' = NoRec
  PROVE  Shape'
BY NoTxType DEF Shape, Forward

\* It goes on to a step without a claim on its lists.
LEMMA MovedShape ==
  ASSUME TypeOK, Shape, tx.at # "none", NEW at \in Steps, tx' = [tx EXCEPT !.at = at],
         at \in Forward => tx.todo # <<>>, at = "put-back" => tx.written # <<>>,
         UNCHANGED <<up, queue, rec>>
  PROVE  tx' \in Transaction /\ Shape' /\ MovesTo(tx', at)
<1>1. MovesTo([tx EXCEPT !.at = at], at)
  BY Moving DEF TypeOK
<1> QED BY <1>1 DEF MovesTo, Shape

LEMMA CompensatedShape ==
  ASSUME TypeOK, Shape, tx.at # "none", tx' = Compensate(tx), UNCHANGED <<up, queue, rec>>
  PROVE  tx' \in Transaction /\ Shape'
<1>1. MovesTo(Compensate(tx), Compensate(tx).at) /\ Compensate(tx).at \in {"revert", "undo"}
  BY Compensating DEF TypeOK, MovesTo
<1> QED BY <1>1 DEF MovesTo, Shape, Forward

----------------------------------------------------------------------------
(* The types are kept *)

LEMMA TypeInit ==
  ASSUME Init
  PROVE  TypeOK /\ Shape
<1>1. StoredOK
  BY NoJournalType DEF Init, StoredOK, Files, Content
<1>2. QueueOK
  BY EmptySeq, NoRequestType DEF Init, QueueOK
<1>3. tx \in Transaction /\ RecOK
  BY NoTxType, NoRecType DEF Init, RecOK
<1>4. CountOK /\ ServerOK
  BY BoundAssumption DEF Init, CountOK, ServerOK
<1>6. told = [files |-> disk, sel |-> sel] /\ touched = {} /\ kept = FALSE
  BY DEF Init
<1>7. GhostOK
  BY <1>1, <1>6 DEF GhostOK, ToldOK, StoredOK
<1>5. Shape
  BY NoTxType DEF Init, Shape, Forward
<1> QED BY <1>1, <1>2, <1>3, <1>4, <1>5, <1>7, Parts

LEMMA TypeOpen ==
  ASSUME TypeOK, Shape, NEW s \in Savers, Open(s)
  PROVE  TypeOK' /\ Shape'
<1>1. sel.name \in EnvFiles
  BY DEF TypeOK, Selection
<1>2. [NoRequest EXCEPT !.kind = "save", !.file = sel.name,
         !.base = [compose |-> disk[Compose], env |-> disk[sel.name]]] \in Request
  BY <1>1, NoRequestType DEF Request, TypeOK, Files
<1>3. QueueOK'
  BY <1>2 DEF Open, QueueOK, TypeOK
<1>4. asked' \in 0..MaxSaves
  BY BoundAssumption DEF Open, TypeOK
<1> QED BY <1>3, <1>4 DEF Open, stored, ghosts, TypeOK, Shape, QueueOK

LEMMA TypeSave ==
  ASSUME TypeOK, Shape, NEW s \in Savers, Save(s)
  PROVE  TypeOK' /\ Shape'
<1>1. PICK compose \in Texts, env \in Texts :
        req' = [req EXCEPT ![s].want = [compose |-> compose, env |-> env]]
  BY DEF Save
<1>2. req[s] \in Request
  BY DEF TypeOK
<1>3. [req[s] EXCEPT !.want = [compose |-> compose, env |-> env]] \in Request
  BY <1>2 DEF Request
<1>4. req' \in [Savers -> Request]
  BY <1>1, <1>3 DEF TypeOK
<1>5. queue' \in Seq(Savers) /\ queue' # <<>>
  BY AppendProperties DEF Save, TypeOK
<1>6. pc' \in [Savers -> {"idle", "editing", "queued"}]
  BY DEF Save, TypeOK
<1> QED BY <1>4, <1>5, <1>6 DEF Save, stored, counters, ghosts, TypeOK, Shape

LEMMA TypeAsk ==
  ASSUME TypeOK, Shape, NEW s \in Savers, Ask(s)
  PROVE  TypeOK' /\ Shape'
<1>1. PICK kind \in {"write", "create", "select"}, f \in EnvFiles, t \in Texts,
           listed \in SUBSET EnvFiles :
        req' = [req EXCEPT ![s] = [NoRequest EXCEPT !.kind = kind, !.file = f,
                   !.want.env = IF kind = "select" THEN Blank ELSE t,
                   !.listed = IF kind = "select" THEN listed ELSE {}]]
  BY DEF Ask
<1>2. [NoRequest EXCEPT !.kind = kind, !.file = f,
         !.want.env = IF kind = "select" THEN Blank ELSE t,
         !.listed = IF kind = "select" THEN listed ELSE {}] \in Request
  BY TextAssumption, NoRequestType DEF NoRequest, NoWant, Request, Files
<1>3. req' \in [Savers -> Request]
  BY <1>1, <1>2 DEF TypeOK
<1>4. queue' \in Seq(Savers) /\ queue' # <<>>
  BY AppendProperties DEF Ask, TypeOK
<1>5. pc' \in [Savers -> {"idle", "editing", "queued"}]
  BY DEF Ask, TypeOK
<1>6. asked' \in 0..MaxSaves
  BY BoundAssumption DEF Ask, TypeOK
<1> QED BY <1>3, <1>4, <1>5, <1>6 DEF Ask, stored, ghosts, TypeOK, Shape

LEMMA HolderKnown ==
  ASSUME TypeOK, queue # <<>>
  PROVE  /\ Holder \in Savers /\ req[Holder] \in Request
         /\ req[Holder].file \in EnvFiles /\ req[Holder].want.compose \in Texts
         /\ req[Holder].want.env \in Texts /\ req[Holder].listed \in SUBSET EnvFiles
<1>1. Holder \in Savers
  BY HeadTailProperties DEF TypeOK, Holder
<1>2. req[Holder] \in Request
  BY <1>1 DEF TypeOK
<1> QED BY <1>1, <1>2 DEF Request

LEMMA SelFields ==
  ASSUME TypeOK
  PROVE  sel \in Selection /\ sel.name \in EnvFiles /\ sel.listed \in SUBSET EnvFiles
         /\ sel.name # Compose /\ sel.name \in Files
BY FileAssumption DEF TypeOK, Selection, Files

\* What a plan covers: the compose file and the env file it is about.
EnvOf(r) == IF r.kind = "save" THEN sel.name ELSE r.file

LEMMA PlanType ==
  ASSUME TypeOK, NEW r \in Request
  PROVE  /\ PlanOf(r) \in Plan /\ PlanOf(r).files \subseteq {Compose, EnvOf(r)}
         /\ Targets(r) \subseteq Files /\ EnvOf(r) \in Files
<1>1. r.file \in EnvFiles /\ EnvFiles \subseteq Files /\ r.want.compose \in Texts /\ r.want.env \in Texts
  BY DEF Request, Files
<1>2. Targets(r) \subseteq {Compose, EnvOf(r)} /\ EnvOf(r) \in Files
  BY <1>1, SelFields DEF Targets, EnvOf
<1>3. Compose \in Files
  BY DEF Files
<1>4. \A f \in Files : Wanted(r, f) \in Content
  BY <1>1 DEF Wanted, Content
<1>5. Adopts(r) => EnvOf(r) \in EnvFiles
  BY <1>2, SelFields DEF Adopts, Files, FileAssumption
<1>6. PlanOf(r).files \subseteq Targets(r) /\ PlanOf(r).adopts = Adopts(r) /\ PlanOf(r).from = disk
      /\ PlanOf(r).selFrom = sel
  BY DEF PlanOf
<1>7. PlanOf(r).to \in [Files -> Content]
  BY <1>4 DEF PlanOf, TypeOK
<1>8. PlanOf(r).selTo \in Selection
  <2>1. CASE Adopts(r)
    <3>1. PlanOf(r).selTo = [name |-> EnvOf(r), listed |-> sel.listed \cup {EnvOf(r)}]
      BY <2>1 DEF PlanOf, EnvOf
    <3>2. sel.listed \cup {EnvOf(r)} \in SUBSET EnvFiles
      BY <2>1, <1>5, SelFields
    <3> QED BY <3>1, <3>2, <2>1, <1>5 DEF Selection
  <2>2. CASE ~Adopts(r)
    BY <2>2, SelFields DEF PlanOf
  <2> QED BY <2>1, <2>2
<1>9. Adopts(r) \in BOOLEAN
  BY DEF Adopts
<1>10. PlanOf(r).files \subseteq Files
  BY <1>2, <1>3, <1>6
<1>11. PlanOf(r) = [files |-> PlanOf(r).files, from |-> disk, to |-> PlanOf(r).to,
                    adopts |-> Adopts(r), selFrom |-> sel, selTo |-> PlanOf(r).selTo]
  BY DEF PlanOf
<1>12. disk \in [Files -> Content] /\ sel \in Selection
  BY DEF TypeOK
<1>13. PlanOf(r) \in Plan
  <2> DEFINE p == PlanOf(r)
  <2>1. [files |-> p.files, from |-> disk, to |-> p.to, adopts |-> Adopts(r),
         selFrom |-> sel, selTo |-> p.selTo] \in Plan
    BY <1>7, <1>8, <1>9, <1>10, <1>12 DEF Plan
  <2> QED BY <2>1, <1>11
<1> QED BY <1>2, <1>3, <1>6, <1>13

\* The files of a plan, in their order.
LEMMA Single ==
  ASSUME NEW S, NEW x \in S
  PROVE  <<x>> \in Seq(S) /\ Range(<<x>>) = {x} /\ <<x>> # <<>> /\ Len(<<x>>) = 1
<1>1. <<x>> \in Seq(S) /\ Len(<<x>>) = 1 /\ <<x>>[1] = x
  OBVIOUS
<1>2. Range(<<x>>) = {<<x>>[i] : i \in 1..Len(<<x>>)}
  BY <1>1, RangeEquality
<1>3. 1..1 = {1}
  OBVIOUS
<1> QED BY <1>1, <1>2, <1>3

LEMMA NothingIn ==
  ASSUME NEW S
  PROVE  <<>> \in Seq(S) /\ Range(<<>>) = {} /\ Len(<<>>) = 0
<1>1. <<>> \in Seq(S) /\ Len(<<>>) = 0
  BY EmptySeq
<1>2. Range(<<>>) = {<<>>[i] : i \in 1..0}
  BY <1>1, RangeEquality
<1>3. 1..0 = {}
  OBVIOUS
<1> QED BY <1>1, <1>2, <1>3

LEMMA Ordered ==
  ASSUME NEW F \in SUBSET Files, NEW e \in Files, F \subseteq {Compose, e}
  PROVE  /\ InOrder(F) \in Seq(Files) /\ Range(InOrder(F)) = F
         /\ F # {} => InOrder(F) # <<>>
<1> DEFINE a == IF Compose \in F THEN <<Compose>> ELSE <<>>
           b == IF F \subseteq {Compose} THEN <<>> ELSE <<CHOOSE f \in F : f # Compose>>
<1>1. Compose \in Files
  BY DEF Files
<1>2. a \in Seq(Files) /\ Range(a) = F \cap {Compose}
  <2>1. CASE Compose \in F
    <3>1. a = <<Compose>>
      BY <2>1
    <3> QED BY <3>1, <2>1, <1>1, Single
  <2>2. CASE Compose \notin F
    <3>1. a = <<>>
      BY <2>2
    <3> QED BY <3>1, <2>2, NothingIn
  <2> QED BY <2>1, <2>2
<1>3. b \in Seq(Files) /\ Range(b) = F \ {Compose}
  <2>1. CASE F \subseteq {Compose}
    <3>1. b = <<>>
      BY <2>1
    <3> QED BY <3>1, <2>1, NothingIn
  <2>2. CASE ~(F \subseteq {Compose})
    <3>1. (CHOOSE f \in F : f # Compose) = e /\ e \in F /\ e # Compose
      BY <2>2
    <3>2. b = <<e>>
      BY <2>2, <3>1
    <3>3. F \ {Compose} = {e}
      BY <3>1
    <3> QED BY <3>2, <3>3, Single
  <2> QED BY <2>1, <2>2
<1>4. InOrder(F) = a \o b
  BY DEF InOrder
<1> HIDE DEF a, b
<1>5. a \o b \in Seq(Files) /\ Range(a \o b) = F
  <2>1. a \in Seq(Files) /\ b \in Seq(Files)
    BY <1>2, <1>3
  <2>2. Range(a \o b) = Range(a) \cup Range(b)
    BY <2>1, RangeConcatenation
  <2>3. a \o b \in Seq(Files)
    BY <2>1
  <2> QED BY <2>2, <2>3, <1>2, <1>3
<1>6. F # {} => a \o b # <<>>
  BY <1>5, NothingIn
<1> QED BY <1>4, <1>5, <1>6

LEMMA Shortened ==
  ASSUME NEW S, NEW s \in Seq(S), s # <<>>
  PROVE  /\ Head(s) \in S /\ Tail(s) \in Seq(S) /\ Len(s) \in Nat \ {0}
         /\ Range(s) = {Head(s)} \cup Range(Tail(s))
         /\ Len(s) > 1 <=> Tail(s) # <<>>
         /\ s[Len(s)] \in S /\ SubSeq(s, 1, Len(s) - 1) \in Seq(S)
         /\ Range(s) = {s[Len(s)]} \cup Range(SubSeq(s, 1, Len(s) - 1))
<1> DEFINE n == Len(s)
           t == Tail(s)
           u == SubSeq(s, 1, n - 1)
<1>1. n \in Nat \ {0} /\ Head(s) = s[1] /\ \A k \in 1..n : s[k] \in S
  BY EmptySeq, ElementOfSeq
<1>2. /\ t \in Seq(S) /\ Len(t) = n - 1
      /\ \A k \in 1..(n - 1) : t[k] = s[k + 1]
  BY HeadTailProperties
<1>3. u \in Seq(S) /\ Len(u) = n - 1 /\ \A k \in 1..(n - 1) : u[k] = s[k]
  <2>1. \A k \in 1..(n - 1) : s[k] \in S
    BY <1>1
  <2>2. 1 \in Int /\ n - 1 \in Int
    BY <1>1
  <2>3. /\ u \in Seq(S) /\ Len(u) = (IF 1 <= n - 1 THEN n - 1 - 1 + 1 ELSE 0)
        /\ \A k \in 1..(n - 1 - 1 + 1) : u[k] = s[1 + k - 1]
    BY <2>1, <2>2, SubSeqProperties
  <2>4. n - 1 - 1 + 1 = n - 1 /\ \A k \in 1..(n - 1) : 1 + k - 1 = k
    BY <1>1
  <2> HIDE DEF n, u
  <2>5. Len(u) = n - 1
    <3>1. CASE n = 1
      BY <3>1, <2>3
    <3>2. CASE n > 1
      <4>1. 1 <= n - 1
        BY <3>2, <1>1
      <4> QED BY <4>1, <2>3, <2>4
    <3> QED BY <3>1, <3>2, <1>1
  <2>6. \A k \in 1..(n - 1) : u[k] = s[k]
    BY <2>3, <2>4
  <2> QED BY <2>3, <2>5, <2>6
<1>4. Range(s) = {s[k] : k \in 1..n}
  BY RangeEquality
<1>5. Range(t) = {t[k] : k \in 1..(n - 1)}
  BY <1>2, RangeEquality
<1>6. Range(u) = {u[k] : k \in 1..(n - 1)}
  BY <1>3, RangeEquality
<1> HIDE DEF n, t, u
<1>7. Range(s) = {s[1]} \cup Range(t)
  <2>1. \A k \in 1..n : k = 1 \/ (k - 1 \in 1..(n - 1) /\ s[k] = t[k - 1])
    BY <1>1, <1>2
  <2>2. 1 \in 1..n /\ \A k \in 1..(n - 1) : k + 1 \in 1..n
    BY <1>1
  <2>3. Range(t) \subseteq Range(s) /\ s[1] \in Range(s)
    BY <2>2, <1>2, <1>4, <1>5
  <2>4. Range(s) \subseteq {s[1]} \cup Range(t)
    BY <2>1, <1>4, <1>5
  <2> QED BY <2>3, <2>4
<1>8. Range(s) = {s[n]} \cup Range(u)
  <2>1. \A k \in 1..n : k = n \/ (k \in 1..(n - 1) /\ s[k] = u[k])
    BY <1>1, <1>3
  <2>2. n \in 1..n /\ \A k \in 1..(n - 1) : k \in 1..n
    BY <1>1
  <2>3. Range(u) \subseteq Range(s) /\ s[n] \in Range(s)
    BY <2>2, <1>3, <1>4, <1>6
  <2>4. Range(s) \subseteq {s[n]} \cup Range(u)
    BY <2>1, <1>4, <1>6
  <2> QED BY <2>3, <2>4
<1>9. n > 1 <=> t # <<>>
  <2>1. t # <<>> => Len(t) \in Nat \ {0}
    BY <1>2, EmptySeq
  <2>2. Len(t) # 0 => t # <<>>
    BY EmptySeq
  <2> QED BY <2>1, <2>2, <1>1, <1>2
<1>10. s[n] \in S /\ s[1] \in S
  BY <1>1
<1> QED BY <1>1, <1>2, <1>3, <1>7, <1>8, <1>9, <1>10 DEF n, t, u

LEMMA Extended ==
  ASSUME NEW S, NEW s \in Seq(S), NEW x \in S
  PROVE  Append(s, x) \in Seq(S) /\ Range(Append(s, x)) = Range(s) \cup {x}
<1>1. Append(s, x) = s \o <<x>> /\ Append(s, x) \in Seq(S)
  BY AppendIsConcat, AppendProperties
<1>2. <<x>> \in Seq(S) /\ Range(<<x>>) = {x}
  BY Single
<1>3. Range(s \o <<x>>) = Range(s) \cup Range(<<x>>)
  BY <1>2, RangeConcatenation
<1> QED BY <1>1, <1>2, <1>3

\* The steps of a transaction that ends, one way or the other.
LEMMA Ending ==
  ASSUME TypeOK, Shape, queue # <<>>, Release, UNCHANGED <<up, rec>>, up = "up"
  PROVE  QueueOK' /\ tx' \in Transaction /\ touched' \in SUBSET Files /\ Shape' /\ tx' = NoTx
BY Releasing, NoTxShape DEF Release, Shape

LEMMA TypeRefuse ==
  ASSUME TypeOK, Shape, Refuse
  PROVE  TypeOK' /\ Shape'
<1>1. QueueOK' /\ tx' \in Transaction /\ touched' \in SUBSET Files /\ Shape'
  BY Ending DEF Refuse, Queued
<1>2. CountOK'
  BY Faulty, Parts DEF Refuse
<1> QED BY <1>1, <1>2, Parts, NextParts
        DEF Refuse, stored, StoredOK, ServerOK, RecOK, GhostOK, ToldOK

LEMMA TypeStoreSelection ==
  ASSUME TypeOK, Shape, StoreSelection
  PROVE  TypeOK' /\ Shape'
<1>1. QueueOK' /\ tx' \in Transaction /\ touched' \in SUBSET Files /\ Shape'
  BY Ending DEF StoreSelection, Queued
<1>2. req[Holder] \in Request
  BY HolderKnown DEF StoreSelection, Queued
<1>3. sel' \in Selection
  <2>1. CASE req[Holder].kind = "select"
    <3>1. sel' = [name |-> req[Holder].file, listed |-> req[Holder].listed]
      BY <2>1 DEF StoreSelection
    <3> QED BY <3>1, HolderKnown DEF Selection, StoreSelection, Queued
  <2>2. CASE req[Holder].kind # "select"
    BY <2>2, <1>2, PlanType, PlanFields DEF StoreSelection
  <2> QED BY <2>1, <2>2
<1>4. ToldOK'
  <2>1. [told EXCEPT !.sel = sel'] \in
          [files : [Files -> Content \cup {Unknown}], sel : Selection \cup {Unknown}]
    BY <1>3 DEF TypeOK
  <2> QED BY <2>1 DEF StoreSelection, ToldOK, TypeOK
<1> QED BY <1>1, <1>3, <1>4, Parts, NextParts
        DEF StoreSelection, StoredOK, ServerOK, RecOK, GhostOK, counters, CountOK

LEMMA TypePlanWrite ==
  ASSUME TypeOK, Shape, PlanWrite
  PROVE  TypeOK' /\ Shape'
<1>1. req[Holder] \in Request /\ queue # <<>> /\ up = "up"
  BY HolderKnown DEF PlanWrite, Queued
<1> DEFINE plan == PlanOf(req[Holder])
<1>2. PICK i \in Ids : tx' = [NoTx EXCEPT !.at = "journal", !.id = i, !.plan = plan,
                                !.todo = InOrder(plan.files)]
  BY DEF PlanWrite
<1>3. plan \in Plan
  BY <1>1, PlanType
<1>4. InOrder(plan.files) \in Seq(Files) /\ InOrder(plan.files) # <<>>
  <2>1. plan.files \subseteq {Compose, EnvOf(req[Holder])} /\ EnvOf(req[Holder]) \in Files
    BY <1>1, PlanType
  <2>2. plan.files \in SUBSET Files
    BY <1>3, PlanFields
  <2>3. plan.files # {}
    BY DEF PlanWrite
  <2> HIDE DEF plan
  <2> QED BY <2>1, <2>2, <2>3, Ordered
<1> HIDE DEF plan
<1>5. tx' \in Transaction /\ tx'.at = "journal" /\ tx'.id \in Ids /\ tx'.todo # <<>>
  <2>1. [NoTx EXCEPT !.at = "journal", !.id = i, !.plan = plan,
           !.todo = InOrder(plan.files)] \in Transaction
    BY <1>3, <1>4, NoTxType DEF Transaction, Steps
  <2> QED BY <2>1, <1>2, <1>4, NoTxType DEF Transaction
<1>6. Shape'
  BY <1>1, <1>5 DEF Shape, Forward, PlanWrite
<1> QED BY <1>5, <1>6, Parts, NextParts
        DEF PlanWrite, stored, counters, StoredOK, ServerOK, QueueOK, RecOK, CountOK, GhostOK, ToldOK

LEMMA OwnJournal ==
  ASSUME TypeOK, Shape, tx.at # "none"
  PROVE  tx.id \in Ids /\ queue # <<>> /\ up = "up" /\ journals[tx.id] \in Journal
         /\ tx.plan \in Plan /\ tx.plan.files \in SUBSET Files
         /\ tx \in Transaction
BY TxFields, PlanFields DEF Shape, TypeOK

LEMMA TypeOpenJournal ==
  ASSUME TypeOK, Shape, OpenJournal
  PROVE  TypeOK' /\ Shape'
<1>1. tx.at = "journal" /\ up = "up"
  BY DEF OpenJournal, Holds
<1>2. tx.id \in Ids /\ queue # <<>> /\ journals[tx.id] \in Journal /\ tx.plan \in Plan
  BY <1>1, OwnJournal
<1>3. CountOK'
  BY Faulty, Parts DEF OpenJournal
<1>4. CASE journals' = [journals EXCEPT ![tx.id] = JournalOf(tx.plan)] /\ Goto("check")
           /\ UNCHANGED <<queue, pc, req, touched>>
  <2>1. JournalOf(tx.plan) \in Journal
    BY <1>2, NoJournalType DEF JournalOf, Journal
  <2>2. journals' \in [Ids -> Journal]
    BY <2>1, <1>2, <1>4 DEF TypeOK
  <2>3. tx.todo # <<>>
    BY <1>1 DEF Shape, Forward
  <2>4. tx' \in Transaction /\ Shape'
    BY <1>1, <1>4, <2>3, MovedShape DEF Goto, OpenJournal, Steps
  <2> QED BY <1>3, <1>4, <2>2, <2>4, Parts, NextParts
          DEF OpenJournal, StoredOK, ServerOK, QueueOK, RecOK, GhostOK, ToldOK
<1>5. CASE journals' = [journals EXCEPT ![tx.id].state = "open"] /\ Release
  <2>1. [journals[tx.id] EXCEPT !.state = "open"] \in Journal
    BY <1>2 DEF Journal
  <2>2. journals' \in [Ids -> Journal]
    BY <2>1, <1>2, <1>5 DEF TypeOK
  <2>3. QueueOK' /\ tx' \in Transaction /\ touched' \in SUBSET Files /\ Shape'
    BY <1>1, <1>2, <1>5, Ending DEF OpenJournal
  <2> QED BY <1>3, <1>5, <2>2, <2>3, Parts, NextParts
          DEF OpenJournal, StoredOK, ServerOK, RecOK, GhostOK, ToldOK
<1> QED BY <1>4, <1>5 DEF OpenJournal

\* The heads and the ends of the two lists.
LEMMA FileKnown ==
  ASSUME TypeOK, Shape, tx.at \in Forward
  PROVE  /\ File \in Files /\ Tail(tx.todo) \in Seq(Files)
         /\ Range(tx.todo) = {File} \cup Range(Tail(tx.todo))
         /\ Len(tx.todo) > 1 <=> Tail(tx.todo) # <<>>
<1>1. tx.todo \in Seq(Files) /\ tx.todo # <<>>
  BY TxFields DEF Shape, TypeOK
<1> QED BY <1>1, Shortened DEF File

LEMMA LastKnown ==
  ASSUME TypeOK, tx.written # <<>>
  PROVE  /\ LastWritten \in Files /\ SubSeq(tx.written, 1, Len(tx.written) - 1) \in Seq(Files)
         /\ Range(tx.written) =
              {LastWritten} \cup Range(SubSeq(tx.written, 1, Len(tx.written) - 1))
<1>1. tx.written \in Seq(Files)
  BY TxFields DEF TypeOK
<1> QED BY <1>1, Shortened DEF LastWritten

\* The steps of a transaction that goes on under its holder.
LEMMA GoesOn ==
  ASSUME TypeOK, Fault \/ NoFault, tx' \in Transaction, StoredOK', touched' \in SUBSET Files,
         ToldOK', UNCHANGED <<up, queue, pc, req, rec, asked, edits, races, torn, cuts, kept>>
  PROVE  TypeOK'
<1>1. CountOK'
  BY Faulty, Parts
<1> QED BY <1>1, Parts, NextParts DEF ServerOK, QueueOK, RecOK, GhostOK

LEMMA TypeCheck ==
  ASSUME TypeOK, Shape, Check
  PROVE  TypeOK' /\ Shape'
<1>1. tx.at = "check" /\ up = "up" /\ tx.todo # <<>>
  BY DEF Check, Holds, Shape, Forward
<1>2. tx' \in Transaction /\ Shape'
  BY <1>1, MovedShape, CompensatedShape DEF Check, Goto, Steps
<1>3. touched' \in SUBSET Files
  BY DEF Check, TypeOK
<1> QED BY <1>2, <1>3, Parts, GoesOn DEF Check, stored, StoredOK, GhostOK, ToldOK

LEMMA TypeReplace ==
  ASSUME TypeOK, Shape, Replace
  PROVE  TypeOK' /\ Shape'
<1>1. tx.at = "replace" /\ up = "up" /\ tx.todo # <<>>
  BY DEF Replace, Holds, Shape, Forward
<1>2. StoredOK' /\ tx' \in Transaction /\ Shape'
  <2>1. CASE tx' = Compensate(tx) /\ UNCHANGED disk
    BY <1>1, <2>1, CompensatedShape, Parts DEF Replace, StoredOK
  <2>2. CASE /\ disk' = [disk EXCEPT ![File] = tx.plan.to[File]]
             /\ tx' = [tx EXCEPT !.at = "verify", !.written = Append(@, File)]
    <3>1. File \in Files /\ tx.written \in Seq(Files) /\ tx.plan \in Plan
      BY <1>1, FileKnown, TxFields DEF Forward, TypeOK
    <3>2. Append(tx.written, File) \in Seq(Files)
      BY <3>1
    <3>3. [tx EXCEPT !.at = "verify", !.written = Append(@, File)] \in Transaction
      BY <3>2 DEF TypeOK, Transaction, Steps
    <3>4. tx' \in Transaction /\ tx'.at = "verify" /\ tx'.id = tx.id /\ tx'.todo = tx.todo
      BY <2>2, <3>3 DEF TypeOK, Transaction
    <3>5. disk' \in [Files -> Content]
      BY <2>2, <3>1, PlanFields DEF TypeOK
    <3>6. Shape'
      BY <1>1, <3>4 DEF Replace, Shape
    <3> QED BY <3>4, <3>5, <3>6, Parts DEF Replace, StoredOK
  <2> QED BY <2>1, <2>2 DEF Replace
<1> QED BY <1>2, Parts, GoesOn DEF Replace, ghosts, GhostOK, ToldOK

LEMMA TypeVerify ==
  ASSUME TypeOK, Shape, Verify
  PROVE  TypeOK' /\ Shape'
<1>1. tx.at = "verify" /\ up = "up"
  BY DEF Verify, Holds
<1>2. tx' \in Transaction /\ Shape'
  <2>1. CASE tx' = Compensate(tx)
    BY <1>1, <2>1, CompensatedShape DEF Verify
  <2>2. ASSUME NEW next \in {"check", "select", "commit"},
               next = "check" => Len(tx.todo) > 1,
               tx' = [tx EXCEPT !.todo = Tail(@), !.at = next]
        PROVE  tx' \in Transaction /\ Shape'
    <3>1. Tail(tx.todo) \in Seq(Files) /\ (next = "check" => Tail(tx.todo) # <<>>)
      BY <1>1, <2>2, FileKnown DEF Forward
    <3>2. [tx EXCEPT !.todo = Tail(@), !.at = next] \in Transaction
      BY <3>1 DEF TypeOK, Transaction, Steps
    <3>3. tx' \in Transaction /\ tx'.at = next /\ tx'.id = tx.id /\ tx'.todo = Tail(tx.todo)
      BY <2>2, <3>2 DEF TypeOK, Transaction
    <3> QED BY <1>1, <3>1, <3>3 DEF Verify, Shape, Forward
  <2>3. CASE tx' = [tx EXCEPT !.todo = Tail(@),
                      !.at = IF Len(tx.todo) > 1 THEN "check"
                             ELSE IF tx.plan.adopts THEN "select" ELSE "commit"]
    BY <2>2, <2>3
  <2> QED BY <2>1, <2>3 DEF Verify
<1> QED BY <1>2, Parts, GoesOn DEF Verify, stored, ghosts, StoredOK, GhostOK, ToldOK

LEMMA TypeSelect ==
  ASSUME TypeOK, Shape, Select
  PROVE  TypeOK' /\ Shape'
<1>1. tx.at = "select" /\ up = "up"
  BY DEF Select, Holds
<1>2. tx.plan \in Plan /\ tx.plan.selTo \in Selection
  BY TxFields, PlanFields DEF TypeOK
<1>3. tx' \in Transaction /\ Shape'
  <2>1. CASE tx' = Compensate(tx)
    BY <1>1, <2>1, CompensatedShape DEF Select
  <2>2. CASE tx' = [tx EXCEPT !.at = "commit", !.applied = TRUE]
    <3>1. tx' \in Transaction /\ tx'.at = "commit" /\ tx'.id = tx.id
      BY <2>2 DEF TypeOK, Transaction, Steps
    <3> QED BY <1>1, <3>1 DEF Select, Shape, Forward
  <2> QED BY <2>1, <2>2 DEF Select
<1> QED BY <1>2, <1>3, Parts, GoesOn DEF Select, ghosts, StoredOK, GhostOK, ToldOK

LEMMA TypeCommit ==
  ASSUME TypeOK, Shape, Commit
  PROVE  TypeOK' /\ Shape'
<1>1. tx.at = "commit" /\ up = "up"
  BY DEF Commit, Holds
<1>2. CASE tx' = Compensate(tx) /\ UNCHANGED <<journals, told>>
  <2>1. tx' \in Transaction /\ Shape'
    BY <1>1, <1>2, CompensatedShape DEF Commit
  <2> QED BY <1>2, <2>1, Parts, GoesOn DEF Commit, StoredOK, GhostOK, ToldOK
<1>3. CASE /\ journals' = [journals EXCEPT ![tx.id].committed = TRUE]
           /\ told' = [files |-> [f \in Files |->
                         IF f \in tx.plan.files \ touched THEN tx.plan.to[f]
                         ELSE told.files[f]],
                      sel |-> IF tx.plan.adopts THEN tx.plan.selTo ELSE told.sel]
           /\ Goto("clean")
  <2>1. tx.id \in Ids /\ journals[tx.id] \in Journal /\ tx.plan \in Plan
    BY <1>1, OwnJournal
  <2>2. [journals[tx.id] EXCEPT !.committed = TRUE] \in Journal
    BY <2>1 DEF Journal
  <2>3. journals' \in [Ids -> Journal]
    BY <1>3, <2>1, <2>2 DEF TypeOK
  <2>4. ToldOK'
    BY <1>3, <2>1, PlanFields DEF ToldOK, TypeOK
  <2>5. tx' \in Transaction /\ Shape'
    BY <1>1, <1>3, MovedShape DEF Goto, Commit, Steps, Forward
  <2> QED BY <2>3, <2>4, <2>5, Parts, GoesOn DEF Commit, StoredOK, GhostOK
<1> QED BY <1>2, <1>3 DEF Commit

\* A journal is left to a server that goes on.
LEMMA TypeLeave ==
  ASSUME TypeOK, Shape, tx.at # "none", LeaveJournal, Fault \/ NoFault,
         StoredOK', UNCHANGED <<up, rec, asked, edits, races, torn, cuts>>
  PROVE  TypeOK' /\ Shape'
<1>1. queue # <<>> /\ up = "up"
  BY DEF Shape
<1>2. QueueOK' /\ tx' \in Transaction /\ GhostOK' /\ tx' = NoTx
  BY <1>1, Leaving
<1>3. CountOK'
  BY Faulty, Parts
<1>4. Shape'
  BY <1>1, <1>2, NoTxShape DEF Shape
<1> QED BY <1>2, <1>3, <1>4, Parts, NextParts DEF ServerOK, RecOK

\* The journal of the transaction is removed, whole or in part.
LEMMA TypeRemove ==
  ASSUME TypeOK, Shape, tx.at # "none", UNCHANGED <<disk, sel, up, rec, asked, edits, races, torn, cuts>>,
         \/ /\ journals' = [journals EXCEPT ![tx.id] = NoJournal]
            /\ Release /\ NoFault /\ UNCHANGED <<told, kept>>
         \/ /\ \E j \in TornRemoval(journals[tx.id]) :
                 journals' = [journals EXCEPT ![tx.id] = j]
            /\ LeaveJournal /\ Fault
  PROVE  TypeOK' /\ Shape'
<1>1. tx.id \in Ids /\ journals[tx.id] \in Journal /\ queue # <<>> /\ up = "up"
  BY OwnJournal
<1>2. CASE /\ journals' = [journals EXCEPT ![tx.id] = NoJournal]
           /\ Release /\ NoFault /\ UNCHANGED <<told, kept>>
  <2>1. journals' \in [Ids -> Journal]
    BY <1>1, <1>2, NoJournalType DEF TypeOK
  <2>2. QueueOK' /\ tx' \in Transaction /\ touched' \in SUBSET Files /\ Shape'
    BY <1>1, <1>2, Ending
  <2>3. CountOK'
    BY <1>2, Faulty, Parts
  <2> QED BY <1>2, <2>1, <2>2, <2>3, Parts, NextParts
          DEF StoredOK, ServerOK, RecOK, GhostOK, ToldOK
<1>3. CASE /\ \E j \in TornRemoval(journals[tx.id]) :
                journals' = [journals EXCEPT ![tx.id] = j]
           /\ LeaveJournal /\ Fault
  <2>1. journals' \in [Ids -> Journal]
    BY <1>1, <1>3, Torn DEF TypeOK
  <2> QED BY <1>3, <2>1, Parts, TypeLeave DEF StoredOK
<1> QED BY <1>2, <1>3

LEMMA TypeClean ==
  ASSUME TypeOK, Shape, Clean
  PROVE  TypeOK' /\ Shape'
BY TypeRemove DEF Clean, Holds

LEMMA TypeUndone ==
  ASSUME TypeOK, Shape, Undone
  PROVE  TypeOK' /\ Shape'
BY TypeRemove DEF Undone, Holds

LEMMA TypeRevert ==
  ASSUME TypeOK, Shape, Revert
  PROVE  TypeOK' /\ Shape'
<1>1. tx.at = "revert" /\ up = "up"
  BY DEF Revert, Holds
<1>2. tx.plan \in Plan /\ tx.plan.selFrom \in Selection
  BY TxFields, PlanFields DEF TypeOK
<1>3. CASE sel' = tx.plan.selFrom /\ Goto("undo") /\ NoFault
           /\ UNCHANGED <<queue, pc, req, told, touched, kept>>
  <2>1. tx' \in Transaction /\ Shape'
    BY <1>1, <1>3, MovedShape DEF Goto, Revert, Steps, Forward
  <2> QED BY <1>2, <1>3, <2>1, Parts, GoesOn DEF Revert, StoredOK, GhostOK, ToldOK
<1>4. CASE LeaveJournal /\ Fault /\ UNCHANGED sel
  BY <1>1, <1>4, Parts, TypeLeave DEF Revert, StoredOK
<1> QED BY <1>3, <1>4 DEF Revert

LEMMA TypeUndo ==
  ASSUME TypeOK, Shape, Undo
  PROVE  TypeOK' /\ Shape'
<1>1. tx.at = "undo" /\ up = "up"
  BY DEF Undo, Holds
<1>2. StoredOK'
  BY Parts DEF Undo, stored, StoredOK
<1>3. ASSUME NEW at \in {"undone", "put-back"}, at = "put-back" => tx.written # <<>>,
             Goto(at), NoFault, UNCHANGED <<queue, pc, req, told, touched, kept>>
      PROVE  TypeOK' /\ Shape'
  <2>1. tx' \in Transaction /\ Shape'
    BY <1>1, <1>3, MovedShape DEF Goto, Undo, Steps, Forward
  <2> QED BY <1>2, <1>3, <2>1, Parts, GoesOn DEF Undo, GhostOK, ToldOK
<1>4. CASE LeaveJournal /\ (Fault \/ NoFault)
  BY <1>1, <1>2, <1>4, TypeLeave DEF Undo
<1> QED BY <1>3, <1>4 DEF Undo

LEMMA TypePutBack ==
  ASSUME TypeOK, Shape, PutBack
  PROVE  TypeOK' /\ Shape'
<1>1. tx.at = "put-back" /\ up = "up" /\ tx.written # <<>>
  BY DEF PutBack, Holds, Shape
<1>2. tx.plan \in Plan
  BY TxFields DEF TypeOK
<1>3. CASE /\ disk' = [disk EXCEPT ![LastWritten] = tx.plan.from[LastWritten]]
           /\ tx' = [tx EXCEPT !.at = "undo", !.written = SubSeq(@, 1, Len(@) - 1)]
           /\ NoFault /\ UNCHANGED <<queue, pc, req, told, touched, kept>>
  <2>1. LastWritten \in Files /\ SubSeq(tx.written, 1, Len(tx.written) - 1) \in Seq(Files)
    BY <1>1, LastKnown
  <2>2. disk' \in [Files -> Content]
    BY <1>2, <1>3, <2>1, PlanFields DEF TypeOK
  <2>3. [tx EXCEPT !.at = "undo", !.written = SubSeq(@, 1, Len(@) - 1)] \in Transaction
    BY <2>1 DEF TypeOK, Transaction, Steps
  <2>4. tx' \in Transaction /\ tx'.at = "undo" /\ tx'.id = tx.id
    BY <1>3, <2>3 DEF TypeOK, Transaction
  <2>5. Shape'
    BY <1>1, <1>3, <2>4 DEF PutBack, Shape, Forward
  <2> QED BY <1>3, <2>2, <2>4, <2>5, Parts, GoesOn DEF PutBack, StoredOK, GhostOK, ToldOK
<1>4. CASE LeaveJournal /\ Fault /\ UNCHANGED disk
  BY <1>1, <1>4, Parts, TypeLeave DEF PutBack, StoredOK
<1> QED BY <1>3, <1>4 DEF PutBack

\* The memory is gone and one journal may be what the disk kept of it.
LEMMA TypeDown ==
  ASSUME TypeOK, Shape, MemoryLost, CountOK', UNCHANGED <<disk, sel, told, kept>>,
         journals' \in [Ids -> Journal]
  PROVE  TypeOK' /\ Shape'
<1>1. /\ ServerOK' /\ QueueOK' /\ tx' \in Transaction /\ RecOK' /\ touched' = {}
      /\ up' = "down" /\ tx' = NoTx /\ rec' = NoRec /\ queue' = <<>>
  BY Forgetting
<1>2. Shape'
  BY <1>1, NoTxShape
<1> QED BY <1>1, <1>2, Parts, NextParts DEF StoredOK, GhostOK, ToldOK

LEMMA TypeCrash ==
  ASSUME TypeOK, Shape, Crash
  PROVE  TypeOK' /\ Shape'
<1>1. CASE UNCHANGED <<journals, torn>>
  <2>1. CountOK'
    BY <1>1, Faulty, Parts DEF Crash
  <2> QED BY <1>1, <2>1, TypeDown DEF Crash, TypeOK
<1>2. CASE /\ Holds("journal") /\ UNCHANGED torn
           /\ journals' = [journals EXCEPT ![tx.id].state = "open"]
  <2>1. CountOK'
    BY <1>2, Faulty, Parts DEF Crash
  <2>2. tx.id \in Ids /\ journals[tx.id] \in Journal
    BY <1>2, OwnJournal DEF Holds
  <2>3. [journals[tx.id] EXCEPT !.state = "open"] \in Journal
    BY <2>2 DEF Journal
  <2> QED BY <1>2, <2>1, <2>2, <2>3, TypeDown DEF Crash, TypeOK
<1>3. CASE /\ torn < MaxTorn /\ torn' = torn + 1
           /\ \E i \in Removing : \E j \in TornRemoval(journals[i]) :
                journals' = [journals EXCEPT ![i] = j]
  <2>1. CountOK'
    BY <1>3, BoundAssumption, Parts DEF Crash, CountOK, Fault
  <2>2. Removing \subseteq Ids
    BY OwnJournal DEF Removing, Holds, TypeOK
  <2>3. journals' \in [Ids -> Journal]
    BY <1>3, <2>2, Torn DEF TypeOK
  <2> QED BY <2>1, <2>3, TypeDown DEF Crash
<1> QED BY <1>1, <1>2, <1>3 DEF Crash

LEMMA TypePowerCut ==
  ASSUME TypeOK, Shape, PowerCut
  PROVE  TypeOK' /\ Shape'
<1>1. CountOK'
  BY BoundAssumption DEF PowerCut, CountOK, TypeOK
<1>6. PICK i \in Ids :
         /\ journals[i].state = "ready"
         /\ \E st \in {"open", "ready"}, c \in {FALSE, journals[i].committed},
               k \in [Files -> {"intact", "gone", "empty"}] :
              /\ \A f \in Files : k[f] # journals[i].copies[f] =>
                    f \in journals[i].plan.files /\ journals[i].copies[f] = "intact"
              /\ journals' = [journals EXCEPT ![i].state = st, ![i].committed = c,
                                ![i].copies = k]
  BY Zenon DEF PowerCut
<1>2. PICK st \in {"open", "ready"}, c \in {FALSE, journals[i].committed},
           k \in [Files -> {"intact", "gone", "empty"}] :
        journals' = [journals EXCEPT ![i].state = st, ![i].committed = c, ![i].copies = k]
  BY <1>6
<1>3. journals[i] \in Journal
  BY DEF TypeOK
<1>4. [journals[i] EXCEPT !.state = st, !.committed = c, !.copies = k] \in Journal
  BY <1>3 DEF Journal
<1>5. journals' = [journals EXCEPT ![i] = [journals[i] EXCEPT !.state = st, !.committed = c,
                                             !.copies = k]]
  BY <1>2 DEF TypeOK
<1> QED BY <1>1, <1>4, <1>5, TypeDown DEF PowerCut, TypeOK

LEMMA TypeEdit ==
  ASSUME TypeOK, Shape, NEW f \in Files, Edit(f)
  PROVE  TypeOK' /\ Shape'
<1>1. PICK t \in Content :
        /\ disk' = [disk EXCEPT ![f] = t]
        /\ told' = [told EXCEPT !.files[f] = IF t \in VersionsOf(f) THEN Unknown ELSE t]
  BY DEF Edit
<1>2. disk' \in [Files -> Content]
  BY <1>1 DEF TypeOK
<1>3. ToldOK'
  BY <1>1 DEF ToldOK, TypeOK
<1>4. touched' \in SUBSET Files
  BY DEF Edit, TypeOK
<1>5. CountOK'
  BY BoundAssumption DEF Edit, CountOK, TypeOK
<1>6. Shape'
  BY DEF Edit, Shape, memory
<1> QED BY <1>2, <1>3, <1>4, <1>5, <1>6, Parts, NextParts
        DEF Edit, memory, StoredOK, ServerOK, QueueOK, RecOK, GhostOK

\* The steps of the recovery keep what belongs to requests.
LEMMA Recovers ==
  ASSUME TypeOK, Shape, Fault \/ NoFault, StoredOK', ServerOK', RecOK', ToldOK',
         kept' \in BOOLEAN, up' # "recovering" => rec' = NoRec, up # "up",
         UNCHANGED <<queue, pc, req, tx, asked, edits, races, torn, cuts, touched>>
  PROVE  TypeOK' /\ Shape'
<1>1. CountOK'
  BY Faulty, Parts
<1>2. tx.at = "none" /\ queue = <<>>
  BY DEF Shape
<1>3. Shape'
  BY <1>2 DEF Shape, Forward
<1> QED BY <1>1, <1>3, Parts, NextParts DEF QueueOK, GhostOK

\* Of the recovery, only its own record and one file, the selection or one journal.
LEMMA RecFields ==
  ASSUME TypeOK
  PROVE  /\ rec.ids \in SUBSET Ids /\ rec.id \in Ids \cup {NoId} /\ rec.files \in SUBSET Files
         /\ rec.bad \in BOOLEAN /\ rec.selected \in BOOLEAN /\ RecOK
BY DEF TypeOK, RecOK

LEMMA TypeStart ==
  ASSUME TypeOK, Shape, Start
  PROVE  TypeOK' /\ Shape'
<1>1. StoredOK' /\ up # "up"
  BY Parts DEF Start, stored, StoredOK
<1>2. CASE /\ up' = "recovering" /\ NoFault
           /\ rec' = [NoRec EXCEPT !.ids = {i \in Ids : Live(i)}]
           /\ UNCHANGED <<told, kept>>
  <2>1. {i \in Ids : Live(i)} \in SUBSET Ids
    OBVIOUS
  <2>2. RecOK'
    BY <1>2, <2>1, NoRecType DEF RecOK
  <2> QED BY <1>1, <1>2, <2>2, Recovers, Parts DEF Start, ServerOK, GhostOK, ToldOK
<1>3. CASE Abort /\ Fault
  BY <1>1, <1>3, Aborting, Recovers DEF Start
<1> QED BY <1>2, <1>3 DEF Start

LEMMA TypeTakeJournal ==
  ASSUME TypeOK, Shape, TakeJournal
  PROVE  TypeOK' /\ Shape'
<1>1. PICK i \in rec.ids :
        rec' = IF journals[i].state = "open" THEN [rec EXCEPT !.ids = @ \ {i}]
                ELSE [NoRec EXCEPT !.ids = rec.ids \ {i}, !.id = i,
                        !.files = journals[i].plan.files]
  BY DEF TakeJournal
<1>2. i \in Ids /\ journals[i] \in Journal
  BY RecFields DEF TypeOK
<1>3. journals[i].plan.files \in SUBSET Files
  BY <1>2, JournalFields, PlanFields
<1>4. RecOK'
  <2>1. [rec EXCEPT !.ids = @ \ {i}] \in [ids : SUBSET Ids, id : Ids \cup {NoId},
           files : SUBSET Files, bad : BOOLEAN, selected : BOOLEAN]
    BY RecFields DEF RecOK
  <2>2. [NoRec EXCEPT !.ids = rec.ids \ {i}, !.id = i, !.files = journals[i].plan.files] \in
          [ids : SUBSET Ids, id : Ids \cup {NoId},
           files : SUBSET Files, bad : BOOLEAN, selected : BOOLEAN]
    BY <1>2, <1>3, RecFields, NoRecType
  <2> QED BY <1>1, <2>1, <2>2 DEF RecOK
<1>5. Shape'
  BY DEF TakeJournal, Shape
<1> QED BY <1>4, <1>5, Parts, NextParts DEF TakeJournal, stored, counters, ghosts,
        StoredOK, ServerOK, QueueOK, CountOK, GhostOK, ToldOK

\* The journal that is being recovered.
LEMMA TakenKnown ==
  ASSUME TypeOK, rec.id # NoId
  PROVE  /\ rec.id \in Ids /\ Taken \in Journal /\ Taken.plan \in Plan
         /\ Taken.plan.selTo \in Selection /\ Taken.plan.selFrom \in Selection
         /\ \A f \in Files : WantedBack(f) \in Content /\ FromCopy(f) \in Content
<1>1. rec.id \in Ids
  BY RecFields
<1>2. Taken \in Journal /\ Taken.plan \in Plan
  BY <1>1, JournalFields DEF Taken, TypeOK
<1>3. \A f \in Files : WantedBack(f) \in Content
  BY <1>2, PlanFields DEF WantedBack
<1>4. Blank \in Content /\ Missing \in Content
  BY TextAssumption DEF Content
<1> QED BY <1>1, <1>2, <1>3, <1>4, PlanFields DEF FromCopy

LEMMA TypeRecoverFile ==
  ASSUME TypeOK, Shape, RecoverFile
  PROVE  TypeOK' /\ Shape'
<1>1. PICK f \in rec.files :
         \/ /\ disk[f] = WantedBack(f)
            /\ rec' = [rec EXCEPT !.files = @ \ {f}] /\ NoFault /\ UNCHANGED disk
         \/ /\ disk[f] # WantedBack(f) /\ Ours(f) /\ ~CopyGone(f)
            /\ disk' = [disk EXCEPT ![f] = FromCopy(f)]
            /\ rec' = [rec EXCEPT !.files = @ \ {f}] /\ NoFault
         \/ /\ disk[f] # WantedBack(f) /\ (~Ours(f) \/ CopyGone(f))
            /\ rec' = [rec EXCEPT !.files = @ \ {f}, !.bad = TRUE]
            /\ NoFault /\ UNCHANGED disk
         \/ /\ rec' = [rec EXCEPT !.files = @ \ {f}, !.bad = TRUE]
            /\ Fault /\ UNCHANGED disk
  BY DEF RecoverFile
<1>2. f \in Files
  BY RecFields
<1>3. rec' = [rec EXCEPT !.files = @ \ {f}] \/ rec' = [rec EXCEPT !.files = @ \ {f}, !.bad = TRUE]
  BY <1>1
<1>4. RecOK'
  BY <1>3, RecFields DEF RecOK
<1>5. disk' \in [Files -> Content]
  <2>1. UNCHANGED disk \/ disk' = [disk EXCEPT ![f] = FromCopy(f)]
    BY <1>1
  <2>2. FromCopy(f) \in Content /\ disk \in [Files -> Content]
    BY <1>2, TakenKnown DEF RecoverFile, TypeOK
  <2> QED BY <2>1, <2>2, <1>2
<1>6. Fault \/ NoFault
  BY <1>1
<1> QED BY <1>4, <1>5, <1>6, Recovers, Parts
        DEF RecoverFile, ghosts, StoredOK, ServerOK, GhostOK, ToldOK, Shape

LEMMA TypeRecoverSelection ==
  ASSUME TypeOK, Shape, RecoverSelection
  PROVE  TypeOK' /\ Shape'
<1>1. RecOK' /\ (Fault \/ NoFault)
  BY RecFields DEF RecoverSelection, RecOK
<1>2. sel' \in Selection
  BY TakenKnown DEF RecoverSelection, TypeOK
<1> QED BY <1>1, <1>2, Recovers, Parts
        DEF RecoverSelection, ghosts, StoredOK, ServerOK, GhostOK, ToldOK

LEMMA TypeEndJournal ==
  ASSUME TypeOK, Shape, EndJournal
  PROVE  TypeOK' /\ Shape'
<1>1. rec.id \in Ids /\ Taken \in Journal /\ up = "recovering"
  BY TakenKnown DEF EndJournal
<1>2. CASE /\ journals' = [journals EXCEPT ![rec.id] =
                           IF rec.bad THEN [@ EXCEPT !.state = "unresolved"] ELSE NoJournal]
           /\ rec' = [NoRec EXCEPT !.ids = rec.ids] /\ NoFault
           /\ UNCHANGED <<up, told, kept>>
  <2>1. [Taken EXCEPT !.state = "unresolved"] \in Journal
    BY <1>1 DEF Journal
  <2>2. journals' \in [Ids -> Journal]
    BY <1>1, <1>2, <2>1, NoJournalType DEF TypeOK, Taken
  <2>3. RecOK'
    BY <1>2, RecFields, NoRecType DEF RecOK
  <2> QED BY <1>1, <1>2, <2>2, <2>3, Recovers, Parts
          DEF EndJournal, StoredOK, ServerOK, GhostOK, ToldOK
<1>3. CASE /\ Abort /\ Fault
           /\ \E j \in IF rec.bad THEN {Taken} ELSE TornRemoval(Taken) :
               journals' = [journals EXCEPT ![rec.id] = j]
  <2>1. journals' \in [Ids -> Journal]
    BY <1>1, <1>3, Torn DEF TypeOK
  <2> QED BY <1>1, <1>3, <2>1, Aborting, Recovers, Parts DEF EndJournal, StoredOK
<1> QED BY <1>2, <1>3 DEF EndJournal

LEMMA TypeListen ==
  ASSUME TypeOK, Shape, Listen
  PROVE  TypeOK' /\ Shape'
<1>1. RecOK' /\ tx.at = "none" /\ queue = <<>>
  BY NoRecType DEF Listen, RecOK, Shape
<1>2. Shape'
  BY <1>1 DEF Listen, Shape, Forward
<1> QED BY <1>1, <1>2, Parts, NextParts DEF Listen, stored, counters, ghosts,
        StoredOK, ServerOK, QueueOK, CountOK, GhostOK, ToldOK

LEMMA TypeNext ==
  ASSUME TypeOK, Shape, [Next]_vars
  PROVE  TypeOK' /\ Shape'
<1>1. CASE UNCHANGED vars
  BY <1>1, Parts, NextParts DEF vars, stored, memory, counters, ghosts, StoredOK, ServerOK,
     QueueOK, RecOK, CountOK, GhostOK, ToldOK, Shape
<1>2. ASSUME NEW s \in Savers, Open(s) \/ Save(s) \/ Ask(s)
      PROVE  TypeOK' /\ Shape'
  BY <1>2, TypeOpen, TypeSave, TypeAsk
<1>3. CASE TxStep
  BY <1>3, TypeRefuse, TypeStoreSelection, TypePlanWrite, TypeOpenJournal, TypeCheck,
     TypeReplace, TypeVerify, TypeSelect, TypeCommit, TypeClean, TypeRevert, TypeUndo,
     TypePutBack, TypeUndone DEF TxStep
<1>4. CASE RecoveryStep
  BY <1>4, TypeStart, TypeTakeJournal, TypeRecoverFile, TypeRecoverSelection,
     TypeEndJournal, TypeListen DEF RecoveryStep
<1>5. ASSUME NEW f \in Files, Edit(f)
      PROVE  TypeOK' /\ Shape'
  BY <1>5, TypeEdit
<1>6. CASE Crash \/ PowerCut
  BY <1>6, TypeCrash, TypePowerCut
<1> QED BY <1>1, <1>2, <1>3, <1>4, <1>5, <1>6 DEF Next

----------------------------------------------------------------------------
(* The queue of the lock *)

\* A request waits once, and whoever waits has asked.
QueueInv ==
    /\ \A k \in 1..Len(queue) : pc[queue[k]] = "queued"
    /\ \A k, l \in 1..Len(queue) : queue[k] = queue[l] => k = l

LEMMA QueueInit ==
  ASSUME Init
  PROVE  QueueInv
BY DEF Init, QueueInv

LEMMA QueueSame ==
  ASSUME QueueInv, UNCHANGED <<queue, pc>>
  PROVE  QueueInv'
BY DEF QueueInv

LEMMA QueueReleased ==
  ASSUME TypeOK, QueueInv, queue # <<>>, Release
  PROVE  QueueInv'
<1>1. /\ queue' \in Seq(Savers) /\ Len(queue') = Len(queue) - 1 /\ Len(queue) \in Nat \ {0}
      /\ \A k \in 1..Len(queue') : queue'[k] = queue[k + 1]
  BY HeadTailProperties, EmptySeq DEF Release, TypeOK
<1>2. Holder = queue[1] /\ \A k \in 1..Len(queue) : queue[k] \in Savers
  BY <1>1, ElementOfSeq DEF Holder, TypeOK
<1>3. \A k \in 1..Len(queue') : k + 1 \in 1..Len(queue) /\ k + 1 # 1
  BY <1>1
<1>4. \A k \in 1..Len(queue') : queue'[k] # Holder /\ queue'[k] \in Savers
  BY <1>1, <1>2, <1>3 DEF QueueInv
<1>5. \A k \in 1..Len(queue') : pc'[queue'[k]] = "queued"
  BY <1>1, <1>3, <1>4 DEF QueueInv, Release, TypeOK
<1>6. \A k, l \in 1..Len(queue') : queue'[k] = queue'[l] => k = l
  BY <1>1, <1>3 DEF QueueInv
<1> QED BY <1>5, <1>6 DEF QueueInv

LEMMA QueueJoined ==
  ASSUME TypeOK, QueueInv, NEW s \in Savers, pc[s] # "queued",
         queue' = Append(queue, s), pc' = [pc EXCEPT ![s] = "queued"]
  PROVE  QueueInv'
<1>1. /\ Len(queue) \in Nat /\ Len(queue') = Len(queue) + 1 /\ queue'[Len(queue) + 1] = s
      /\ \A k \in 1..Len(queue) : queue'[k] = queue[k] /\ queue[k] \in Savers
  BY AppendProperties, LenProperties, ElementOfSeq DEF TypeOK
<1>2. \A k \in 1..Len(queue) : queue[k] # s /\ pc[queue[k]] = "queued"
  BY DEF QueueInv
<1>3. \A k \in 1..Len(queue') : k \in 1..Len(queue) \/ k = Len(queue) + 1
  BY <1>1
<1>4. \A k \in 1..Len(queue') : pc'[queue'[k]] = "queued"
  BY <1>1, <1>2, <1>3 DEF TypeOK
<1>5. \A k, l \in 1..Len(queue') : queue'[k] = queue'[l] => k = l
  BY <1>1, <1>2, <1>3 DEF QueueInv
<1> QED BY <1>4, <1>5 DEF QueueInv

LEMMA QueueNext ==
  ASSUME TypeOK, Shape, QueueInv, [Next]_vars
  PROVE  QueueInv'
<1>1. ASSUME NEW s \in Savers, Open(s)
      PROVE  QueueInv'
  <2>1. pc' = [pc EXCEPT ![s] = "editing"] /\ pc[s] = "idle" /\ queue' = queue
    BY <1>1 DEF Open
  <2>2. \A k \in 1..Len(queue) : queue[k] \in Savers
    BY ElementOfSeq DEF TypeOK
  <2> QED BY <2>1, <2>2 DEF QueueInv, TypeOK
<1>2. ASSUME NEW s \in Savers, Save(s) \/ Ask(s)
      PROVE  QueueInv'
  BY <1>2, QueueJoined DEF Save, Ask
<1>3. CASE TxStep
  <2>1. (queue # <<>> /\ Release) \/ UNCHANGED <<queue, pc>>
    <3>1. CASE Refuse \/ StoreSelection \/ PlanWrite
      BY <3>1 DEF Refuse, StoreSelection, PlanWrite, Queued
    <3>2. CASE OpenJournal \/ Check \/ Replace \/ Verify \/ Select
      BY <3>2 DEF OpenJournal, Check, Replace, Verify, Select, Holds, Shape
    <3>3. CASE Commit \/ Clean \/ Revert \/ Undo \/ PutBack \/ Undone
      BY <3>3 DEF Commit, Clean, Revert, Undo, PutBack, Undone, LeaveJournal, Holds, Shape
    <3> QED BY <1>3, <3>1, <3>2, <3>3 DEF TxStep
  <2> QED BY <2>1, QueueReleased, QueueSame
<1>4. CASE RecoveryStep \/ (\E f \in Files : Edit(f)) \/ UNCHANGED vars
  <2>1. UNCHANGED <<queue, pc>>
    BY <1>4 DEF RecoveryStep, Start, TakeJournal, RecoverFile, RecoverSelection, EndJournal,
       Listen, Edit, memory, vars
  <2> QED BY <2>1, QueueSame
<1>5. CASE Crash \/ PowerCut
  <2>1. queue' = <<>>
    BY <1>5 DEF Crash, PowerCut, MemoryLost
  <2>2. 1..Len(queue') = {}
    BY <2>1
  <2> QED BY <2>2 DEF QueueInv
<1> QED BY <1>1, <1>2, <1>3, <1>4, <1>5 DEF Next
----------------------------------------------------------------------------
(* The invariant: what is said is what a recovery will leave *)

Ready(i) == journals[i].state = "ready"
NoneReady == \A i \in Ids : ~Ready(i)

\* What is said of a file is in a journal that was kept for somebody to decide.
Decided(f) ==
    \E i \in Ids :
        /\ journals[i].state = "unresolved" /\ f \in journals[i].plan.files
        /\ told.files[f] \in {journals[i].plan.from[f], journals[i].plan.to[f]}
TrueFile(f) == told.files[f] \in {Unknown, disk[f]} \/ Decided(f)
TrueSel == told.sel \in {Unknown, sel} \/ SelectionUndecided
AllTrue == TrueSel /\ \A f \in Files : TrueFile(f)

\* What is said of a file a plan covers is what a recovery will leave there: the
\* version the commit marker asks for, unless the file has a third text by now.
Goal(plan, committed, f) ==
    IF disk[f] \notin {plan.from[f], plan.to[f]} THEN disk[f]
    ELSE IF committed THEN plan.to[f] ELSE plan.from[f]
Due(plan, committed, f) ==
    told.files[f] \in {Unknown, Goal(plan, committed, f)} \/ Decided(f)
GoalSel(plan, committed) == IF committed THEN plan.selTo ELSE plan.selFrom
DueSel(plan, committed) ==
    told.sel \in {Unknown, GoalSel(plan, committed)} \/ SelectionUndecided
Keeps(plan) == ~plan.adopts => sel = plan.selFrom /\ plan.selTo = plan.selFrom
Answered(plan, committed) ==
    /\ \A f \in plan.files : Due(plan, committed, f)
    /\ \A f \in Files \ plan.files : TrueFile(f)
    /\ DueSel(plan, committed) /\ Keeps(plan)

\* At most one journal is ready, its copies are whole, and it stands for what was said.
Intact == \A i \in Ids : journals[i].state \in {"ready", "unresolved"} =>
            \A f \in Files : journals[i].copies[f] = "intact"
OneReady == \A i, j \in Ids : Ready(i) /\ Ready(j) => i = j
StoredInv ==
    /\ Intact /\ OneReady
    /\ \A i \in Ids : Ready(i) => Answered(journals[i].plan, journals[i].committed)
    /\ NoneReady => AllTrue

\* What the running transaction knows of its files: which it has written, which it has
\* still to write, and that one edited meanwhile has a text of its own or nothing is
\* said of it.
Foreign(plan, f) ==
    \/ told.files[f] = Unknown
    \/ told.files[f] = disk[f] /\ disk[f] \notin {plan.from[f], plan.to[f]}
Claims(plan, at, pending, done) ==
    /\ done \subseteq plan.files
    /\ \A f \in plan.files :
         /\ at # "clean" => Due(plan, FALSE, f)
         /\ f \notin done \/ at = "clean" => TrueFile(f)
         /\ f \in touched /\ at # "clean" => Foreign(plan, f)
    /\ at \in {"select", "commit"} \cup Forward =>
         /\ plan.files = pending \cup done
         /\ \A f \in done \ (pending \cup touched) : disk[f] = plan.to[f]
SelectedAt(plan, at, applied) ==
    /\ at \in {"select"} \cup Forward => applied = FALSE /\ sel = plan.selFrom
    /\ at = "select" => plan.adopts
    /\ at = "commit" => applied = plan.adopts /\ (plan.adopts => sel = plan.selTo)
    /\ at = "clean" => sel = plan.selTo
    /\ at \in Undoing => sel = plan.selFrom
EndsKnown ==
    /\ tx.at = "replace" => disk[File] = tx.plan.from[File] /\ File \notin touched
    /\ tx.at = "verify" => File \in Range(tx.written)
    /\ tx.at \in {"select", "commit"} => tx.todo = <<>>
    /\ tx.at = "put-back" => disk[LastWritten] = tx.plan.to[LastWritten]
    /\ tx.at = "undone" => tx.written = <<>>
OwnReady ==
    IF tx.at = "journal" THEN NoneReady /\ journals[tx.id].state = "none"
    ELSE /\ Ready(tx.id) /\ journals[tx.id].plan = tx.plan
         /\ journals[tx.id].committed = (tx.at = "clean")

\* What an editor sent is what the plan goes by.
Baseline ==
    req[Holder].kind = "save" =>
        /\ tx.plan.files \subseteq {Compose, req[Holder].file}
        /\ \A f \in tx.plan.files : tx.plan.from[f] = Expected(req[Holder], f)
        /\ tx.plan.adopts => tx.plan.selTo.name = req[Holder].file

TxInv ==
    /\ OwnReady /\ Baseline /\ Keeps(tx.plan) /\ EndsKnown
    /\ Claims(tx.plan, tx.at, Range(tx.todo), Range(tx.written))
    /\ SelectedAt(tx.plan, tx.at, tx.applied)

\* The recovery has all journals before it, and has brought what it is through with.
RecInv ==
    /\ \A i \in Ids : Ready(i) => i \in rec.ids \cup {rec.id}
    /\ \A i \in rec.ids : Live(i)
    /\ rec.id # NoId =>
         /\ Ready(rec.id) /\ rec.id \notin rec.ids /\ rec.files \subseteq Taken.plan.files
         /\ rec.bad = FALSE => \A f \in Taken.plan.files \ rec.files : TrueFile(f)
         /\ rec.bad = FALSE /\ rec.selected = TRUE => sel = GoalSel(Taken.plan, Taken.committed)

CoveredInv ==
    /\ StoredInv
    /\ AtRest => NoneReady
    /\ tx.at # "none" => TxInv
    /\ up = "recovering" => RecInv
SaveInv == Covered => CoveredInv

----------------------------------------------------------------------------
(* What lasts *)

\* A journal kept for somebody is never touched again.
Lasting == \A i \in Ids : journals[i].state = "unresolved" => journals'[i] = journals[i]

LEMMA DecidedLasts ==
  ASSUME NEW f, Decided(f), Lasting, told'.files[f] = told.files[f]
  PROVE  Decided(f)'
BY DEF Decided, Lasting

LEMMA TrueFileLasts ==
  ASSUME NEW f, TrueFile(f), Lasting, told'.files[f] = told.files[f], disk'[f] = disk[f]
  PROVE  TrueFile(f)'
BY DecidedLasts DEF TrueFile

LEMMA DueLasts ==
  ASSUME NEW f, NEW plan, NEW c, Due(plan, c, f), Lasting,
         told'.files[f] = told.files[f], disk'[f] = disk[f]
  PROVE  Due(plan, c, f)'
BY DecidedLasts DEF Due, Goal

LEMMA SelectionLasts ==
  ASSUME SelectionUndecided, Lasting
  PROVE  SelectionUndecided'
BY DEF SelectionUndecided, Lasting

LEMMA DueSelLasts ==
  ASSUME NEW plan, NEW c, DueSel(plan, c), Lasting, told'.sel = told.sel
  PROVE  DueSel(plan, c)'
BY SelectionLasts DEF DueSel, GoalSel

\* Nothing of this happens: what the claims are about stays.
LEMMA AnsweredLasts ==
  ASSUME TypeOK, NEW plan \in Plan, NEW c, Answered(plan, c), Lasting, UNCHANGED <<disk, sel, told>>
  PROVE  Answered(plan, c)'
<1>1. \A f \in plan.files : Due(plan, c, f)'
  BY DueLasts DEF Answered
<1>2. \A f \in Files \ plan.files : TrueFile(f)'
  BY TrueFileLasts DEF Answered
<1>3. DueSel(plan, c)' /\ Keeps(plan)'
  BY DueSelLasts DEF Answered, Keeps
<1> QED BY <1>1, <1>2, <1>3 DEF Answered

LEMMA AllTrueLasts ==
  ASSUME AllTrue, Lasting, UNCHANGED <<disk, sel, told>>
  PROVE  AllTrue'
<1>1. \A f \in Files : TrueFile(f)'
  BY TrueFileLasts DEF AllTrue
<1>2. TrueSel'
  BY SelectionLasts DEF AllTrue, TrueSel
<1> QED BY <1>1, <1>2 DEF AllTrue

----------------------------------------------------------------------------
(* The journals after a step *)

\* One is ready.
LEMMA OneJournal ==
  ASSUME NEW i \in Ids, NEW plan, NEW c, Intact', (\A j \in Ids : Ready(j)' <=> j = i),
         journals'[i].plan = plan, journals'[i].committed = c, Answered(plan, c)'
  PROVE  StoredInv'
<1>1. OneReady' /\ ~NoneReady'
  BY DEF OneReady, NoneReady
<1>2. ASSUME NEW j \in Ids, Ready(j)'
      PROVE  Answered(journals[j].plan, journals[j].committed)'
  <2>1. j = i
    BY <1>2
  <2> QED BY <2>1 DEF Answered, Due, Goal, DueSel, GoalSel, Keeps, TrueFile
<1> QED BY <1>1, <1>2 DEF StoredInv

\* None is.
LEMMA NoJournalReady ==
  ASSUME Intact', NoneReady', AllTrue'
  PROVE  StoredInv'
<1>1. OneReady'
  BY DEF OneReady, NoneReady
<1>2. \A j \in Ids : ~Ready(j)'
  BY DEF NoneReady
<1> QED BY <1>1, <1>2 DEF StoredInv

\* None is touched, nor what they stand for.
LEMMA StoredSame ==
  ASSUME StoredInv, UNCHANGED <<stored, told>>
  PROVE  StoredInv'
BY DEF StoredInv, stored, Intact, OneReady, NoneReady, Ready, Answered, Due, Goal, DueSel,
   GoalSel, Keeps, TrueFile, AllTrue, TrueSel, Decided, SelectionUndecided

\* The journal that is ready is the one of the transaction, or of the recovery.
LEMMA ReadyAlone ==
  ASSUME StoredInv, NEW i \in Ids, Ready(i)
  PROVE  /\ \A j \in Ids : Ready(j) <=> j = i
         /\ Answered(journals[i].plan, journals[i].committed)
         /\ \A f \in Files : journals[i].copies[f] = "intact"
BY DEF StoredInv, OneReady, Intact, Ready

\* What ends the coverage never comes back, so a covered step starts covered, and leaves no
\* journal behind, tears none and races with nobody.
LEMMA Counted ==
  ASSUME [Next]_vars
  PROVE  /\ kept' = kept \/ kept' = TRUE
         /\ torn' = torn \/ torn' = torn + 1
         /\ cuts' = cuts \/ cuts' = cuts + 1
         /\ races' = races \/ races' = races + 1
<1>1. CASE UNCHANGED vars \/ (\E s \in Savers : Open(s) \/ Save(s) \/ Ask(s))
  BY <1>1 DEF vars, counters, ghosts, Open, Save, Ask
<1>2. CASE TxStep
  <2>1. CASE Refuse \/ StoreSelection \/ PlanWrite \/ OpenJournal \/ Check
    BY <2>1 DEF Refuse, StoreSelection, PlanWrite, OpenJournal, Check, counters
  <2>2. CASE Replace \/ Verify \/ Select \/ Commit
    BY <2>2 DEF Replace, Verify, Select, Commit, ghosts
  <2>3. CASE Clean \/ Revert \/ Undo \/ PutBack \/ Undone
    BY <2>3 DEF Clean, Revert, Undo, PutBack, Undone, LeaveJournal
  <2> QED BY <1>2, <2>1, <2>2, <2>3 DEF TxStep
<1>3. CASE RecoveryStep
  BY <1>3 DEF RecoveryStep, Start, TakeJournal, RecoverFile, RecoverSelection, EndJournal,
     Listen, Abort, counters, ghosts
<1>4. CASE Crash \/ PowerCut \/ (\E f \in Files : Edit(f))
  BY <1>4 DEF Crash, PowerCut, Edit
<1> QED BY <1>1, <1>2, <1>3, <1>4 DEF Next

LEMMA StillCovered ==
  ASSUME TypeOK, [Next]_vars, Covered'
  PROVE  Covered /\ kept' = FALSE /\ UNCHANGED <<kept, torn, cuts, races>>
<1>1. /\ kept \in BOOLEAN /\ torn \in Nat /\ cuts \in Nat /\ races \in Nat
  BY BoundAssumption DEF TypeOK
<1>2. torn' = 0 /\ cuts' = 0 /\ races' = 0 /\ ~kept'
  BY DEF Covered
<1>3. kept = FALSE /\ kept' = FALSE
  BY <1>1, <1>2, Counted
<1>4. torn = 0 /\ cuts = 0 /\ races = 0
  <2>1. torn + 1 # 0 /\ cuts + 1 # 0 /\ races + 1 # 0
    BY <1>1
  <2> QED BY <2>1, <1>2, Counted
<1> QED BY <1>2, <1>3, <1>4 DEF Covered

----------------------------------------------------------------------------
(* Requests *)

LEMMA ServerSame ==
  ASSUME CoveredInv, UNCHANGED <<stored, told, up, rec, tx>>, tx.at # "none" => TxInv'
  PROVE  CoveredInv'
<1>1. StoredInv'
  BY StoredSame DEF CoveredInv
<1>2. (AtRest => NoneReady)'
  BY DEF CoveredInv, AtRest, NoneReady, Ready, stored
<1>3. (up = "recovering" => RecInv)'
  BY DEF CoveredInv, RecInv, Ready, Live, Taken, TrueFile, Decided, GoalSel, stored
<1> QED BY <1>1, <1>2, <1>3 DEF CoveredInv

LEMMA TxSame ==
  ASSUME TxInv, UNCHANGED <<stored, told, touched, tx>>, req'[Holder'] = req[Holder]
  PROVE  TxInv'
<1>1. OwnReady' /\ Keeps(tx.plan)' /\ EndsKnown'
  BY DEF TxInv, OwnReady, NoneReady, Ready, Keeps, EndsKnown, File, LastWritten, stored
<1>2. Claims(tx.plan, tx.at, Range(tx.todo), Range(tx.written))'
  BY DEF TxInv, Claims, Due, Goal, TrueFile, Decided, Foreign, stored
<1>3. SelectedAt(tx.plan, tx.at, tx.applied)'
  BY DEF TxInv, SelectedAt, stored
<1>4. Baseline'
  BY DEF TxInv, Baseline, Expected
<1> QED BY <1>1, <1>2, <1>3, <1>4 DEF TxInv

LEMMA SaveRequests ==
  ASSUME TypeOK, Shape, QueueInv, CoveredInv, NEW s \in Savers, Open(s) \/ Save(s) \/ Ask(s)
  PROVE  CoveredInv'
<1>1. UNCHANGED <<stored, told, touched, up, rec, tx>>
  BY DEF Open, Save, Ask, ghosts
<1>2. ASSUME tx.at # "none"
      PROVE  TxInv'
  <2>1. queue # <<>> /\ queue \in Seq(Savers)
    BY <1>2 DEF Shape, TypeOK
  <2>2. Len(queue) \in Nat \ {0} /\ Holder = queue[1]
    BY <2>1, EmptySeq DEF Holder
  <2>3. pc[Holder] = "queued" /\ Holder \in Savers
    BY <2>1, <2>2, HeadTailProperties DEF QueueInv, Holder
  <2>4. Holder' = Holder
    <3>1. queue' = queue \/ queue' = Append(queue, s)
      BY DEF Open, Save, Ask
    <3>2. Head(Append(queue, s)) = Head(queue)
      BY <2>1, HeadTailAppend
    <3> QED BY <3>1, <3>2 DEF Holder
  <2>5. Holder # s
    BY <2>3 DEF Open, Save, Ask
  <2>6. \A h \in Savers \ {s} : req'[h] = req[h]
    BY DEF Open, Save, Ask, TypeOK
  <2> QED BY <1>1, <1>2, <2>3, <2>4, <2>5, <2>6, TxSame DEF CoveredInv
<1> QED BY <1>1, <1>2, ServerSame

LEMMA SaveRefuse ==
  ASSUME TypeOK, Shape, CoveredInv, Refuse
  PROVE  CoveredInv'
<1>1. UNCHANGED <<stored, told, up, rec>> /\ up = "up" /\ tx.at = "none" /\ tx'.at = "none"
  BY NoTxType DEF Refuse, Queued, Release
<1>2. StoredInv'
  BY <1>1, StoredSame DEF CoveredInv
<1>3. NoneReady'
  BY <1>1 DEF CoveredInv, AtRest, NoneReady, Ready, stored
<1> QED BY <1>1, <1>2, <1>3 DEF CoveredInv

LEMMA SaveStoreSelection ==
  ASSUME TypeOK, Shape, CoveredInv, StoreSelection
  PROVE  CoveredInv'
<1>1. /\ UNCHANGED <<disk, journals, up, rec>> /\ up = "up" /\ tx.at = "none" /\ tx'.at = "none"
      /\ queue # <<>>
  BY NoTxType DEF StoreSelection, Queued, Release
<1>2. NoneReady /\ NoneReady' /\ AllTrue /\ Intact
  BY <1>1 DEF CoveredInv, StoredInv, AtRest, NoneReady, Ready
<1>3. told'.files = told.files
  BY DEF StoreSelection, TypeOK
<1>4. TrueSel'
  <2>1. CASE req[Holder].kind = "select" \/ Adopts(req[Holder])
    <3>1. told'.sel = sel'
      BY <2>1 DEF StoreSelection, TypeOK
    <3> QED BY <3>1 DEF TrueSel
  <2>2. CASE req[Holder].kind # "select" /\ ~Adopts(req[Holder])
    <3>1. sel' = sel /\ told' = told
      BY <2>2 DEF StoreSelection, PlanOf
    <3> QED BY <1>1, <1>2, <3>1 DEF AllTrue, TrueSel, SelectionUndecided
  <2> QED BY <2>1, <2>2
<1>5. \A f \in Files : TrueFile(f)'
  BY <1>1, <1>2, <1>3 DEF AllTrue, TrueFile, Decided
<1>6. Intact'
  BY <1>1, <1>2 DEF Intact
<1>7. StoredInv'
  BY <1>2, <1>4, <1>5, <1>6, NoJournalReady DEF AllTrue
<1> QED BY <1>1, <1>2, <1>7 DEF CoveredInv

----------------------------------------------------------------------------
(* The plan and the journal *)

\* The running transaction after a step, from its parts.
LEMMA NextTx ==
  ASSUME NEW plan, NEW at, NEW pending, NEW done, NEW applied,
         tx'.plan = plan, tx'.at = at, Range(tx'.todo) = pending, Range(tx'.written) = done,
         tx'.applied = applied,
         OwnReady', Baseline', Keeps(plan)', EndsKnown',
         Claims(plan, at, pending, done)', SelectedAt(plan, at, applied)'
  PROVE  TxInv'
<1>1. Keeps(tx.plan)'
  BY DEF Keeps
<1>2. Claims(tx.plan, tx.at, Range(tx.todo), Range(tx.written))'
  BY DEF Claims, Due, Goal, Foreign
<1>3. SelectedAt(tx.plan, tx.at, tx.applied)'
  BY DEF SelectedAt
<1> QED BY <1>1, <1>2, <1>3 DEF TxInv

\* What an editor sent is the plan's baseline, or there is a conflict.
LEMMA PlanBaseline ==
  ASSUME TypeOK, NEW r \in Request, ~Conflict(r), r.kind = "save"
  PROVE  /\ PlanOf(r).files \subseteq {Compose, r.file}
         /\ \A f \in PlanOf(r).files : PlanOf(r).from[f] = Expected(r, f)
         /\ PlanOf(r).adopts => PlanOf(r).selTo.name = r.file
<1>1. \A f \in Targets(r) : Expected(r, f) = disk[f]
  <2>1. r.base.compose \in Content /\ r.base.env \in Content
    BY DEF Request
  <2>2. Unknown \notin Content
    BY TextAssumption DEF Content
  <2>3. \A f : Expected(r, f) # Unknown
    BY <2>1, <2>2 DEF Expected
  <2> QED BY <2>3 DEF Conflict
<1>2. PlanOf(r).files \subseteq Targets(r) /\ PlanOf(r).from = disk
  BY DEF PlanOf
<1>2a. Targets(r) \subseteq {Compose, r.file}
  BY DEF Conflict, Targets
<1>3. ASSUME PlanOf(r).adopts
      PROVE  PlanOf(r).selTo.name = r.file
  <2>1. Adopts(r)
    BY <1>3 DEF PlanOf
  <2>2. WritesEnv(r)
    BY <2>1 DEF Adopts, Targets
  <2>3. r.file = sel.name
    BY <2>2 DEF Conflict
  <2> QED BY <2>1, <2>3 DEF PlanOf
<1> QED BY <1>1, <1>2, <1>2a, <1>3

LEMMA SavePlanWrite ==
  ASSUME TypeOK, Shape, CoveredInv, PlanWrite
  PROVE  CoveredInv'
<1>1. req[Holder] \in Request /\ queue # <<>> /\ up = "up" /\ tx.at = "none"
  BY HolderKnown DEF PlanWrite, Queued
<1>2. PICK plan : plan = PlanOf(req[Holder])
  OBVIOUS
<1>3. PICK i \in Ids : /\ journals[i].state = "none"
                       /\ tx' = [NoTx EXCEPT !.at = "journal", !.id = i, !.plan = plan,
                                   !.todo = InOrder(plan.files)]
  BY <1>2 DEF PlanWrite
<1>4. UNCHANGED <<stored, up, queue, req, rec, told>> /\ touched' = {}
  BY DEF PlanWrite
<1>5. /\ tx'.at = "journal" /\ tx'.id = i /\ tx'.plan = plan /\ tx'.todo = InOrder(plan.files)
      /\ tx'.written = <<>> /\ tx'.applied = FALSE
  BY <1>3, NoTxType DEF NoTx
<1>6. plan \in Plan /\ plan.files \in SUBSET Files /\ plan.from = disk /\ plan.selFrom = sel
      /\ (~plan.adopts => plan.selTo = sel)
  <2>1. plan \in Plan
    BY <1>1, <1>2, PlanType
  <2>2. plan.files \in SUBSET Files
    BY <2>1, PlanFields
  <2> QED BY <1>2, <2>1, <2>2 DEF PlanOf
<1>7. Range(tx'.todo) = plan.files /\ Range(tx'.written) = {}
  <2>1. plan.files \subseteq {Compose, EnvOf(req[Holder])} /\ EnvOf(req[Holder]) \in Files
    BY <1>1, <1>2, PlanType
  <2> QED BY <1>5, <1>6, <2>1, Ordered, NothingIn
<1>8. StoredInv'
  BY <1>4, StoredSame DEF CoveredInv
<1>9. NoneReady /\ AllTrue
  BY <1>1 DEF CoveredInv, StoredInv, AtRest
<1>10. OwnReady'
  BY <1>3, <1>4, <1>5, <1>9 DEF OwnReady, NoneReady, Ready, stored
<1>11. Baseline'
  <2>1. req'[Holder'] = req[Holder]
    BY <1>4 DEF Holder
  <2>2. ~Conflict(req[Holder])
    BY DEF PlanWrite
  <2>3. req[Holder].kind = "save" =>
          /\ plan.files \subseteq {Compose, req[Holder].file}
          /\ \A f \in plan.files : plan.from[f] = Expected(req[Holder], f)
          /\ plan.adopts => plan.selTo.name = req[Holder].file
    BY <1>1, <1>2, <2>2, PlanBaseline
  <2> QED BY <1>5, <2>1, <2>3 DEF Baseline, Expected
<1>12. Keeps(plan)' /\ SelectedAt(plan, "journal", FALSE)'
  BY <1>4, <1>6 DEF Keeps, SelectedAt, Undoing, stored
<1>13. EndsKnown'
  BY <1>5 DEF EndsKnown
<1>14. Claims(plan, "journal", plan.files, {})'
  <2>1. \A f \in plan.files : TrueFile(f) /\ Due(plan, FALSE, f)
    BY <1>6, <1>9 DEF AllTrue, TrueFile, Due, Goal
  <2>2. \A f \in plan.files : TrueFile(f)' /\ Due(plan, FALSE, f)'
    BY <1>4, <2>1 DEF TrueFile, Due, Goal, Decided, stored
  <2> QED BY <1>4, <2>2 DEF Claims
<1>15. TxInv'
  BY <1>5, <1>7, <1>10, <1>11, <1>12, <1>13, <1>14, NextTx
<1> QED BY <1>1, <1>4, <1>5, <1>8, <1>15 DEF CoveredInv, AtRest

\* The journal takes over what the plan stands for.
LEMMA JournalOpened ==
  ASSUME TypeOK, Shape, CoveredInv, tx.at = "journal"
  PROVE  /\ tx.id \in Ids /\ journals[tx.id].state = "none" /\ NoneReady /\ AllTrue /\ Intact
         /\ tx.plan \in Plan /\ tx.plan.files \in SUBSET Files /\ TxInv
BY OwnJournal DEF CoveredInv, StoredInv, TxInv, OwnReady

LEMMA SaveOpenJournal ==
  ASSUME TypeOK, Shape, CoveredInv, OpenJournal
  PROVE  CoveredInv'
<1>1. tx.at = "journal" /\ up = "up"
  BY DEF OpenJournal, Holds
<1>2. UNCHANGED <<disk, sel, up, rec, told>>
  BY DEF OpenJournal
<1>3. PICK i \in Ids, plan \in Plan : i = tx.id /\ plan = tx.plan
  BY <1>1, JournalOpened
<1>4. /\ journals[i].state = "none" /\ NoneReady /\ AllTrue /\ Intact /\ TxInv
      /\ plan.files \in SUBSET Files
  BY <1>1, <1>3, JournalOpened
<1>5. \A j \in Ids \ {i} : journals'[j] = journals[j]
  BY <1>3 DEF OpenJournal, TypeOK
<1>6. Lasting
  BY <1>4, <1>5 DEF Lasting
<1>7. CASE journals' = [journals EXCEPT ![tx.id] = JournalOf(tx.plan)] /\ Goto("check")
           /\ UNCHANGED <<queue, pc, req, touched>>
  <2>1. journals'[i] = JournalOf(plan)
    BY <1>3, <1>7 DEF TypeOK
  <2>2. /\ journals'[i].state = "ready" /\ journals'[i].committed = FALSE
        /\ journals'[i].plan = plan /\ journals'[i].copies = [f \in Files |-> "intact"]
    BY <2>1, NoJournalType DEF JournalOf, Journal
  <2>3. Intact' /\ \A j \in Ids : Ready(j)' <=> j = i
    BY <1>4, <1>5, <2>2 DEF Intact, Ready, NoneReady
  <2>4. Answered(plan, FALSE)
    <3>1. \A f \in plan.files : Due(plan, FALSE, f)
      BY <1>1, <1>3, <1>4 DEF TxInv, Claims
    <3>2. sel = plan.selFrom /\ Keeps(plan)
      BY <1>1, <1>3, <1>4 DEF TxInv, SelectedAt, Forward
    <3> QED BY <1>4, <3>1, <3>2 DEF Answered, AllTrue, DueSel, GoalSel, TrueSel
  <2>5. StoredInv'
    BY <1>2, <1>6, <2>2, <2>3, <2>4, AnsweredLasts, OneJournal
  <2>6. MovesTo(tx', "check")
    BY <1>7, Moving DEF Goto, TypeOK, Steps
  <2>7. OwnReady'
    BY <1>3, <2>2, <2>6 DEF OwnReady, MovesTo, Ready
  <2>8. Baseline' /\ EndsKnown'
    BY <1>4, <1>7, <2>6 DEF TxInv, Baseline, EndsKnown, Expected, Holder, MovesTo
  <2>9. Keeps(plan)' /\ SelectedAt(plan, "check", tx.applied)'
    BY <1>1, <1>2, <1>3, <1>4, <2>6 DEF TxInv, Keeps, SelectedAt, Forward, Undoing, MovesTo
  <2>10. Claims(plan, "check", Range(tx.todo), Range(tx.written))'
    <3>1. Claims(plan, "journal", Range(tx.todo), Range(tx.written))
      BY <1>1, <1>3, <1>4 DEF TxInv
    <3>2. \A f \in plan.files : Due(plan, FALSE, f)'
      BY <1>2, <1>6, <3>1, DueLasts DEF Claims
    <3>3. \A f \in plan.files \ Range(tx.written) : TrueFile(f)'
      BY <1>2, <1>6, <3>1, TrueFileLasts DEF Claims
    <3>4. UNCHANGED <<disk, told, touched, tx.todo, tx.written>>
      BY <1>2, <1>7, <2>6 DEF MovesTo
    <3> QED BY <3>1, <3>2, <3>3, <3>4 DEF Claims, Forward, Foreign
  <2>11. TxInv'
    BY <1>3, <2>6, <2>7, <2>8, <2>9, <2>10, NextTx DEF MovesTo
  <2> QED BY <1>1, <1>2, <2>5, <2>6, <2>11 DEF CoveredInv, AtRest, MovesTo
<1>8. CASE journals' = [journals EXCEPT ![tx.id].state = "open"] /\ Release
  <2>1. journals'[i].state = "open"
    BY <1>3, <1>8 DEF TypeOK, Journal
  <2>2. Intact' /\ NoneReady'
    BY <1>4, <1>5, <2>1 DEF Intact, Ready, NoneReady
  <2>3. StoredInv'
    BY <1>2, <1>4, <1>6, <2>2, AllTrueLasts, NoJournalReady
  <2>4. tx'.at = "none"
    BY <1>8, NoTxType DEF Release
  <2> QED BY <1>1, <1>2, <2>2, <2>3, <2>4 DEF CoveredInv
<1> QED BY <1>7, <1>8 DEF OpenJournal

----------------------------------------------------------------------------
(* The transaction *)

\* A step of the transaction that changes none of what was stored or said.
LEMMA Runs ==
  ASSUME CoveredInv, tx.at # "none", up = "up", UNCHANGED <<stored, told, up>>,
         tx'.at # "none", TxInv'
  PROVE  CoveredInv'
<1>1. StoredInv'
  BY StoredSame DEF CoveredInv
<1> QED BY <1>1 DEF CoveredInv, AtRest

\* The transaction under way has the only journal that is ready.
LEMMA TxKnown ==
  ASSUME TypeOK, Shape, CoveredInv, tx.at \notin {"none", "journal"}
  PROVE  /\ tx.id \in Ids /\ TxInv /\ tx \in Transaction /\ tx.plan \in Plan
         /\ tx.plan.files \in SUBSET Files /\ queue # <<>> /\ up = "up"
         /\ journals[tx.id].state = "ready" /\ journals[tx.id].plan = tx.plan
         /\ journals[tx.id].committed = (tx.at = "clean")
         /\ \A j \in Ids : Ready(j) <=> j = tx.id
         /\ Answered(tx.plan, tx.at = "clean") /\ Intact
<1>1. tx.id \in Ids /\ TxInv /\ queue # <<>> /\ tx \in Transaction /\ tx.plan \in Plan
      /\ tx.plan.files \in SUBSET Files /\ up = "up"
  BY OwnJournal DEF CoveredInv
<1>2. Ready(tx.id) /\ journals[tx.id].plan = tx.plan /\ journals[tx.id].committed = (tx.at = "clean")
  BY <1>1 DEF TxInv, OwnReady
<1>3. StoredInv
  BY DEF CoveredInv
<1>4. (\A j \in Ids : Ready(j) <=> j = tx.id) /\ Answered(tx.plan, tx.at = "clean")
  BY <1>1, <1>2, <1>3, ReadyAlone
<1>5. journals[tx.id].state = "ready" /\ Intact
  BY <1>2, <1>3 DEF Ready, StoredInv
<1> QED BY <1>1, <1>2, <1>4, <1>5

\* The journal stays with the transaction, and so does what its editor sent.
LEMMA OwnStays ==
  ASSUME TypeOK, Shape, CoveredInv, tx.at \notin {"none", "journal", "clean"},
         UNCHANGED <<journals, queue, req>>, NEW at \in Steps \ {"none", "journal", "clean"},
         tx'.at = at, tx'.id = tx.id, tx'.plan = tx.plan
  PROVE  OwnReady' /\ Baseline'
<1>1. OwnReady'
  BY TxKnown DEF OwnReady, Ready
<1>2. Baseline'
  BY TxKnown DEF TxInv, Baseline, Expected, Holder
<1> QED BY <1>1, <1>2

Between == {"check", "replace", "verify", "select", "commit"}

LEMMA SaveCompensate ==
  ASSUME TypeOK, Shape, CoveredInv, tx.at \in Between, tx' = Compensate(tx),
         UNCHANGED <<stored, told, touched, up, queue, req>>
  PROVE  CoveredInv'
<1>1. PICK plan \in Plan : plan = tx.plan
  BY TxKnown DEF Between
<1>2. PICK at \in {"revert", "undo"} :
        MovesTo(tx', at) /\ at = IF tx.applied THEN "revert" ELSE "undo"
  BY Compensating, TxKnown DEF Between
<1>3. TxInv /\ up = "up"
  BY TxKnown DEF Between
<1>4. OwnReady' /\ Baseline'
  BY <1>2, OwnStays DEF Between, MovesTo, Steps, stored
<1>5. EndsKnown'
  BY <1>2 DEF EndsKnown, MovesTo
<1>6. Keeps(plan)'
  BY <1>1, <1>3 DEF TxInv, Keeps, stored
<1>7. Claims(plan, at, Range(tx.todo), Range(tx.written))'
  <2>1. Claims(plan, tx.at, Range(tx.todo), Range(tx.written))
    BY <1>1, <1>3 DEF TxInv
  <2>2. UNCHANGED <<disk, told, touched, journals, tx.todo, tx.written>>
    BY <1>2 DEF MovesTo, stored
  <2>3. at # "clean" /\ at \notin {"select", "commit"} \cup Forward /\ tx.at # "clean"
    BY DEF Forward, Between
  <2> QED BY <2>1, <2>2, <2>3 DEF Claims, Due, Goal, TrueFile, Decided, Foreign
<1>8. SelectedAt(plan, at, tx.applied)'
  <2>1. SelectedAt(plan, tx.at, tx.applied) /\ Keeps(plan)
    BY <1>1, <1>3 DEF TxInv
  <2>2. at = "undo" => sel = plan.selFrom
    BY <1>2, <2>1 DEF SelectedAt, Keeps, Between, Forward
  <2> QED BY <1>2, <2>2 DEF SelectedAt, Undoing, Forward, stored
<1>9. TxInv'
  BY <1>1, <1>2, <1>4, <1>5, <1>6, <1>7, <1>8, NextTx DEF MovesTo
<1> QED BY <1>2, <1>3, <1>9, Runs DEF MovesTo, Between

LEMMA SaveCheck ==
  ASSUME TypeOK, Shape, CoveredInv, Check
  PROVE  CoveredInv'
<1>1. tx.at = "check" /\ UNCHANGED <<stored, told, up, queue, req>>
  BY DEF Check, Holds
<1>2. CASE tx' = Compensate(tx) /\ UNCHANGED touched
  BY <1>1, <1>2, SaveCompensate DEF Between
<1>3. CASE Recheck(File) /\ Goto("replace") /\ touched' = touched \ {File}
  <2>1. PICK plan \in Plan : plan = tx.plan
    BY <1>1, TxKnown
  <2>2. TxInv /\ up = "up" /\ MovesTo(tx', "replace")
    BY <1>1, <1>3, TxKnown, Moving DEF Goto, Steps
  <2>3. OwnReady' /\ Baseline'
    BY <1>1, <2>2, OwnStays DEF MovesTo, Steps, stored
  <2>4. EndsKnown'
    BY <1>1, <1>3, <2>2 DEF EndsKnown, MovesTo, Recheck, File, stored
  <2>5. Keeps(plan)' /\ SelectedAt(plan, "replace", tx.applied)'
    BY <1>1, <2>1, <2>2 DEF TxInv, Keeps, SelectedAt, Forward, Undoing, MovesTo, stored
  <2>6. Claims(plan, "replace", Range(tx.todo), Range(tx.written))'
    <3>1. Claims(plan, "check", Range(tx.todo), Range(tx.written))
      BY <1>1, <2>1, <2>2 DEF TxInv
    <3>2. UNCHANGED <<disk, told, journals, tx.todo, tx.written>>
      BY <1>1, <2>2 DEF MovesTo, stored
    <3>3. File \in Range(tx.todo)
      BY <1>1, FileKnown DEF Forward
    <3>4. touched' \subseteq touched /\ touched \subseteq touched' \cup Range(tx.todo)
      BY <1>3, <3>3
    <3> QED BY <3>1, <3>2, <3>4 DEF Claims, Forward, Due, Goal, TrueFile, Decided, Foreign
  <2>7. TxInv'
    BY <2>1, <2>2, <2>3, <2>4, <2>5, <2>6, NextTx DEF MovesTo
  <2> QED BY <1>1, <2>2, <2>7, Runs DEF MovesTo
<1> QED BY <1>2, <1>3 DEF Check

\* One file changes, of a plan whose claims about it hold as before.
LEMMA FileWritten ==
  ASSUME NEW f \in Files, NEW t, disk \in [Files -> Content], disk' = [disk EXCEPT ![f] = t],
         UNCHANGED <<sel, journals, told>>, NEW plan \in Plan, f \in plan.files, NEW c,
         Answered(plan, c), Due(plan, c, f)'
  PROVE  Answered(plan, c)'
<1>1. Lasting /\ \A g \in Files \ {f} : disk'[g] = disk[g]
  BY DEF Lasting
<1>2. plan.files \subseteq Files
  BY PlanFields
<1>3. \A g \in plan.files : Due(plan, c, g)'
  BY <1>1, <1>2, DueLasts DEF Answered
<1>4. \A g \in Files \ plan.files : TrueFile(g)'
  BY <1>1, TrueFileLasts DEF Answered
<1>5. DueSel(plan, c)' /\ Keeps(plan)'
  BY <1>1, DueSelLasts DEF Answered, Keeps
<1> QED BY <1>3, <1>4, <1>5 DEF Answered

\* The journals stay as they are while the transaction's claims are renewed.
LEMMA Renewed ==
  ASSUME TypeOK, Shape, CoveredInv, tx.at \notin {"none", "journal", "clean"}, UNCHANGED <<journals, up>>,
         NEW plan \in Plan, plan = tx.plan, Answered(plan, FALSE)', tx'.at # "none", TxInv'
  PROVE  CoveredInv'
<1>1. PICK i \in Ids : i = tx.id
  BY TxKnown
<1>2. /\ \A j \in Ids : Ready(j)' <=> j = i
      /\ journals'[i].plan = plan /\ journals'[i].committed = FALSE /\ Intact'
  BY <1>1, TxKnown DEF Ready, Intact
<1>3. StoredInv'
  BY <1>2, OneJournal
<1>4. up = "up"
  BY TxKnown
<1> QED BY <1>3, <1>4 DEF CoveredInv, AtRest

LEMMA SaveReplace ==
  ASSUME TypeOK, Shape, CoveredInv, Replace
  PROVE  CoveredInv'
<1>1. tx.at = "replace" /\ UNCHANGED <<sel, journals, told, touched, up, queue, req>>
  BY DEF Replace, Holds, ghosts
<1>2. CASE tx' = Compensate(tx) /\ UNCHANGED disk
  BY <1>1, <1>2, SaveCompensate DEF Between, stored
<1>3. CASE /\ disk' = [disk EXCEPT ![File] = tx.plan.to[File]]
           /\ tx' = [tx EXCEPT !.at = "verify", !.written = Append(@, File)]
  <2>1. PICK plan \in Plan : plan = tx.plan
    BY <1>1, TxKnown
  <2>2. PICK f \in Files : f = File
    BY <1>1, FileKnown DEF Forward
  <2>3. TxInv /\ up = "up" /\ Answered(plan, FALSE) /\ plan.files \subseteq Files
    BY <1>1, <2>1, TxKnown
  <2>4. PICK pending, done : /\ pending = Range(tx.todo) /\ done = Range(tx.written)
                             /\ Claims(plan, "replace", pending, done)
    BY <1>1, <2>1, <2>3 DEF TxInv
  <2>5. /\ tx'.at = "verify" /\ tx'.id = tx.id /\ tx'.plan = plan /\ tx'.todo = tx.todo
        /\ tx'.written = Append(tx.written, f) /\ tx'.applied = tx.applied
    BY <1>1, <1>3, <2>1, <2>2, TxKnown DEF Transaction
  <2>6. f \in pending /\ f \in plan.files
    BY <1>1, <2>2, <2>4, FileKnown DEF Forward, Claims
  <2>7. Range(tx'.written) = done \cup {f}
    BY <1>1, <2>2, <2>4, <2>5, TxKnown, TxFields, Extended
  <2>8. disk[f] = plan.from[f] /\ f \notin touched
    BY <1>1, <2>1, <2>2, <2>3 DEF TxInv, EndsKnown
  <2>9. /\ disk' = [disk EXCEPT ![f] = plan.to[f]] /\ disk \in [Files -> Content]
        /\ disk'[f] = plan.to[f] /\ \A g \in Files \ {f} : disk'[g] = disk[g]
    BY <1>3, <2>1, <2>2 DEF TypeOK
  <2>10. Lasting
    BY <1>1 DEF Lasting
  <2>11. Due(plan, FALSE, f)'
    <3>1. Due(plan, FALSE, f)
      BY <2>3, <2>6 DEF Answered
    <3>2. Goal(plan, FALSE, f) = plan.from[f] /\ Goal(plan, FALSE, f)' = plan.from[f]
      BY <2>8, <2>9 DEF Goal
    <3>3. Decided(f) => Decided(f)'
      BY <1>1, <2>10, DecidedLasts
    <3> QED BY <1>1, <3>1, <3>2, <3>3 DEF Due
  <2>12. Answered(plan, FALSE)'
    BY <1>1, <2>3, <2>6, <2>9, <2>11, FileWritten
  <2>13. OwnReady' /\ Baseline'
    BY <1>1, <2>1, <2>5, OwnStays DEF Steps
  <2>14. EndsKnown'
    BY <2>2, <2>5, <2>7 DEF EndsKnown, File
  <2>15. Keeps(plan)' /\ SelectedAt(plan, "verify", tx.applied)'
    BY <1>1, <2>1, <2>3, <2>5 DEF TxInv, Keeps, SelectedAt, Forward, Undoing
  <2>16. Claims(plan, "verify", pending, done \cup {f})'
    <3>1. \A g \in plan.files : Due(plan, FALSE, g)'
      BY <2>12 DEF Answered
    <3>2. \A g \in plan.files \ (done \cup {f}) : TrueFile(g)'
      BY <1>1, <2>3, <2>4, <2>9, <2>10, TrueFileLasts DEF Claims
    <3>3. \A g \in plan.files : g \in touched' => Foreign(plan, g)'
      BY <1>1, <2>3, <2>4, <2>8, <2>9 DEF Claims, Foreign
    <3>4. plan.files = pending \cup (done \cup {f})
      BY <2>4, <2>6 DEF Claims, Forward
    <3>5. \A g \in (done \cup {f}) \ (pending \cup touched') : disk'[g] = plan.to[g]
      BY <1>1, <2>3, <2>4, <2>6, <2>9 DEF Claims, Forward
    <3>6. done \cup {f} \subseteq plan.files
      BY <3>4
    <3> QED BY <3>1, <3>2, <3>3, <3>4, <3>5, <3>6 DEF Claims
  <2>17. TxInv'
    BY <2>4, <2>5, <2>7, <2>13, <2>14, <2>15, <2>16, NextTx
  <2> QED BY <1>1, <2>1, <2>5, <2>12, <2>17, Renewed
<1> QED BY <1>2, <1>3 DEF Replace

LEMMA SaveVerify ==
  ASSUME TypeOK, Shape, CoveredInv, Verify
  PROVE  CoveredInv'
<1>1. tx.at = "verify" /\ UNCHANGED <<stored, told, touched, up, queue, req>>
  BY DEF Verify, Holds, ghosts
<1>2. CASE tx' = Compensate(tx)
  BY <1>1, <1>2, SaveCompensate DEF Between
<1>3. CASE /\ disk[File] = tx.plan.to[File]
           /\ tx' = [tx EXCEPT !.todo = Tail(@),
                      !.at = IF Len(tx.todo) > 1 THEN "check"
                             ELSE IF tx.plan.adopts THEN "select" ELSE "commit"]
  <2>1. PICK plan \in Plan : plan = tx.plan
    BY <1>1, TxKnown
  <2>2. PICK f \in Files : f = File
    BY <1>1, FileKnown DEF Forward
  <2>3. PICK at \in {"check", "select", "commit"} :
          at = IF Len(tx.todo) > 1 THEN "check"
               ELSE IF tx.plan.adopts THEN "select" ELSE "commit"
    OBVIOUS
  <2>4. TxInv /\ up = "up" /\ plan.files \subseteq Files
    BY <1>1, <2>1, TxKnown
  <2>5. PICK done : done = Range(tx.written) /\ Claims(plan, "verify", Range(tx.todo), done)
    BY <1>1, <2>1, <2>4 DEF TxInv
  <2>6. /\ tx'.at = at /\ tx'.id = tx.id /\ tx'.plan = plan /\ tx'.todo = Tail(tx.todo)
        /\ tx'.written = tx.written /\ tx'.applied = tx.applied
    BY <1>1, <1>3, <2>1, <2>3, TxKnown DEF Transaction
  <2>7. PICK pending : pending = Range(Tail(tx.todo)) /\ Range(tx.todo) = {f} \cup pending
    BY <1>1, <2>2, FileKnown DEF Forward
  <2>8. f \in done
    BY <1>1, <2>2, <2>4, <2>5 DEF TxInv, EndsKnown
  <2>9. disk[f] = plan.to[f]
    BY <1>3, <2>1, <2>2
  <2>10. OwnReady' /\ Baseline'
    BY <1>1, <2>1, <2>6, OwnStays DEF Steps, stored
  <2>11. EndsKnown'
    <3>1. at # "check" => Tail(tx.todo) = <<>>
      BY <1>1, <2>3, FileKnown DEF Forward
    <3> QED BY <2>6, <3>1 DEF EndsKnown
  <2>12. Keeps(plan)' /\ SelectedAt(plan, at, tx.applied)'
    <3>1. SelectedAt(plan, "verify", tx.applied) /\ Keeps(plan)
      BY <1>1, <2>1, <2>4 DEF TxInv
    <3>2. tx.applied = FALSE /\ sel = plan.selFrom /\ plan.adopts \in BOOLEAN
      BY <3>1, <1>1, PlanFields DEF SelectedAt, Forward
    <3>3. at = "select" => plan.adopts
      BY <2>1, <2>3
    <3>4. at = "commit" => plan.adopts = FALSE
      BY <2>1, <2>3, <3>2
    <3> QED BY <1>1, <2>6, <3>1, <3>2, <3>3, <3>4 DEF Keeps, SelectedAt, Forward, Undoing, stored
  <2>13. Claims(plan, at, pending, done)'
    <3>1. plan.files = pending \cup done /\ done \subseteq plan.files
      BY <2>5, <2>7, <2>8 DEF Claims, Forward
    <3>2. \A g \in done \ (pending \cup touched) : disk[g] = plan.to[g]
      BY <2>5, <2>7, <2>9 DEF Claims, Forward
    <3>3. at # "clean"
      OBVIOUS
    <3>4. \A g \in plan.files : /\ Due(plan, FALSE, g)
                                /\ g \notin done => TrueFile(g)
                                /\ g \in touched => Foreign(plan, g)
      BY <2>5 DEF Claims
    <3> QED BY <1>1, <3>1, <3>2, <3>3, <3>4
            DEF Claims, Due, Goal, TrueFile, Decided, Foreign, stored
  <2>14. TxInv'
    BY <2>5, <2>6, <2>7, <2>10, <2>11, <2>12, <2>13, NextTx
  <2> QED BY <1>1, <2>4, <2>6, <2>14, Runs
<1> QED BY <1>2, <1>3 DEF Verify

LEMMA SaveSelect ==
  ASSUME TypeOK, Shape, CoveredInv, Select
  PROVE  CoveredInv'
<1>1. tx.at = "select" /\ UNCHANGED <<disk, journals, told, touched, up, queue, req>>
  BY DEF Select, Holds, ghosts
<1>2. CASE tx' = Compensate(tx) /\ UNCHANGED sel
  BY <1>1, <1>2, SaveCompensate DEF Between, stored
<1>3. CASE sel' = tx.plan.selTo /\ tx' = [tx EXCEPT !.at = "commit", !.applied = TRUE]
  <2>1. PICK plan \in Plan : plan = tx.plan
    BY <1>1, TxKnown
  <2>2. TxInv /\ up = "up" /\ Answered(plan, FALSE) /\ plan.files \subseteq Files
    BY <1>1, <2>1, TxKnown
  <2>3. /\ tx'.at = "commit" /\ tx'.id = tx.id /\ tx'.plan = plan /\ tx'.todo = tx.todo
        /\ tx'.written = tx.written /\ tx'.applied = TRUE
    BY <1>1, <1>3, <2>1, TxKnown DEF Transaction
  <2>4. plan.adopts = TRUE
    BY <1>1, <2>1, <2>2, PlanFields DEF TxInv, SelectedAt
  <2>5. Keeps(plan)' /\ SelectedAt(plan, "commit", TRUE)'
    BY <1>3, <2>1, <2>4 DEF Keeps, SelectedAt, Forward, Undoing
  <2>6. Answered(plan, FALSE)'
    BY <1>1, <2>2, <2>5 DEF Answered, Due, Goal, TrueFile, Decided, DueSel, GoalSel,
       SelectionUndecided
  <2>7. OwnReady' /\ Baseline'
    BY <1>1, <2>1, <2>3, OwnStays DEF Steps
  <2>8. EndsKnown'
    BY <1>1, <2>2, <2>3 DEF EndsKnown, TxInv
  <2>9. Claims(plan, "commit", Range(tx.todo), Range(tx.written))'
    <3>1. Claims(plan, "select", Range(tx.todo), Range(tx.written))
      BY <1>1, <2>1, <2>2 DEF TxInv
    <3> QED BY <1>1, <2>3, <3>1 DEF Claims, Due, Goal, TrueFile, Decided, Foreign
  <2>10. TxInv'
    BY <2>3, <2>5, <2>7, <2>8, <2>9, NextTx
  <2> QED BY <1>1, <2>1, <2>3, <2>6, <2>10, Renewed
<1> QED BY <1>2, <1>3 DEF Select

LEMMA SaveCommit ==
  ASSUME TypeOK, Shape, CoveredInv, Commit
  PROVE  CoveredInv'
<1>1. tx.at = "commit" /\ UNCHANGED <<disk, sel, touched, up, queue, req>>
  BY DEF Commit, Holds
<1>2. CASE tx' = Compensate(tx) /\ UNCHANGED <<journals, told>>
  BY <1>1, <1>2, SaveCompensate DEF Between, stored
<1>3. CASE /\ journals' = [journals EXCEPT ![tx.id].committed = TRUE]
           /\ told' = [files |-> [f \in Files |->
                         IF f \in tx.plan.files \ touched THEN tx.plan.to[f]
                         ELSE told.files[f]],
                      sel |-> IF tx.plan.adopts THEN tx.plan.selTo ELSE told.sel]
           /\ Goto("clean")
  <2>1. PICK plan \in Plan : plan = tx.plan
    BY <1>1, TxKnown
  <2>2. PICK i \in Ids : i = tx.id
    BY <1>1, TxKnown
  <2>3. TxInv /\ up = "up" /\ Answered(plan, FALSE) /\ plan.files \subseteq Files /\ Intact
        /\ plan.adopts \in BOOLEAN
    BY <1>1, <2>1, TxKnown, PlanFields
  <2>4. /\ \A f \in plan.files \ touched : told'.files[f] = plan.to[f]
        /\ \A f \in Files : f \notin plan.files \ touched => told'.files[f] = told.files[f]
        /\ told'.sel = IF plan.adopts THEN plan.selTo ELSE told.sel
    BY <1>3, <2>1, <2>3
  <2>5. /\ journals'[i].state = "ready" /\ journals'[i].committed = TRUE
        /\ journals'[i].plan = plan /\ journals'[i].copies = journals[i].copies
        /\ \A j \in Ids \ {i} : journals'[j] = journals[j]
    <3>1. journals' = [journals EXCEPT ![i] = [journals[i] EXCEPT !.committed = TRUE]]
      BY <1>3, <2>2 DEF TypeOK
    <3>2. journals[i] \in Journal /\ journals[i].state = "ready" /\ journals[i].plan = plan
      BY <1>1, <2>1, <2>2, TxKnown DEF TypeOK
    <3> QED BY <3>1, <3>2 DEF TypeOK, Journal
  <2>6. Intact' /\ \A j \in Ids : Ready(j)' <=> j = i
    BY <1>1, <2>2, <2>3, <2>5, TxKnown DEF Intact, Ready
  <2>7. Lasting
    BY <1>1, <2>2, <2>5, TxKnown DEF Lasting
  <2>8. tx.todo = <<>> /\ Range(tx.todo) = {}
    BY <1>1, <2>3, NothingIn DEF TxInv, EndsKnown
  <2>9. PICK done : done = Range(tx.written) /\ Claims(plan, "commit", {}, done)
    BY <1>1, <2>1, <2>3, <2>8 DEF TxInv
  <2>10. plan.files = done /\ \A f \in plan.files \ touched : disk[f] = plan.to[f]
    BY <2>9 DEF Claims
  <2>11. ASSUME NEW f \in plan.files
         PROVE  Due(plan, TRUE, f)' /\ TrueFile(f)'
    <3>1. CASE f \in touched
      <4>1. Foreign(plan, f)
        BY <2>9, <3>1 DEF Claims
      <4>2. told'.files[f] = told.files[f] /\ disk'[f] = disk[f]
        BY <1>1, <2>3, <2>4, <3>1
      <4> QED BY <4>1, <4>2 DEF Foreign, Due, Goal, TrueFile
    <3>2. CASE f \notin touched
      <4>1. told'.files[f] = plan.to[f] /\ disk'[f] = plan.to[f]
        BY <1>1, <2>4, <2>10, <3>2
      <4> QED BY <4>1 DEF Due, Goal, TrueFile
    <3> QED BY <3>1, <3>2
  <2>12. \A f \in Files \ plan.files : TrueFile(f)'
    BY <1>1, <2>3, <2>4, <2>7, TrueFileLasts DEF Answered
  <2>13. DueSel(plan, TRUE)' /\ Keeps(plan)'
    <3>1. CASE plan.adopts
      BY <2>4, <3>1 DEF DueSel, GoalSel, Keeps
    <3>2. CASE ~plan.adopts
      <4>1. plan.selTo = plan.selFrom /\ Keeps(plan)' /\ told'.sel = told.sel
        BY <1>1, <2>3, <2>4, <3>2 DEF Answered, Keeps
      <4>2. DueSel(plan, FALSE)'
        BY <2>3, <2>7, <4>1, DueSelLasts DEF Answered
      <4> QED BY <4>1, <4>2 DEF DueSel, GoalSel
    <3> QED BY <3>1, <3>2
  <2>14. StoredInv'
    <3>1. Answered(plan, TRUE)'
      BY <2>11, <2>12, <2>13 DEF Answered
    <3> QED BY <2>5, <2>6, <3>1, OneJournal
  <2>15. MovesTo(tx', "clean")
    BY <1>1, <1>3, Moving, TxKnown DEF Goto, Steps
  <2>16. OwnReady'
    BY <2>1, <2>2, <2>5, <2>15 DEF OwnReady, MovesTo, Ready
  <2>17. Baseline' /\ EndsKnown'
    BY <1>1, <2>3, <2>15 DEF TxInv, Baseline, EndsKnown, Expected, Holder, MovesTo
  <2>18. SelectedAt(plan, "clean", tx.applied)'
    <3>1. SelectedAt(plan, "commit", tx.applied) /\ Keeps(plan)
      BY <1>1, <2>1, <2>3 DEF TxInv
    <3>2. sel = plan.selTo
      BY <3>1 DEF SelectedAt, Keeps
    <3> QED BY <1>1, <3>2 DEF SelectedAt, Forward, Undoing
  <2>19. Claims(plan, "clean", {}, done)'
    BY <2>10, <2>11 DEF Claims, Forward
  <2>20. TxInv'
    BY <2>1, <2>8, <2>9, <2>13, <2>15, <2>16, <2>17, <2>18, <2>19, NextTx DEF MovesTo
  <2> QED BY <1>1, <2>3, <2>14, <2>15, <2>20 DEF CoveredInv, AtRest, MovesTo
<1> QED BY <1>2, <1>3 DEF Commit

\* The journal is gone and the transaction over: everything it stood for is there.
LEMMA Removed ==
  ASSUME TypeOK, Shape, CoveredInv, tx.at \in {"clean", "undone"}, UNCHANGED <<disk, sel, told, up>>,
         journals' = [journals EXCEPT ![tx.id] = NoJournal], tx' = NoTx,
         \A f \in tx.plan.files : TrueFile(f), sel = GoalSel(tx.plan, tx.at = "clean")
  PROVE  CoveredInv'
<1>1. PICK i \in Ids : i = tx.id
  BY TxKnown
<1>2. /\ Answered(tx.plan, tx.at = "clean") /\ up = "up" /\ Intact /\ tx.plan \in Plan
      /\ tx.plan.files \in SUBSET Files /\ (\A j \in Ids : Ready(j) <=> j = i)
  BY <1>1, TxKnown
<1>3. /\ journals'[i].state = "none" /\ \A j \in Ids \ {i} : journals'[j] = journals[j]
  BY <1>1, NoJournalType DEF TypeOK
<1>4. Lasting /\ Intact' /\ NoneReady'
  BY <1>2, <1>3 DEF Lasting, Intact, NoneReady, Ready
<1>5. AllTrue
  <2>1. \A f \in Files : TrueFile(f)
    BY <1>2 DEF Answered
  <2>2. TrueSel
    BY <1>2 DEF Answered, DueSel, TrueSel
  <2> QED BY <2>1, <2>2 DEF AllTrue
<1>6. StoredInv'
  BY <1>4, <1>5, AllTrueLasts, NoJournalReady
<1> QED BY <1>2, <1>4, <1>6, NoTxType DEF CoveredInv

LEMMA SaveClean ==
  ASSUME TypeOK, Shape, CoveredInv, Clean, kept' = FALSE
  PROVE  CoveredInv'
<1>1. /\ tx.at = "clean" /\ journals' = [journals EXCEPT ![tx.id] = NoJournal] /\ tx' = NoTx
      /\ UNCHANGED <<disk, sel, told, up>>
  BY DEF Clean, Holds, Release, LeaveJournal
<1>2. TxInv
  BY <1>1, TxKnown
<1>3. (\A f \in tx.plan.files : TrueFile(f)) /\ sel = GoalSel(tx.plan, TRUE)
  BY <1>1, <1>2 DEF TxInv, Claims, SelectedAt, GoalSel
<1> QED BY <1>1, <1>3, Removed

LEMMA SaveUndone ==
  ASSUME TypeOK, Shape, CoveredInv, Undone, kept' = FALSE
  PROVE  CoveredInv'
<1>1. /\ tx.at = "undone" /\ journals' = [journals EXCEPT ![tx.id] = NoJournal] /\ tx' = NoTx
      /\ UNCHANGED <<disk, sel, told, up>>
  BY DEF Undone, Holds, Release, LeaveJournal
<1>2. TxInv
  BY <1>1, TxKnown
<1>3. Range(tx.written) = {}
  BY <1>1, <1>2, NothingIn DEF TxInv, EndsKnown
<1>4. (\A f \in tx.plan.files : TrueFile(f)) /\ sel = GoalSel(tx.plan, FALSE)
  BY <1>1, <1>2, <1>3 DEF TxInv, Claims, SelectedAt, GoalSel, Undoing
<1> QED BY <1>1, <1>4, Removed

LEMMA SaveRevert ==
  ASSUME TypeOK, Shape, CoveredInv, Revert, kept' = FALSE
  PROVE  CoveredInv'
<1>1. /\ tx.at = "revert" /\ sel' = tx.plan.selFrom /\ Goto("undo")
      /\ UNCHANGED <<disk, journals, told, touched, up, queue, req>>
  BY DEF Revert, Holds, LeaveJournal
<1>2. PICK plan \in Plan : plan = tx.plan
  BY <1>1, TxKnown
<1>3. TxInv /\ Answered(plan, FALSE) /\ plan.files \subseteq Files
  BY <1>1, <1>2, TxKnown
<1>4. MovesTo(tx', "undo")
  BY <1>1, Moving, TxKnown DEF Goto, Steps
<1>5. Keeps(plan)' /\ SelectedAt(plan, "undo", tx.applied)'
  BY <1>1, <1>2, <1>3 DEF TxInv, Keeps, SelectedAt, Forward, Undoing
<1>6. Answered(plan, FALSE)'
  BY <1>1, <1>3, <1>5 DEF Answered, Due, Goal, TrueFile, Decided, DueSel, GoalSel,
     SelectionUndecided
<1>7. OwnReady' /\ Baseline'
  BY <1>1, <1>4, OwnStays DEF Steps, MovesTo
<1>8. EndsKnown'
  BY <1>4 DEF EndsKnown, MovesTo
<1>9. Claims(plan, "undo", Range(tx.todo), Range(tx.written))'
  <2>1. Claims(plan, "revert", Range(tx.todo), Range(tx.written))
    BY <1>1, <1>2, <1>3 DEF TxInv
  <2> QED BY <1>1, <1>4, <2>1 DEF Claims, Due, Goal, TrueFile, Decided, Foreign, Forward, MovesTo
<1>10. TxInv'
  BY <1>2, <1>4, <1>5, <1>7, <1>8, <1>9, NextTx DEF MovesTo
<1> QED BY <1>1, <1>2, <1>4, <1>6, <1>10, Renewed DEF MovesTo

LEMMA SaveUndo ==
  ASSUME TypeOK, Shape, CoveredInv, Undo, kept' = FALSE
  PROVE  CoveredInv'
<1>1. PICK at \in {"undone", "put-back"} :
        /\ tx.at = "undo" /\ Goto(at)
        /\ UNCHANGED <<stored, told, touched, up, queue, req>>
        /\ at = "undone" => tx.written = <<>>
        /\ at = "put-back" => disk[LastWritten] = tx.plan.to[LastWritten]
  BY DEF Undo, Holds, LeaveJournal
<1>2. PICK plan \in Plan : plan = tx.plan
  BY <1>1, TxKnown
<1>3. TxInv /\ up = "up"
  BY <1>1, TxKnown
<1>4. MovesTo(tx', at)
  BY <1>1, Moving, TxKnown DEF Goto, Steps
<1>5. OwnReady' /\ Baseline'
  BY <1>1, <1>4, OwnStays DEF Steps, MovesTo, stored
<1>6. EndsKnown'
  BY <1>1, <1>4 DEF EndsKnown, MovesTo, LastWritten, stored
<1>7. Keeps(plan)' /\ SelectedAt(plan, at, tx.applied)'
  BY <1>1, <1>2, <1>3 DEF TxInv, Keeps, SelectedAt, Forward, Undoing, stored
<1>8. Claims(plan, at, Range(tx.todo), Range(tx.written))'
  <2>1. Claims(plan, "undo", Range(tx.todo), Range(tx.written))
    BY <1>1, <1>2, <1>3 DEF TxInv
  <2>2. at # "clean" /\ at \notin {"select", "commit"} \cup Forward
    BY DEF Forward
  <2> QED BY <1>1, <1>4, <2>1, <2>2
          DEF Claims, Due, Goal, TrueFile, Decided, Foreign, Forward, MovesTo, stored
<1>9. TxInv'
  BY <1>2, <1>4, <1>5, <1>6, <1>7, <1>8, NextTx DEF MovesTo
<1> QED BY <1>1, <1>3, <1>4, <1>9, Runs DEF MovesTo

LEMMA SavePutBack ==
  ASSUME TypeOK, Shape, CoveredInv, PutBack, kept' = FALSE
  PROVE  CoveredInv'
<1>1. /\ tx.at = "put-back" /\ tx.written # <<>>
      /\ disk' = [disk EXCEPT ![LastWritten] = tx.plan.from[LastWritten]]
      /\ tx' = [tx EXCEPT !.at = "undo", !.written = SubSeq(@, 1, Len(@) - 1)]
      /\ UNCHANGED <<sel, journals, told, touched, up, queue, req>>
  BY DEF PutBack, Holds, LeaveJournal, Shape
<1>2. PICK plan \in Plan : plan = tx.plan
  BY <1>1, TxKnown
<1>3. PICK f \in Files : f = LastWritten
  BY <1>1, LastKnown
<1>4. TxInv /\ up = "up" /\ Answered(plan, FALSE) /\ plan.files \subseteq Files
  BY <1>1, <1>2, TxKnown
<1>5. PICK pending, done : /\ pending = Range(tx.todo) /\ done = Range(tx.written)
                           /\ Claims(plan, "put-back", pending, done)
  BY <1>1, <1>2, <1>4 DEF TxInv
<1>6. PICK left : /\ left = Range(SubSeq(tx.written, 1, Len(tx.written) - 1))
                  /\ done = {f} \cup left
  BY <1>1, <1>3, <1>5, LastKnown
<1>7. /\ tx'.at = "undo" /\ tx'.id = tx.id /\ tx'.plan = plan /\ tx'.todo = tx.todo
      /\ Range(tx'.written) = left /\ tx'.applied = tx.applied
  BY <1>1, <1>2, <1>6, TxKnown DEF Transaction
<1>8. f \in plan.files /\ disk[f] = plan.to[f]
  BY <1>1, <1>2, <1>3, <1>4, <1>5, <1>6 DEF Claims, TxInv, EndsKnown
<1>9. /\ disk' = [disk EXCEPT ![f] = plan.from[f]] /\ disk \in [Files -> Content]
      /\ disk'[f] = plan.from[f] /\ \A g \in Files \ {f} : disk'[g] = disk[g]
  BY <1>1, <1>2, <1>3 DEF TypeOK
<1>10. Lasting
  BY <1>1 DEF Lasting
<1>11. Due(plan, FALSE, f)' /\ TrueFile(f)'
  <2>1. Due(plan, FALSE, f)
    BY <1>4, <1>8 DEF Answered
  <2>2. Goal(plan, FALSE, f) = plan.from[f] /\ Goal(plan, FALSE, f)' = plan.from[f]
    BY <1>8, <1>9 DEF Goal
  <2>3. Decided(f) => Decided(f)'
    BY <1>1, <1>10, DecidedLasts
  <2> QED BY <1>1, <1>9, <2>1, <2>2, <2>3 DEF Due, TrueFile
<1>12. Answered(plan, FALSE)'
  BY <1>1, <1>4, <1>8, <1>9, <1>11, FileWritten
<1>13. OwnReady' /\ Baseline'
  BY <1>1, <1>2, <1>7, OwnStays DEF Steps
<1>14. EndsKnown'
  BY <1>7 DEF EndsKnown
<1>15. Keeps(plan)' /\ SelectedAt(plan, "undo", tx.applied)'
  BY <1>1, <1>2, <1>4 DEF TxInv, Keeps, SelectedAt, Forward, Undoing
<1>16. Claims(plan, "undo", pending, left)'
  <2>1. \A g \in plan.files : Due(plan, FALSE, g)'
    BY <1>12 DEF Answered
  <2>2. \A g \in plan.files \ left : TrueFile(g)'
    BY <1>1, <1>4, <1>5, <1>6, <1>9, <1>10, <1>11, TrueFileLasts DEF Claims
  <2>3. \A g \in plan.files : g \in touched' => Foreign(plan, g)'
    <3>1. \A g \in plan.files : g \in touched => Foreign(plan, g)
      BY <1>5 DEF Claims
    <3>2. f \in touched => told.files[f] = Unknown
      BY <1>8, <3>1 DEF Foreign
    <3> QED BY <1>1, <1>4, <1>9, <3>1, <3>2 DEF Foreign
  <2>4. left \subseteq plan.files
    BY <1>5, <1>6 DEF Claims
  <2> QED BY <2>1, <2>2, <2>3, <2>4 DEF Claims, Forward
<1>17. TxInv'
  BY <1>5, <1>7, <1>13, <1>14, <1>15, <1>16, NextTx
<1> QED BY <1>1, <1>2, <1>7, <1>12, <1>17, Renewed

----------------------------------------------------------------------------
(* The process dies, or somebody edits a file *)

LEMMA SaveCrash ==
  ASSUME TypeOK, Shape, CoveredInv, Crash, torn' = 0, torn = 0
  PROVE  CoveredInv'
<1>1. UNCHANGED <<disk, sel, told>> /\ up' = "down" /\ tx'.at = "none"
  BY NoTxType DEF Crash, MemoryLost
<1>2. CASE UNCHANGED journals
  <2>1. StoredInv'
    BY <1>1, <1>2, StoredSame DEF CoveredInv, stored
  <2> QED BY <1>1, <2>1 DEF CoveredInv, AtRest
<1>3. CASE Holds("journal") /\ journals' = [journals EXCEPT ![tx.id].state = "open"]
  <2>1. PICK i \in Ids : i = tx.id
    BY <1>3, JournalOpened DEF Holds
  <2>2. journals[i].state = "none" /\ NoneReady /\ AllTrue /\ Intact
    BY <1>3, <2>1, JournalOpened DEF Holds
  <2>3. journals'[i].state = "open" /\ \A j \in Ids \ {i} : journals'[j] = journals[j]
    BY <1>3, <2>1 DEF TypeOK, Journal
  <2>4. Lasting /\ Intact' /\ NoneReady'
    BY <2>2, <2>3 DEF Lasting, Intact, NoneReady, Ready
  <2>5. StoredInv'
    BY <1>1, <2>2, <2>4, AllTrueLasts, NoJournalReady
  <2> QED BY <1>1, <2>5 DEF CoveredInv, AtRest
<1>4. torn' # torn + 1
  OBVIOUS
<1> QED BY <1>2, <1>3, <1>4 DEF Crash

\* The edit is told, unless it brings a version some save is about.
LEMMA EditTold ==
  ASSUME TypeOK, NEW f \in Files, Edit(f)
  PROVE  /\ \A g \in Files \ {f} : disk'[g] = disk[g] /\ told'.files[g] = told.files[g]
         /\ told'.sel = told.sel /\ UNCHANGED <<sel, journals, up, memory>>
         /\ told'.files[f] \in {Unknown, disk'[f]}
         /\ \A plan \in Unfinished : f \in plan.files =>
              \/ told'.files[f] = Unknown
              \/ told'.files[f] = disk'[f] /\ disk'[f] \notin {plan.from[f], plan.to[f]}
<1>1. PICK t \in Content :
        /\ disk' = [disk EXCEPT ![f] = t]
        /\ told' = [told EXCEPT !.files[f] = IF t \in VersionsOf(f) THEN Unknown ELSE t]
  BY DEF Edit
<1>2. /\ disk'[f] = t /\ told'.files[f] = IF t \in VersionsOf(f) THEN Unknown ELSE t
      /\ \A g \in Files \ {f} : disk'[g] = disk[g] /\ told'.files[g] = told.files[g]
      /\ told'.sel = told.sel
  BY <1>1 DEF TypeOK
<1>3. ASSUME NEW plan \in Unfinished, f \in plan.files, t \notin VersionsOf(f)
      PROVE  t \notin {plan.from[f], plan.to[f]}
  BY <1>3 DEF VersionsOf
<1> QED BY <1>2, <1>3 DEF Edit

LEMMA EditAnswered ==
  ASSUME TypeOK, NEW f \in Files, Edit(f), NEW plan \in Plan, plan \in Unfinished, NEW c,
         Answered(plan, c)
  PROVE  Answered(plan, c)'
<1>1. Lasting /\ plan.files \subseteq Files
  BY EditTold, PlanFields DEF Lasting
<1>2. ASSUME NEW g \in plan.files
      PROVE  Due(plan, c, g)'
  <2>1. CASE g = f
    <3>1. \/ told'.files[f] = Unknown
          \/ told'.files[f] = disk'[f] /\ disk'[f] \notin {plan.from[f], plan.to[f]}
      BY <2>1, EditTold
    <3> QED BY <2>1, <3>1 DEF Due, Goal
  <2>2. CASE g # f
    BY <1>1, <2>2, EditTold, DueLasts DEF Answered
  <2> QED BY <2>1, <2>2
<1>3. ASSUME NEW g \in Files \ plan.files
      PROVE  TrueFile(g)'
  <2>1. CASE g = f
    BY <2>1, EditTold DEF TrueFile
  <2>2. CASE g # f
    BY <1>1, <2>2, EditTold, TrueFileLasts DEF Answered
  <2> QED BY <2>1, <2>2
<1>4. DueSel(plan, c)' /\ Keeps(plan)'
  BY <1>1, EditTold, DueSelLasts DEF Answered, Keeps
<1> QED BY <1>2, <1>3, <1>4 DEF Answered

LEMMA EditStored ==
  ASSUME TypeOK, CoveredInv, NEW f \in Files, Edit(f)
  PROVE  StoredInv'
<1>1. StoredInv /\ UNCHANGED <<sel, journals>> /\ Lasting
  BY EditTold DEF CoveredInv, Lasting
<1>2. Intact'
  BY <1>1 DEF StoredInv, Intact
<1>3. CASE NoneReady
  <2>1. AllTrue
    BY <1>1, <1>3 DEF StoredInv
  <2>2. ASSUME NEW g \in Files
        PROVE  TrueFile(g)'
    <3>1. CASE g = f
      BY <3>1, EditTold DEF TrueFile
    <3>2. CASE g # f
      BY <1>1, <2>1, <3>2, EditTold, TrueFileLasts DEF AllTrue
    <3> QED BY <3>1, <3>2
  <2>3. TrueSel'
    BY <1>1, <2>1, EditTold, SelectionLasts DEF AllTrue, TrueSel
  <2>4. NoneReady'
    BY <1>1, <1>3 DEF NoneReady, Ready
  <2> QED BY <1>2, <2>2, <2>3, <2>4, NoJournalReady DEF AllTrue
<1>4. CASE ~NoneReady
  <2>1. PICK i \in Ids : Ready(i)
    BY <1>4 DEF NoneReady
  <2>2. PICK plan \in Plan, c \in BOOLEAN : plan = journals[i].plan /\ c = journals[i].committed
    BY JournalFields DEF TypeOK
  <2>3. (\A j \in Ids : Ready(j) <=> j = i) /\ Answered(plan, c)
    BY <1>1, <2>1, <2>2, ReadyAlone
  <2>4. plan \in Unfinished
    BY <2>1, <2>2 DEF Unfinished, Live, Ready
  <2>5. Answered(plan, c)'
    BY <2>3, <2>4, EditAnswered
  <2>6. /\ \A j \in Ids : Ready(j)' <=> j = i
        /\ journals'[i].plan = plan /\ journals'[i].committed = c
    BY <1>1, <2>2, <2>3 DEF Ready
  <2> QED BY <1>2, <2>5, <2>6, OneJournal
<1> QED BY <1>3, <1>4

LEMMA EditTx ==
  ASSUME TypeOK, Shape, CoveredInv, NEW f \in Files, Edit(f), races' = races, tx.at # "none"
  PROVE  TxInv'
<1>1. PICK plan \in Plan : plan = tx.plan
  BY OwnJournal
<1>2. TxInv /\ plan \in Unfinished /\ plan.files \subseteq Files
  BY <1>1, PlanFields DEF CoveredInv, Unfinished
<1>3. UNCHANGED <<sel, journals, up, tx, queue, req>> /\ Lasting
  BY EditTold DEF memory, Lasting
<1>4. ~Races(f)
  <2>1. races \in Nat
    BY BoundAssumption DEF TypeOK
  <2> QED BY <2>1 DEF Edit
<1>5. touched' = touched \cup {f}
  BY DEF Edit
<1>6. PICK at, pending, done :
        /\ at = tx.at /\ pending = Range(tx.todo) /\ done = Range(tx.written)
        /\ Claims(plan, at, pending, done)
  BY <1>1, <1>2 DEF TxInv
<1>7. OwnReady'
  BY <1>2, <1>3 DEF TxInv, OwnReady, NoneReady, Ready
<1>8. Baseline'
  BY <1>2, <1>3 DEF TxInv, Baseline, Expected, Holder
<1>9. EndsKnown'
  <2>1. tx.at = "replace" => File # f /\ File \in Files
    BY <1>4, FileKnown DEF Races, Forward
  <2>2. tx.at = "put-back" => LastWritten # f /\ LastWritten \in Files
    BY <1>4, LastKnown DEF Races, Shape
  <2> QED BY <1>2, <1>3, <1>5, <2>1, <2>2, EditTold DEF TxInv, EndsKnown, File, LastWritten
<1>10. Keeps(plan)' /\ SelectedAt(plan, at, tx.applied)'
  BY <1>1, <1>2, <1>3, <1>6 DEF TxInv, Keeps, SelectedAt
<1>11. Claims(plan, at, pending, done)'
  <2>1. ASSUME NEW g \in plan.files
        PROVE  /\ at # "clean" => Due(plan, FALSE, g)'
               /\ g \notin done \/ at = "clean" => TrueFile(g)'
               /\ g \in touched' /\ at # "clean" => Foreign(plan, g)'
    <3>1. CASE g = f
      <4>1. \/ told'.files[f] = Unknown
            \/ told'.files[f] = disk'[f] /\ disk'[f] \notin {plan.from[f], plan.to[f]}
        BY <1>2, <3>1, EditTold
      <4> QED BY <3>1, <4>1 DEF Due, Goal, TrueFile, Foreign
    <3>2. CASE g # f
      <4>1. told'.files[g] = told.files[g] /\ disk'[g] = disk[g]
        BY <1>2, <3>2, EditTold
      <4>2. g \in touched' => g \in touched
        BY <1>5, <3>2
      <4>3. /\ at # "clean" => Due(plan, FALSE, g)
            /\ g \notin done \/ at = "clean" => TrueFile(g)
            /\ g \in touched /\ at # "clean" => Foreign(plan, g)
        BY <1>6 DEF Claims
      <4>4. Due(plan, FALSE, g) => Due(plan, FALSE, g)'
        BY <1>3, <4>1, DueLasts
      <4>5. TrueFile(g) => TrueFile(g)'
        BY <1>3, <4>1, TrueFileLasts
      <4>6. Foreign(plan, g) => Foreign(plan, g)'
        BY <4>1 DEF Foreign
      <4> QED BY <4>2, <4>3, <4>4, <4>5, <4>6
    <3> QED BY <3>1, <3>2
  <2>2. at \in {"select", "commit"} \cup Forward =>
          /\ plan.files = pending \cup done
          /\ \A g \in done \ (pending \cup touched') : disk'[g] = plan.to[g]
    BY <1>2, <1>5, <1>6, EditTold DEF Claims
  <2>3. done \subseteq plan.files
    BY <1>6 DEF Claims
  <2> QED BY <2>1, <2>2, <2>3 DEF Claims
<1> QED BY <1>1, <1>3, <1>6, <1>7, <1>8, <1>9, <1>10, <1>11, NextTx

LEMMA SaveEdit ==
  ASSUME TypeOK, Shape, CoveredInv, NEW f \in Files, Edit(f), races' = races
  PROVE  CoveredInv'
<1>1. StoredInv' /\ UNCHANGED <<sel, journals, up, tx, rec>>
  BY EditStored, EditTold DEF memory
<1>2. (AtRest => NoneReady)'
  BY <1>1 DEF CoveredInv, AtRest, NoneReady, Ready
<1>3. (tx.at # "none" => TxInv)'
  BY <1>1, EditTx
<1>4. ASSUME up = "recovering"
      PROVE  RecInv'
  <2>1. RecInv /\ Lasting
    BY <1>1, <1>4 DEF CoveredInv, Lasting
  <2>2. ASSUME NEW g \in Files, TrueFile(g)
        PROVE  TrueFile(g)'
    <3>1. CASE g = f
      BY <3>1, EditTold DEF TrueFile
    <3>2. CASE g # f
      BY <2>1, <2>2, <3>2, EditTold, TrueFileLasts
    <3> QED BY <3>1, <3>2
  <2>3. rec.id # NoId => Taken' = Taken /\ Taken.plan.files \subseteq Files
    BY <1>1, TakenKnown, PlanFields DEF Taken
  <2> QED BY <1>1, <2>1, <2>2, <2>3 DEF RecInv, Ready, Live, GoalSel
<1> QED BY <1>1, <1>2, <1>3, <1>4 DEF CoveredInv

----------------------------------------------------------------------------
(* The recovery *)

LEMMA SaveStart ==
  ASSUME TypeOK, Shape, CoveredInv, Start, kept' = FALSE
  PROVE  CoveredInv'
<1>1. /\ up' = "recovering" /\ rec' = [NoRec EXCEPT !.ids = {i \in Ids : Live(i)}]
      /\ UNCHANGED <<stored, told, tx>> /\ tx.at = "none"
  BY DEF Start, Abort, Shape
<1>2. StoredInv'
  BY <1>1, StoredSame DEF CoveredInv
<1>3. rec'.ids = {i \in Ids : Live(i)} /\ rec'.id = NoId
  BY <1>1, NoRecType DEF NoRec
<1>4. RecInv'
  BY <1>1, <1>3 DEF RecInv, Ready, Live, stored
<1> QED BY <1>1, <1>2, <1>4 DEF CoveredInv, AtRest

LEMMA SaveListen ==
  ASSUME TypeOK, Shape, CoveredInv, Listen
  PROVE  CoveredInv'
<1>1. /\ up = "recovering" /\ up' = "up" /\ rec.id = NoId /\ rec.ids = {}
      /\ UNCHANGED <<stored, told, tx>> /\ tx.at = "none"
  BY DEF Listen, ghosts, Shape
<1>2. StoredInv'
  BY <1>1, StoredSame DEF CoveredInv
<1>3. NoneReady
  <2>1. \A i \in Ids : Ready(i) => i \in {NoId}
    BY <1>1 DEF CoveredInv, RecInv
  <2>2. NoId \notin Ids
    BY DEF NoId, Ids
  <2> QED BY <2>1, <2>2 DEF NoneReady
<1>4. NoneReady'
  BY <1>1, <1>3 DEF NoneReady, Ready, stored
<1> QED BY <1>1, <1>2, <1>4 DEF CoveredInv

LEMMA SaveTakeJournal ==
  ASSUME TypeOK, Shape, CoveredInv, TakeJournal
  PROVE  CoveredInv'
<1>1. /\ up = "recovering" /\ rec.id = NoId /\ UNCHANGED <<stored, told, tx, up>> /\ tx.at = "none"
  BY DEF TakeJournal, ghosts, Shape
<1>2. PICK i \in rec.ids :
         rec' = IF journals[i].state = "open" THEN [rec EXCEPT !.ids = @ \ {i}]
                ELSE [NoRec EXCEPT !.ids = rec.ids \ {i}, !.id = i,
                        !.files = journals[i].plan.files]
  BY DEF TakeJournal
<1>3. RecInv /\ i \in Ids /\ i # NoId /\ Live(i)
  BY <1>1, <1>2, RecFields DEF CoveredInv, RecInv, Ids, NoId
<1>4. NoId \notin Ids
  BY DEF NoId, Ids
<1>5. StoredInv'
  BY <1>1, StoredSame DEF CoveredInv
<1>6. RecInv'
  <2>1. CASE journals[i].state = "open"
    <3>1. rec'.ids = rec.ids \ {i} /\ rec'.id = NoId
      BY <1>1, <1>2, <2>1, RecFields DEF RecOK
    <3>2. \A j \in Ids : Ready(j) => j # i /\ j \in rec.ids
      BY <1>1, <1>3, <1>4, <2>1 DEF RecInv, Ready
    <3> QED BY <1>1, <1>3, <3>1, <3>2 DEF RecInv, Ready, Live, stored
  <2>2. CASE journals[i].state # "open"
    <3>1. rec'.ids = rec.ids \ {i} /\ rec'.id = i /\ rec'.files = journals[i].plan.files
          /\ rec'.bad = FALSE /\ rec'.selected = FALSE
      BY <1>2, <2>2, NoRecType DEF NoRec
    <3>2. Ready(i)
      BY <1>3, <2>2 DEF Live, Ready
    <3>3. \A j \in Ids : Ready(j) => j \in rec'.ids \cup {i}
      BY <1>1, <1>3, <1>4, <3>1 DEF RecInv
    <3>4. \A j \in rec'.ids : Live(j)
      BY <1>3, <3>1 DEF RecInv
    <3>5. Taken'.plan.files = rec'.files
      BY <1>1, <3>1 DEF Taken, stored
    <3>6. \A j \in Ids : (Ready(j)' <=> Ready(j)) /\ (Live(j)' <=> Live(j))
      BY <1>1 DEF Ready, Live, stored
    <3>7. (\A j \in Ids : Ready(j) => j \in rec.ids \cup {rec.id})'
      BY <3>1, <3>3, <3>6
    <3>8. (\A j \in rec.ids : Live(j))'
      BY <1>3, <3>1, <3>4, <3>6, RecFields
    <3>9. Ready(rec.id)'
      BY <1>3, <3>1, <3>2, <3>6 DEF Ready
    <3> QED BY <3>1, <3>5, <3>7, <3>8, <3>9 DEF RecInv
  <2> QED BY <2>1, <2>2
<1> QED BY <1>1, <1>5, <1>6 DEF CoveredInv, AtRest

\* What the recovery has before it.
LEMMA Recovering ==
  ASSUME TypeOK, Shape, CoveredInv, up = "recovering", rec.id # NoId,
         NEW i \in Ids, i = rec.id
  PROVE  /\ StoredInv /\ RecInv /\ tx.at = "none" /\ Ready(i) /\ i \notin rec.ids
         /\ \A j \in Ids : Ready(j) <=> j = i
         /\ Answered(journals[i].plan, journals[i].committed)
         /\ rec.files \subseteq journals[i].plan.files
         /\ \A f \in Files : journals[i].copies[f] = "intact"
<1>1. StoredInv /\ RecInv /\ tx.at = "none"
  BY DEF CoveredInv, Shape
<1>2. Ready(i) /\ i \notin rec.ids /\ rec.files \subseteq journals[i].plan.files
  BY <1>1 DEF RecInv, Taken
<1> QED BY <1>1, <1>2, ReadyAlone

\* It goes on with the same journal.
LEMMA RecGoesOn ==
  ASSUME TypeOK, RecInv, NEW i \in Ids, i = rec.id, rec.id # NoId, UNCHANGED journals,
         rec'.id = rec.id, rec'.ids = rec.ids, rec'.files \subseteq rec.files,
         NEW plan, plan = journals[i].plan, NEW c, c = journals[i].committed,
         rec'.bad = FALSE => \A f \in plan.files \ rec'.files : TrueFile(f)',
         rec'.bad = FALSE /\ rec'.selected = TRUE => sel' = GoalSel(plan, c)
  PROVE  RecInv'
<1>1. \A j \in Ids : (Ready(j)' <=> Ready(j)) /\ (Live(j)' <=> Live(j))
  BY DEF Ready, Live
<1>2. Taken' = journals[i] /\ Taken = journals[i]
  BY DEF Taken
<1>3. (\A j \in Ids : Ready(j) => j \in rec.ids \cup {rec.id})'
  BY <1>1 DEF RecInv
<1>4. (\A j \in rec.ids : Live(j))'
  BY <1>1, RecFields DEF RecInv
<1>5. Ready(rec.id)' /\ (rec.id \notin rec.ids)' /\ (rec.files \subseteq Taken.plan.files)'
  BY <1>1, <1>2 DEF RecInv, Ready
<1>6. (rec.bad = FALSE => \A f \in Taken.plan.files \ rec.files : TrueFile(f))'
  BY <1>2
<1>7. (rec.bad = FALSE /\ rec.selected = TRUE => sel = GoalSel(Taken.plan, Taken.committed))'
  BY <1>2 DEF GoalSel
<1> QED BY <1>3, <1>4, <1>5, <1>6, <1>7 DEF RecInv

LEMMA SaveRecoverFile ==
  ASSUME TypeOK, Shape, CoveredInv, RecoverFile
  PROVE  CoveredInv'
<1>1. up = "recovering" /\ rec.id # NoId /\ UNCHANGED <<sel, journals, told, up, tx>>
  BY DEF RecoverFile, ghosts
<1>2. PICK i \in Ids : i = rec.id
  BY <1>1, RecFields
<1>3. PICK plan \in Plan, c \in BOOLEAN : plan = journals[i].plan /\ c = journals[i].committed
  BY JournalFields DEF TypeOK
<1>4. /\ StoredInv /\ RecInv /\ tx.at = "none" /\ (\A j \in Ids : Ready(j) <=> j = i)
      /\ Answered(plan, c) /\ rec.files \subseteq plan.files
      /\ \A f \in Files : journals[i].copies[f] = "intact"
  BY <1>1, <1>2, <1>3, Recovering
<1>5. PICK f \in rec.files :
         \/ /\ disk[f] = WantedBack(f)
            /\ rec' = [rec EXCEPT !.files = @ \ {f}] /\ UNCHANGED disk
         \/ /\ disk[f] # WantedBack(f) /\ Ours(f) /\ ~CopyGone(f)
            /\ disk' = [disk EXCEPT ![f] = FromCopy(f)]
            /\ rec' = [rec EXCEPT !.files = @ \ {f}]
         \/ rec' = [rec EXCEPT !.files = @ \ {f}, !.bad = TRUE] /\ UNCHANGED disk
  BY DEF RecoverFile
<1>6. f \in Files /\ f \in plan.files /\ plan.files \subseteq Files /\ disk \in [Files -> Content]
  BY <1>4, RecFields, PlanFields DEF TypeOK
<1>7. /\ rec'.id = rec.id /\ rec'.ids = rec.ids /\ rec'.files = rec.files \ {f}
      /\ rec'.selected = rec.selected /\ (rec'.bad = FALSE => rec.bad = FALSE)
  BY <1>5, RecFields DEF RecOK
<1>8. PICK t : t = IF c THEN plan.to[f] ELSE plan.from[f]
  OBVIOUS
<1>9. WantedBack(f) = t /\ FromCopy(f) = t
  BY <1>2, <1>3, <1>4, <1>6, <1>8 DEF WantedBack, FromCopy, Taken
<1>10. Lasting
  BY <1>1 DEF Lasting
<1>11. Due(plan, c, f)
  BY <1>4, <1>6 DEF Answered
<1>12. (rec.bad = FALSE /\ rec.selected = TRUE) => sel' = GoalSel(plan, c)
  BY <1>1, <1>2, <1>3, <1>4 DEF RecInv, Taken
<1>13. rec.bad = FALSE => \A g \in plan.files \ rec.files : TrueFile(g)
  BY <1>1, <1>2, <1>3, <1>4 DEF RecInv, Taken
<1>14. CASE UNCHANGED disk
  <2>1. StoredInv'
    BY <1>1, <1>4, <1>14, StoredSame DEF stored
  <2>2. rec'.bad = FALSE => \A g \in plan.files \ rec'.files : TrueFile(g)'
    <3>1. SUFFICES ASSUME rec'.bad = FALSE, NEW g \in plan.files \ rec'.files
                   PROVE  TrueFile(g)
      BY <1>1, <1>10, <1>14, TrueFileLasts
    <3>2. CASE g = f
      <4>1. disk[f] = t
        <5>1. rec' # [rec EXCEPT !.files = @ \ {f}, !.bad = TRUE]
          BY <3>1, RecFields DEF RecOK
        <5>2. disk[f] = WantedBack(f) \/ disk' = [disk EXCEPT ![f] = FromCopy(f)]
          BY <1>5, <5>1
        <5> QED BY <1>6, <1>9, <1>14, <5>2
      <4> QED BY <1>8, <1>11, <3>2, <4>1 DEF Due, Goal, TrueFile
    <3>3. CASE g # f
      BY <1>7, <1>13, <3>1, <3>3
    <3> QED BY <3>2, <3>3
  <2>3. RecInv'
    BY <1>1, <1>2, <1>3, <1>4, <1>7, <1>12, <2>2, RecGoesOn
  <2> QED BY <1>1, <1>4, <2>1, <2>3 DEF CoveredInv, AtRest
<1>15. CASE /\ disk[f] # WantedBack(f) /\ Ours(f) /\ disk' = [disk EXCEPT ![f] = FromCopy(f)]
            /\ rec' = [rec EXCEPT !.files = @ \ {f}]
  <2>1. /\ disk' = [disk EXCEPT ![f] = t] /\ disk'[f] = t
        /\ \A g \in Files \ {f} : disk'[g] = disk[g]
    BY <1>6, <1>9, <1>15
  <2>2. disk[f] \in {plan.from[f], plan.to[f]} /\ t \in {plan.from[f], plan.to[f]}
    BY <1>2, <1>3, <1>8, <1>15 DEF Ours, OtherVersion, Taken
  <2>3. Goal(plan, c, f) = t /\ Goal(plan, c, f)' = t
    BY <1>8, <2>1, <2>2 DEF Goal
  <2>4. Due(plan, c, f)' /\ TrueFile(f)'
    <3>1. Decided(f) => Decided(f)'
      BY <1>1, <1>10, DecidedLasts
    <3> QED BY <1>1, <1>11, <2>1, <2>3, <3>1 DEF Due, TrueFile
  <2>5. Answered(plan, c)'
    BY <1>1, <1>4, <1>6, <2>1, <2>4, FileWritten
  <2>6. StoredInv'
    <3>1. /\ \A j \in Ids : Ready(j)' <=> j = i
          /\ journals'[i].plan = plan /\ journals'[i].committed = c /\ Intact'
      BY <1>1, <1>3, <1>4 DEF Ready, Intact, StoredInv
    <3> QED BY <2>5, <3>1, OneJournal
  <2>7. ASSUME rec'.bad = FALSE, NEW g \in plan.files \ rec'.files
        PROVE  TrueFile(g)'
    <3>1. CASE g = f
      BY <2>4, <3>1
    <3>2. CASE g # f
      BY <1>1, <1>6, <1>7, <1>10, <1>13, <2>1, <2>7, <3>2, TrueFileLasts
    <3> QED BY <3>1, <3>2
  <2>8. RecInv'
    BY <1>1, <1>2, <1>3, <1>4, <1>7, <1>12, <2>7, RecGoesOn
  <2> QED BY <1>1, <1>4, <2>6, <2>8 DEF CoveredInv, AtRest
<1> QED BY <1>5, <1>14, <1>15

LEMMA SaveRecoverSelection ==
  ASSUME TypeOK, Shape, CoveredInv, RecoverSelection
  PROVE  CoveredInv'
<1>1. /\ up = "recovering" /\ rec.id # NoId /\ SelectionPending /\ rec.files = {}
      /\ UNCHANGED <<disk, journals, told, up, tx>>
  BY DEF RecoverSelection, ghosts
<1>2. PICK i \in Ids : i = rec.id
  BY <1>1, RecFields
<1>3. PICK plan \in Plan, c \in BOOLEAN : plan = journals[i].plan /\ c = journals[i].committed
  BY JournalFields DEF TypeOK
<1>4. /\ StoredInv /\ RecInv /\ tx.at = "none" /\ (\A j \in Ids : Ready(j) <=> j = i)
      /\ Answered(plan, c) /\ plan.files \subseteq Files
  BY <1>1, <1>2, <1>3, Recovering, PlanFields
<1>5. plan.adopts /\ rec.bad = FALSE
  BY <1>1, <1>2, <1>3, RecFields DEF SelectionPending, Taken
<1>6. \/ sel' = GoalSel(plan, c) /\ rec' = [rec EXCEPT !.selected = TRUE]
      \/ sel' = sel /\ rec' = [rec EXCEPT !.bad = TRUE]
  BY <1>2, <1>3 DEF RecoverSelection, Taken, GoalSel
<1>7. /\ rec'.id = rec.id /\ rec'.ids = rec.ids /\ rec'.files = rec.files
      /\ rec'.bad = FALSE => sel' = GoalSel(plan, c)
  BY <1>6, RecFields DEF RecOK
<1>8. StoredInv'
  <2>1. Lasting
    BY <1>1 DEF Lasting
  <2>2. \A f \in plan.files : Due(plan, c, f)'
    BY <1>1, <1>4, <2>1, DueLasts DEF Answered
  <2>3. \A f \in Files \ plan.files : TrueFile(f)'
    BY <1>1, <1>4, <2>1, TrueFileLasts DEF Answered
  <2>4. DueSel(plan, c)' /\ Keeps(plan)'
    BY <1>1, <1>4, <1>5, <2>1, DueSelLasts DEF Answered, Keeps
  <2>5. Answered(plan, c)'
    BY <2>2, <2>3, <2>4 DEF Answered
  <2>6. /\ \A j \in Ids : Ready(j)' <=> j = i
        /\ journals'[i].plan = plan /\ journals'[i].committed = c /\ Intact'
    BY <1>1, <1>3, <1>4 DEF Ready, Intact, StoredInv
  <2> QED BY <2>5, <2>6, OneJournal
<1>9. RecInv'
  <2>1. rec'.bad = FALSE => \A f \in plan.files \ rec'.files : TrueFile(f)'
    <3>1. \A f \in plan.files : TrueFile(f)
      BY <1>1, <1>2, <1>3, <1>4, <1>5 DEF RecInv, Taken
    <3>2. Lasting
      BY <1>1 DEF Lasting
    <3> QED BY <1>1, <3>1, <3>2, TrueFileLasts
  <2> QED BY <1>1, <1>2, <1>3, <1>4, <1>7, <2>1, RecGoesOn
<1> QED BY <1>1, <1>4, <1>8, <1>9 DEF CoveredInv, AtRest

LEMMA SaveEndJournal ==
  ASSUME TypeOK, Shape, CoveredInv, EndJournal, kept' = FALSE
  PROVE  CoveredInv'
<1>1. /\ up = "recovering" /\ rec.id # NoId /\ rec.files = {} /\ ~SelectionPending
      /\ journals' = [journals EXCEPT ![rec.id] =
                        IF rec.bad THEN [@ EXCEPT !.state = "unresolved"] ELSE NoJournal]
      /\ rec' = [NoRec EXCEPT !.ids = rec.ids] /\ UNCHANGED <<disk, sel, told, up, tx>>
  BY DEF EndJournal, Abort
<1>2. PICK i \in Ids : i = rec.id
  BY <1>1, RecFields
<1>3. PICK plan \in Plan, c \in BOOLEAN : plan = journals[i].plan /\ c = journals[i].committed
  BY JournalFields DEF TypeOK
<1>4. /\ StoredInv /\ RecInv /\ tx.at = "none" /\ (\A j \in Ids : Ready(j) <=> j = i)
      /\ Answered(plan, c) /\ plan.files \subseteq Files /\ i \notin rec.ids
      /\ \A f \in Files : journals[i].copies[f] = "intact"
  BY <1>1, <1>2, <1>3, Recovering, PlanFields
<1>5. /\ \A j \in Ids \ {i} : journals'[j] = journals[j]
      /\ journals'[i] = IF rec.bad THEN [journals[i] EXCEPT !.state = "unresolved"] ELSE NoJournal
  BY <1>1, <1>2 DEF TypeOK
<1>6. /\ journals'[i].state # "ready"
      /\ rec.bad => journals'[i].state = "unresolved" /\ journals'[i].plan = plan
      /\ journals'[i].state \in {"ready", "unresolved"} =>
           \A f \in Files : journals'[i].copies[f] = "intact"
  <2>1. journals[i] \in Journal
    BY DEF TypeOK
  <2> QED BY <1>3, <1>4, <1>5, <2>1, NoJournalType DEF Journal
<1>7. Lasting /\ Intact' /\ NoneReady'
  <2>1. Lasting
    BY <1>4, <1>5 DEF Lasting, Ready
  <2>2. Intact'
    BY <1>4, <1>5, <1>6 DEF Intact, StoredInv
  <2>3. NoneReady'
    BY <1>4, <1>5, <1>6 DEF NoneReady, Ready
  <2> QED BY <2>1, <2>2, <2>3
<1>8. ASSUME NEW f \in Files
      PROVE  TrueFile(f)'
  <2>1. CASE f \notin plan.files
    BY <1>1, <1>4, <1>7, <2>1, TrueFileLasts DEF Answered
  <2>2. CASE f \in plan.files /\ rec.bad
    <3>1. Due(plan, c, f)
      BY <1>4, <2>2 DEF Answered
    <3>2. Decided(f) => Decided(f)'
      BY <1>1, <1>7, DecidedLasts
    <3>3. Goal(plan, c, f) = disk[f] \/ Goal(plan, c, f) \in {plan.from[f], plan.to[f]}
      BY DEF Goal
    <3>4. told.files[f] \in {plan.from[f], plan.to[f]} => Decided(f)'
      BY <1>1, <1>6, <2>2 DEF Decided
    <3> QED BY <1>1, <3>1, <3>2, <3>3, <3>4 DEF Due, TrueFile
  <2>3. CASE f \in plan.files /\ ~rec.bad
    <3>1. TrueFile(f)
      BY <1>1, <1>2, <1>3, <1>4, <2>3, RecFields DEF RecInv, Taken
    <3> QED BY <1>1, <1>7, <3>1, TrueFileLasts
  <2> QED BY <2>1, <2>2, <2>3
<1>9. TrueSel'
  <2>1. told.sel \in {Unknown, GoalSel(plan, c)} \/ SelectionUndecided'
    BY <1>4, <1>7, SelectionLasts DEF Answered, DueSel
  <2>2. CASE ~plan.adopts
    BY <1>1, <1>4, <2>1, <2>2 DEF Answered, Keeps, GoalSel, TrueSel
  <2>3. CASE plan.adopts /\ rec.bad
    <3>1. SelectionUndecided'
      BY <1>6, <2>3 DEF SelectionUndecided
    <3> QED BY <3>1 DEF TrueSel
  <2>4. CASE plan.adopts /\ ~rec.bad
    <3>1. rec.bad = FALSE /\ rec.selected = TRUE
      BY <1>1, <1>2, <1>3, <2>4, RecFields DEF SelectionPending, Taken
    <3>2. sel = GoalSel(plan, c)
      BY <1>1, <1>2, <1>3, <1>4, <3>1 DEF RecInv, Taken
    <3> QED BY <1>1, <2>1, <3>2 DEF TrueSel
  <2> QED BY <2>2, <2>3, <2>4
<1>10. StoredInv'
  BY <1>7, <1>8, <1>9, NoJournalReady DEF AllTrue
<1>11. RecInv'
  <2>1. rec'.ids = rec.ids /\ rec'.id = NoId
    BY <1>1, NoRecType DEF NoRec
  <2>2. \A j \in rec.ids : Live(j)'
    BY <1>4, <1>5, RecFields DEF RecInv, Live
  <2> QED BY <1>7, <2>1, <2>2 DEF RecInv, NoneReady
<1> QED BY <1>1, <1>4, <1>10, <1>11 DEF CoveredInv, AtRest

----------------------------------------------------------------------------
(* The theorems *)

LEMMA SaveInit ==
  ASSUME Init
  PROVE  SaveInv
<1>1. \A i \in Ids : journals[i] = NoJournal
  BY DEF Init
<1>2. NoneReady /\ Intact
  BY <1>1, NoJournalType DEF NoneReady, Ready, Intact
<1>3. AllTrue
  BY DEF Init, AllTrue, TrueSel, TrueFile
<1>4. StoredInv
  BY <1>2, <1>3 DEF StoredInv, NoneReady, OneReady
<1>5. tx.at = "none" /\ up = "up"
  BY NoTxType DEF Init
<1> QED BY <1>2, <1>4, <1>5 DEF SaveInv, CoveredInv

LEMMA SaveNext ==
  ASSUME TypeOK, Shape, QueueInv, SaveInv, [Next]_vars
  PROVE  SaveInv'
<1>1. SUFFICES ASSUME Covered'
               PROVE  CoveredInv'
  BY DEF SaveInv
<1>2. CoveredInv /\ kept' = FALSE /\ UNCHANGED <<kept, torn, cuts, races>>
  BY <1>1, StillCovered DEF SaveInv
<1>3. CASE UNCHANGED vars
  <2>1. UNCHANGED <<stored, told, touched, up, rec, tx, req>> /\ queue' = queue
    BY <1>3 DEF vars, memory, ghosts
  <2>2. tx.at # "none" => TxInv'
    BY <1>2, <2>1, TxSame DEF CoveredInv, Holder
  <2> QED BY <1>2, <2>1, <2>2, ServerSame
<1>4. ASSUME NEW s \in Savers, Open(s) \/ Save(s) \/ Ask(s)
      PROVE  CoveredInv'
  BY <1>2, <1>4, SaveRequests
<1>5. CASE TxStep
  BY <1>2, <1>5, SaveRefuse, SaveStoreSelection, SavePlanWrite, SaveOpenJournal, SaveCheck,
     SaveReplace, SaveVerify, SaveSelect, SaveCommit, SaveClean, SaveRevert, SaveUndo,
     SavePutBack, SaveUndone DEF TxStep
<1>6. CASE RecoveryStep
  BY <1>2, <1>6, SaveStart, SaveTakeJournal, SaveRecoverFile, SaveRecoverSelection,
     SaveEndJournal, SaveListen DEF RecoveryStep
<1>7. ASSUME NEW f \in Files, Edit(f)
      PROVE  CoveredInv'
  BY <1>2, <1>7, SaveEdit
<1>8. CASE Crash
  <2>1. torn' = 0 /\ torn = 0
    BY <1>1, <1>2 DEF Covered
  <2> QED BY <1>2, <1>8, <2>1, SaveCrash
<1>9. ~PowerCut
  <2>1. cuts \in Nat /\ cuts' = cuts
    BY <1>2, BoundAssumption DEF TypeOK
  <2>2. PowerCut => cuts' = cuts + 1
    BY DEF PowerCut
  <2> QED BY <2>1, <2>2
<1> QED BY <1>3, <1>4, <1>5, <1>6, <1>7, <1>8, <1>9 DEF Next

\* The types of everything the module keeps, for every set of savers, files and
\* texts and every bound: no text gets into a file that no request, editor or
\* journal copy had, and a transaction runs only under the lock.
THEOREM TypeCorrect == Spec => [](TypeOK /\ Shape)
<1>1. Init => TypeOK /\ Shape
  BY TypeInit
<1>2. TypeOK /\ Shape /\ [Next]_vars => (TypeOK /\ Shape)'
  BY TypeNext
<1> QED BY <1>1, <1>2, PTL DEF Spec

\* The lock of a stack: a request is in its queue once, and whoever is there waits.
THEOREM QueuedOnce == Spec => []QueueInv
<1>1. Init => QueueInv
  BY QueueInit
<1>2. TypeOK /\ Shape /\ QueueInv /\ [Next]_vars => QueueInv'
  BY QueueNext
<1> QED BY <1>1, <1>2, TypeCorrect, PTL DEF Spec

\* As long as no journal was left behind, torn or lost and no edit came between a check
\* and its rename: a journal that is ready stands for what was said, without one
\* everything said is true, and the transaction and the recovery know where they are.
THEOREM SaveInvariance == Spec => []SaveInv
<1>1. Init => SaveInv
  BY SaveInit
<1>2. TypeOK /\ Shape /\ QueueInv /\ SaveInv /\ [Next]_vars => SaveInv'
  BY SaveNext
<1> QED BY <1>1, <1>2, TypeCorrect, QueuedOnce, PTL DEF Spec

LEMMA DecidedUndecided ==
  ASSUME NEW f, Decided(f)
  PROVE  Undecided(f)
BY DEF Decided, Undecided

\* writeStackFiles and recoverStackWrites: between saves and after every restart the
\* files and the selection are what the answers and the outside edits say, or a journal is
\* kept for somebody to decide, whatever failed or crashed and where.
THEOREM SavedOrUndone == Spec => []SavesSettled
<1>1. SaveInv => SavesSettled
  <2>1. SUFFICES ASSUME SaveInv, AtRest, Covered
                 PROVE  Settled
    BY DEF SavesSettled
  <2>2. AllTrue
    BY <2>1 DEF SaveInv, CoveredInv, StoredInv
  <2> QED BY <2>2, DecidedUndecided DEF Settled, AllTrue, TrueSel, TrueFile
<1> QED BY <1>1, SaveInvariance, PTL

\* The journal of stack-write.ts: at every moment, in the middle of a save or of a
\* recovery too, the text a file should have is in the file or in a copy that is there.
THEOREM NothingLost == Spec => []TextKept
<1>1. TypeOK /\ SaveInv => TextKept
  <2>1. SUFFICES ASSUME TypeOK, SaveInv, Covered, NEW f \in Files
                 PROVE  told.files[f] \in {Unknown, Missing, disk[f]} \/ HasCopy(f, told.files[f])
    BY DEF TextKept
  <2>2. StoredInv
    BY <2>1 DEF SaveInv, CoveredInv
  <2>3. Decided(f) => HasCopy(f, told.files[f])
    BY <2>2 DEF Decided, HasCopy, StoredInv, Intact
  <2>4. CASE TrueFile(f)
    BY <2>3, <2>4 DEF TrueFile
  <2>5. CASE ~TrueFile(f)
    <3>1. PICK i \in Ids : Ready(i)
      BY <2>2, <2>5 DEF StoredInv, NoneReady, AllTrue
    <3>2. PICK plan \in Plan, c \in BOOLEAN : plan = journals[i].plan /\ c = journals[i].committed
      BY JournalFields, <2>1 DEF TypeOK
    <3>3. Answered(plan, c) /\ journals[i].copies[f] = "intact"
      BY <2>2, <3>1, <3>2, ReadyAlone
    <3>4. f \in plan.files /\ Due(plan, c, f)
      BY <2>5, <3>3 DEF Answered
    <3>5. Goal(plan, c, f) = disk[f] \/ Goal(plan, c, f) \in {plan.from[f], plan.to[f]}
      BY DEF Goal
    <3>6. told.files[f] \in {plan.from[f], plan.to[f]} => HasCopy(f, told.files[f])
      BY <3>1, <3>2, <3>3, <3>4 DEF HasCopy, Ready
    <3> QED BY <2>3, <3>4, <3>5, <3>6 DEF Due
  <2> QED BY <2>4, <2>5
<1> QED BY <1>1, TypeCorrect, SaveInvariance, PTL

\* The baseline a save carries and the check before every rename: a save never commits
\* over a text, or a selection, that its editor did not read.
THEOREM NothingOverwritten == Spec => []NoLostUpdate
<1>1. TypeOK /\ Shape /\ SaveInv => NoLostUpdate
  <2>1. SUFFICES ASSUME TypeOK, Shape, SaveInv, Holds("commit"), req[Holder].kind = "save", Covered
                 PROVE  /\ tx.plan.files \subseteq {Compose, req[Holder].file}
                        /\ \A f \in tx.plan.files \ touched :
                             told.files[f] \in {Unknown, Expected(req[Holder], f)} \/ Undecided(f)
                        /\ tx.plan.adopts => tx.plan.selTo.name = req[Holder].file
                        /\ tx.plan.adopts => told.sel \in {Unknown, tx.plan.selFrom} \/ SelectionUndecided
    BY DEF NoLostUpdate
  <2>2. CoveredInv /\ tx.at = "commit"
    BY <2>1 DEF SaveInv, Holds
  <2>3. TxInv /\ Answered(tx.plan, FALSE)
    BY <2>1, <2>2, TxKnown
  <2>4. Range(tx.todo) = {}
    BY <2>2, <2>3, NothingIn DEF TxInv, EndsKnown
  <2>5. Claims(tx.plan, "commit", {}, Range(tx.written))
    BY <2>2, <2>3, <2>4 DEF TxInv
  <2>6. ASSUME NEW f \in tx.plan.files \ touched
        PROVE  told.files[f] \in {Unknown, Expected(req[Holder], f)} \/ Undecided(f)
    <3>1. disk[f] = tx.plan.to[f]
      BY <2>5 DEF Claims
    <3>2. Goal(tx.plan, FALSE, f) = tx.plan.from[f]
      BY <3>1 DEF Goal
    <3>3. tx.plan.from[f] = Expected(req[Holder], f)
      BY <2>1, <2>3 DEF TxInv, Baseline
    <3> QED BY <2>3, <3>2, <3>3, DecidedUndecided DEF Answered, Due
  <2>7. /\ tx.plan.files \subseteq {Compose, req[Holder].file}
        /\ tx.plan.adopts => tx.plan.selTo.name = req[Holder].file
    BY <2>1, <2>3 DEF TxInv, Baseline
  <2>8. told.sel \in {Unknown, tx.plan.selFrom} \/ SelectionUndecided
    BY <2>3 DEF Answered, DueSel, GoalSel
  <2> QED BY <2>6, <2>7, <2>8
<1> QED BY <1>1, TypeCorrect, SaveInvariance, PTL
=============================================================================
