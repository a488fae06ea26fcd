---------------------------- MODULE ServerProofs ----------------------------
(***************************************************************************)
(* What holds in the server for any number of stacks, files, requests,     *)
(* calls, terminals and readers: readings are current, the cache keeps its *)
(* limits, an update from git loses nothing, directories are made and      *)
(* deleted alone, calls and terminals can be ended, and the history of the *)
(* stacks is true.                                                         *)
(***************************************************************************)
EXTENDS SharedReading, BoundedCache, StackGit, StackDirectory, ChildProcess, Terminals,
        Observing, SequenceTheorems, FiniteSetTheorems, TLAPS

----------------------------------------------------------------------------
(* Numbers *)

\* Every set of numbers has a least one.
LEMMA LeastNat ==
  ASSUME NEW T \in SUBSET Nat, T # {}
  PROVE  \E x \in T : \A y \in T : x <= y
<1> DEFINE I == {1..n : n \in T}
           R == StrictSubsetOrdering(Nat)
<1>1. I \subseteq FiniteSubsetsOf(Nat) /\ I # {}
  <2> SUFFICES ASSUME NEW n \in T PROVE 1..n \in FiniteSubsetsOf(Nat)
    OBVIOUS
  <2>1. n \in Int /\ 1..n \in SUBSET Nat
    OBVIOUS
  <2>2. IsFiniteSet(1..n)
    BY <2>1, FS_Interval
  <2> QED BY <2>1, <2>2 DEF FiniteSubsetsOf
<1>2. IsWellFoundedOn(R, FiniteSubsetsOf(Nat))
  BY FS_StrictSubsetOrderingWellFounded
<1>3. \A x, y \in Nat : x < y => <<1..x, 1..y>> \in R
  <2> SUFFICES ASSUME NEW x \in Nat, NEW y \in Nat, x < y PROVE <<1..x, 1..y>> \in R
    OBVIOUS
  <2>1. y \in 1..y /\ y \notin 1..x
    OBVIOUS
  <2>2. 1..x \in SUBSET Nat /\ 1..y \in SUBSET Nat /\ 1..x \subseteq 1..y /\ 1..x # 1..y
    BY <2>1
  <2> QED BY <2>2 DEF StrictSubsetOrdering
<1>4. PICK i \in I : \A j \in I : ~ (<<j, i>> \in R)
  <2> HIDE DEF I, R
  <2> QED BY <1>1, <1>2, WFMin
<1>5. PICK x \in T : i = 1..x
  OBVIOUS
<1>6. \A y \in T : 1..y \in I
  OBVIOUS
<1> HIDE DEF R, I
<1>7. \A y \in T : ~ (y < x)
  BY <1>3, <1>4, <1>5, <1>6
<1> QED BY <1>7

\* What the models take as the least of some numbers is the least.
LEMMA LeastIs ==
    ASSUME NEW S \in SUBSET Nat, S # {}
    PROVE  Min(S) \in S /\ \A n \in S : Min(S) <= n
BY LeastNat DEF Min

----------------------------------------------------------------------------
(* Readings: generations order what is kept and what is waited for *)

\* What is newer than the last invalidation: a reading that began after it, which is
\* what its generation tells, and the reading that newcomers join.
ReadingOrdered ==
    /\ floor <= version
    /\ \A r \in Reads : reads[r].gen <= generation
    /\ \A r \in Reads : reads[r].state = "running" /\ reads[r].gen = generation =>
                            reads[r].from >= floor
    /\ joinable # NoRead => /\ reads[joinable].state = "running"
                            /\ reads[joinable].gen = generation

\* Who waits for a reading waits for one that began no earlier than what it may get.
WaitsOrdered ==
    \A c \in Callers :
        asked[c].waits # NoRead => /\ reads[asked[c].waits].state = "running"
                                   /\ reads[asked[c].waits].from >= asked[c].floor

ReadingInv ==
    ReadingTypeOK /\ ReadingOrdered /\ WaitsOrdered /\ AnswerCurrent /\ KeptCurrent

\* The constants: sets of numbers, closed under the steps of the counters.
LEMMA ReadingConstants ==
    /\ NoRead \notin Reads
    /\ 0 \in Versions /\ 1 \in Versions /\ Versions \subseteq Nat
    /\ 0 \in 0..MaxChanges /\ 0..MaxChanges \subseteq Nat
    /\ \A n \in Versions : n <= MaxChanges => n + 1 \in Versions
    /\ \A n \in Nat, m \in Versions : n <= m => n \in Versions
    /\ \A n \in 0..MaxChanges : n < MaxChanges => n + 1 \in 0..MaxChanges
BY ReadingBoundsAssumption DEF NoRead, Reads, Versions

\* The fields as numbers, for arithmetic.
LEMMA ReadingNumbers ==
  ASSUME ReadingTypeOK
  PROVE  /\ version \in Nat /\ value \in Nat /\ floor \in Nat /\ generation \in Nat
         /\ \A r \in Reads : /\ reads[r] \in ReadRecord /\ reads[r].gen \in Nat
                             /\ reads[r].from \in Nat
         /\ \A c \in Callers : /\ asked[c] \in AskedRecord /\ asked[c].got \in Nat
                               /\ asked[c].floor \in Nat
                               /\ asked[c].waits \in Reads \cup {NoRead}
<1>1. \A r \in Reads : reads[r] \in ReadRecord
  BY DEF ReadingTypeOK
<1>2. \A c \in Callers : asked[c] \in AskedRecord
  BY DEF ReadingTypeOK
<1> QED BY <1>1, <1>2, ReadingConstants DEF ReadingTypeOK, ReadRecord, AskedRecord

\* Nothing is kept, nobody asks, no reading runs.
LEMMA ReadingInitInv == ReadingInit => ReadingInv
<1> SUFFICES ASSUME ReadingInit PROVE ReadingInv
  OBVIOUS
<1>1. NotStarted \in ReadRecord
  BY ReadingConstants DEF NotStarted, ReadRecord
<1>2. reads \in [Reads -> ReadRecord] /\ \A r \in Reads : reads[r] = NotStarted
  BY <1>1 DEF ReadingInit
<1>3. [waits |-> NoRead, floor |-> 0, got |-> 0] \in AskedRecord
  BY ReadingConstants DEF AskedRecord
<1>4. asked \in [Callers -> AskedRecord]
  BY <1>3 DEF ReadingInit
<1>f. fresh \in BOOLEAN
  BY Zenon DEF ReadingInit
<1>5. ReadingTypeOK
  BY <1>2, <1>4, <1>f, ReadingConstants DEF ReadingInit, ReadingTypeOK
<1>6. ReadingOrdered
  BY <1>2 DEF ReadingInit, ReadingOrdered, NotStarted
<1>7. WaitsOrdered /\ AnswerCurrent /\ KeptCurrent
  BY DEF ReadingInit, WaitsOrdered, AnswerCurrent, KeptCurrent
<1> QED BY <1>5, <1>6, <1>7 DEF ReadingInv

\* What a caller that waits is.
LEMMA WaitsType ==
  ASSUME ReadingTypeOK, NEW c \in Callers, NEW r \in Reads, Waits(c, r)
  PROVE  /\ asked' \in [Callers -> AskedRecord]
         /\ asked'[c].waits = r /\ asked'[c].floor = floor /\ asked'[c].got = 0
         /\ \A d \in Callers : d # c => asked'[d] = asked[d]
<1>1. [waits |-> r, floor |-> floor, got |-> 0] \in AskedRecord
  BY ReadingConstants DEF ReadingTypeOK, AskedRecord
<1> QED BY <1>1 DEF ReadingTypeOK, Waits

\* get (shared-reading.ts:30): who is given the kept value, joins a reading or starts one
\* gets nothing older than the floor at that moment.
LEMMA GetInv == ASSUME ReadingInv, NEW c \in Callers, Get(c) PROVE ReadingInv'
<1>0. ReadingTypeOK /\ ReadingOrdered /\ WaitsOrdered /\ AnswerCurrent /\ KeptCurrent
  BY DEF ReadingInv
<1>s. UNCHANGED <<version, value, fresh, generation, floor>>
  BY DEF Get
<1>1. CASE /\ value # 0 /\ fresh
           /\ asked' = [asked EXCEPT ![c] =
               [waits |-> NoRead, floor |-> floor, got |-> value]]
           /\ UNCHANGED <<joinable, reads>>
  <2>1. /\ asked' \in [Callers -> AskedRecord]
        /\ asked'[c].waits = NoRead /\ asked'[c].floor = floor /\ asked'[c].got = value
        /\ \A d \in Callers : d # c => asked'[d] = asked[d]
    BY <1>0, <1>1 DEF ReadingTypeOK, AskedRecord
  <2> QED BY <2>1, <1>0, <1>1, <1>s DEF ReadingInv, ReadingTypeOK, ReadingOrdered, WaitsOrdered,
                                     AnswerCurrent, KeptCurrent
<1>2. CASE joinable # NoRead /\ Waits(c, joinable) /\ UNCHANGED <<joinable, reads>>
  <2>1. joinable \in Reads
    BY <1>0, <1>2 DEF ReadingTypeOK
  <2>2. reads[joinable].from >= floor /\ reads[joinable].state = "running"
    BY <1>0, <1>2, <2>1 DEF ReadingOrdered
  <2> QED BY <2>1, <2>2, WaitsType, <1>0, <1>2, <1>s DEF ReadingInv, ReadingTypeOK, ReadingOrdered,
                                     WaitsOrdered, AnswerCurrent, KeptCurrent
<1>3. CASE \E r \in Reads :
             /\ reads[r].state = "none"
             /\ reads' = [reads EXCEPT ![r] =
                  [gen |-> generation, from |-> version, state |-> "running"]]
             /\ joinable' = r /\ Waits(c, r)
  <2>1. PICK r \in Reads : /\ reads[r].state = "none"
                           /\ reads' = [reads EXCEPT ![r] =
                                [gen |-> generation, from |-> version, state |-> "running"]]
                           /\ joinable' = r /\ Waits(c, r)
    BY <1>3
  <2>2. /\ reads' \in [Reads -> ReadRecord]
        /\ reads'[r].gen = generation /\ reads'[r].from = version
        /\ reads'[r].state = "running"
        /\ \A e \in Reads : e # r => reads'[e] = reads[e]
    BY <1>0, <2>1 DEF ReadingTypeOK, ReadRecord
  <2>3. ReadingOrdered'
    BY <1>0, <1>s, <2>1, <2>2 DEF ReadingTypeOK, ReadingOrdered
  <2>4. WaitsOrdered'
    BY <1>0, <1>s, <2>1, <2>2, WaitsType DEF ReadingTypeOK, WaitsOrdered, ReadingOrdered
  <2> QED BY <2>1, <2>2, <2>3, <2>4, WaitsType, <1>0, <1>s DEF ReadingInv, ReadingTypeOK,
                                     AnswerCurrent, KeptCurrent
<1> QED BY <1>1, <1>2, <1>3 DEF Get

\* A reading is over: nobody waits for it any more, nobody joins it.
LEMMA OverInv ==
  ASSUME ReadingInv, NEW r \in Reads, NEW v \in Versions, Answered(r, v), Over(r),
         reads[r].state = "running", v = 0 \/ v >= reads[r].from,
         UNCHANGED <<version, generation, floor>>,
         value' \in Versions, fresh' \in BOOLEAN
  PROVE  ReadingTypeOK' /\ ReadingOrdered' /\ WaitsOrdered' /\ AnswerCurrent'
<1> USE DEF ReadingInv
<1>1. ReadingTypeOK'
  <2>1. asked' \in [Callers -> AskedRecord]
    BY DEF ReadingTypeOK, Answered, AskedRecord
  <2>2. reads' \in [Reads -> ReadRecord] /\ joinable' \in Reads \cup {NoRead}
    BY DEF ReadingTypeOK, Over, ReadRecord
  <2> QED BY <2>1, <2>2 DEF ReadingTypeOK
<1>2. ReadingOrdered'
  BY DEF ReadingTypeOK, ReadingOrdered, Over
<1>o. /\ reads'[r].from = reads[r].from
      /\ \A e \in Reads : e # r => reads'[e] = reads[e]
  BY DEF ReadingTypeOK, Over, ReadRecord
<1>a. \A c \in Callers :
        \/ asked[c].waits # r /\ asked'[c] = asked[c]
        \/ /\ asked[c].waits = r /\ asked'[c].waits = NoRead
           /\ asked'[c].floor = asked[c].floor /\ asked'[c].got = v
  BY ReadingNumbers DEF Answered, AskedRecord
<1>3. WaitsOrdered'
  BY <1>o, <1>a, ReadingNumbers DEF WaitsOrdered
<1>4. AnswerCurrent'
  <2> SUFFICES ASSUME NEW c \in Callers, asked'[c].got # 0
               PROVE  asked'[c].got >= asked'[c].floor
    BY DEF AnswerCurrent
  <2>1. CASE asked'[c] = asked[c]
    BY <2>1 DEF AnswerCurrent
  <2>2. CASE /\ asked[c].waits = r
             /\ asked'[c].floor = asked[c].floor /\ asked'[c].got = v
    <3>1. reads[r].from >= asked[c].floor
      BY <2>2, ReadingConstants DEF WaitsOrdered
    <3> QED BY <2>2, <3>1, ReadingNumbers, ReadingConstants
  <2> QED BY <2>1, <2>2, <1>a
<1> QED BY <1>1, <1>2, <1>3, <1>4

\* A reading that ends is kept only when its generation is the current one.
LEMMA ReadEndsInv == ASSUME ReadingInv, NEW r \in Reads, ReadEnds(r) PROVE ReadingInv'
<1> USE DEF ReadingInv
<1>1. PICK v \in reads[r].from..version :
        /\ Answered(r, v)
        /\ IF reads[r].gen = generation THEN value' = v /\ fresh' = TRUE
           ELSE UNCHANGED <<value, fresh>>
  BY DEF ReadEnds
<1>2. v \in Versions /\ v >= reads[r].from
  BY ReadingNumbers, ReadingConstants DEF ReadingTypeOK
<1>3. ReadingTypeOK' /\ ReadingOrdered' /\ WaitsOrdered' /\ AnswerCurrent'
  BY <1>1, <1>2, OverInv DEF ReadEnds, ReadingTypeOK
<1>4. KeptCurrent'
  BY <1>1, <1>2, ReadingNumbers DEF ReadEnds, ReadingOrdered, KeptCurrent
<1> QED BY <1>3, <1>4

\* A failure answers with nothing and is not kept.
LEMMA ReadFailsInv == ASSUME ReadingInv, NEW r \in Reads, ReadFails(r) PROVE ReadingInv'
<1> USE DEF ReadingInv
<1>f. value' \in Versions /\ fresh' \in BOOLEAN
  BY Zenon DEF ReadFails, ReadingTypeOK
<1>1. ReadingTypeOK' /\ ReadingOrdered' /\ WaitsOrdered' /\ AnswerCurrent'
  BY <1>f, OverInv, ReadingConstants DEF ReadFails
<1>2. KeptCurrent'
  BY DEF ReadFails, KeptCurrent
<1> QED BY <1>1, <1>2

\* Time, changes of others, and the invalidation, which moves the floor up and leaves no
\* reading to join.
LEMMA ReadingExpiresInv == ASSUME ReadingInv, ReadingExpires PROVE ReadingInv'
BY DEF ReadingInv, ReadingTypeOK, ReadingOrdered, WaitsOrdered, AnswerCurrent, KeptCurrent,
       ReadingExpires

\* A change nobody announces moves nothing that is promised.
LEMMA ChangesInv == ASSUME ReadingInv, Changes PROVE ReadingInv'
BY ReadingConstants, ReadingNumbers DEF ReadingInv, ReadingTypeOK, ReadingOrdered, WaitsOrdered, AnswerCurrent, KeptCurrent,
       Changes

\* invalidate (shared-reading.ts:59): the kept value goes and later callers start anew.
LEMMA InvalidateInv == ASSUME ReadingInv, Invalidate PROVE ReadingInv'
<1> USE DEF ReadingInv, ReadingTypeOK, Invalidate
<1>f. fresh' \in BOOLEAN
  BY Zenon
<1>1. ReadingTypeOK'
  BY <1>f, ReadingConstants
<1>2. ReadingOrdered'
  BY ReadingNumbers DEF ReadingOrdered
<1>3. WaitsOrdered' /\ AnswerCurrent' /\ KeptCurrent'
  BY DEF WaitsOrdered, AnswerCurrent, KeptCurrent
<1> QED BY <1>1, <1>2, <1>3

\* The inductive invariant: types, the order of generations and of what was read.
THEOREM ReadingInvariance == ReadingSpec => []ReadingInv
<1>1. ReadingInit => ReadingInv
  BY ReadingInitInv
<1>2. ReadingInv /\ [ReadingNext]_readingVars => ReadingInv'
  <2> SUFFICES ASSUME ReadingInv, [ReadingNext]_readingVars PROVE ReadingInv'
    OBVIOUS
  <2>1. CASE \E c \in Callers : Get(c)
    BY <2>1, GetInv
  <2>2. CASE \E r \in Reads : ReadEnds(r) \/ ReadFails(r)
    BY <2>2, ReadEndsInv, ReadFailsInv
  <2>3. CASE ReadingExpires \/ Changes \/ Invalidate
    BY <2>3, ReadingExpiresInv, ChangesInv, InvalidateInv
  <2>4. CASE UNCHANGED readingVars
    BY <2>4 DEF readingVars, ReadingInv, ReadingTypeOK, ReadingOrdered, WaitsOrdered,
       AnswerCurrent, KeptCurrent
  <2> QED BY <2>1, <2>2, <2>3, <2>4 DEF ReadingNext
<1> QED BY <1>1, <1>2, PTL DEF ReadingSpec

\* Nobody who asks after an invalidation, and nothing kept, is older than it
\* (shared-reading.ts:30-64).
THEOREM AnsweredCurrently == ReadingSpec => []ReadingsCurrent
<1>1. ReadingInv => ReadingsCurrent
  BY DEF ReadingInv, ReadingsCurrent
<1> QED BY <1>1, ReadingInvariance, PTL

----------------------------------------------------------------------------
(* The bounded cache *)

\* Entries of different keys, none too large and none that was never alive.
OfDifferentKeys(entries) ==
    \A i, j \in 1..Len(entries) : i # j => entries[i].key # entries[j].key
Admitted(e) == e.bytes <= MaxBytes /\ e.expires # 0
Accounted(state) ==
    /\ state.items \in Seq(Entry) /\ OfDifferentKeys(state.items)
    /\ \A e \in ToSet(state.items) : Admitted(e)
    /\ state.used = Bytes(ToSet(state.items))
    /\ state.used <= MaxBytes /\ Len(state.items) <= MaxEntries
DeadlineSet(state) ==
    /\ state.timer \in 0..(MaxTime + Ttl)
    /\ state.items # <<>> => /\ state.timer # 0
                              /\ \A e \in ToSet(state.items) : state.timer <= e.expires
CacheInv == Accounted(State) /\ DeadlineSet(State) /\ time \in 1..MaxTime

----------------------------------------------------------------------------
(* Bytes of sets of entries *)

LEMMA EntriesFinite ==
    ASSUME NEW entries \in Seq(Entry)
    PROVE  IsFiniteSet(ToSet(entries)) /\ ToSet(entries) \subseteq Entry
<1> DEFINE n == Len(entries)
<1>1. n \in Nat /\ DOMAIN entries = 1..n /\ \A i \in 1..n : entries[i] \in Entry
  OBVIOUS
<1>2. IsFiniteSet(1..n)
  BY <1>1, FS_Interval
<1>3. entries \in Surjection(1..n, ToSet(entries))
  BY <1>1 DEF Surjection, ToSet
<1>4. QED BY <1>1, <1>2, <1>3, FS_Surjection DEF ToSet

LEMMA PartsFinite ==
    ASSUME NEW E \in SUBSET Entry, IsFiniteSet(E)
    PROVE  IsFiniteSet(Parts(E)) /\ Bytes(E) \in Nat
<1> DEFINE keys == {e.key : e \in E}
           f == [e \in E |-> e.key]
<1>1. f \in Surjection(E, keys)
  BY DEF Surjection
<1>2. IsFiniteSet(keys)
  <2> HIDE DEF f, keys
  <2> QED BY <1>1, FS_Surjection
<1>3. IsFiniteSet(1..MaxBytes)
  BY CacheAssumption, FS_Interval
<1>4. IsFiniteSet(keys \X (1..MaxBytes))
  <2> HIDE DEF keys
  <2> QED BY <1>2, <1>3, FS_Product
<1>5. Parts(E) \subseteq keys \X (1..MaxBytes)
  BY DEF Parts
<1>6. QED BY <1>4, <1>5, FS_Subset, FS_CardinalityType DEF Bytes

\* Entries of different keys share no bytes.
LEMMA BytesAdd ==
    ASSUME NEW D \in SUBSET Entry, NEW E \in SUBSET Entry, IsFiniteSet(D), IsFiniteSet(E),
           \A d \in D, e \in E : d.key # e.key
    PROVE  Bytes(D \cup E) = Bytes(D) + Bytes(E)
<1>1. Parts(D \cup E) = Parts(D) \cup Parts(E) /\ Parts(D) \cap Parts(E) = {}
  BY DEF Parts
<1>2. IsFiniteSet(Parts(D)) /\ IsFiniteSet(Parts(E)) /\ Bytes(D) \in Nat /\ Bytes(E) \in Nat
  BY PartsFinite
<1>3. Cardinality(Parts(D) \cup Parts(E)) = Cardinality(Parts(D)) + Cardinality(Parts(E)) - 0
  BY <1>1, <1>2, FS_Union, FS_EmptySet
<1>4. Bytes(D \cup E) = Cardinality(Parts(D) \cup Parts(E))
  BY <1>1, Zenon DEF Bytes
<1>5. Bytes(D \cup E) = Bytes(D) + Bytes(E) - 0
  BY <1>3, <1>4 DEF Bytes
<1>6. QED BY <1>2, <1>5

LEMMA BytesOfOne ==
    ASSUME NEW e \in Entry, e.bytes <= MaxBytes
    PROVE  Bytes({e}) = e.bytes /\ IsFiniteSet({e})
<1>1. e.key \in CacheKeys /\ e.bytes \in Nat
  BY CacheAssumption DEF Entry, Sizes
<1>2. Parts({e}) = {e.key} \X (1..e.bytes)
  BY <1>1, CacheAssumption DEF Parts
<1> DEFINE n == e.bytes
<1>3. IsFiniteSet(1..n) /\ Cardinality(1..n) = n
  <2>1. n \in Nat
    BY <1>1
  <2> HIDE DEF n
  <2>2. Cardinality(1..n) = IF 1 > n THEN 0 ELSE n - 1 + 1
    BY <2>1, FS_Interval
  <2>3. QED BY <2>1, <2>2, FS_Interval
<1>4. IsFiniteSet({e.key}) /\ Cardinality({e.key}) = 1 /\ IsFiniteSet({e})
  BY FS_Singleton
<1>5. Cardinality({e.key} \X (1..e.bytes)) = 1 * e.bytes
  <2> DEFINE S == {e.key}
             T == 1..e.bytes
  <2>1. IsFiniteSet(S) /\ IsFiniteSet(T) /\ Cardinality(S) = 1 /\ Cardinality(T) = n
    BY <1>3, <1>4
  <2> HIDE DEF S, T
  <2>2. Cardinality(S \X T) = Cardinality(S) * Cardinality(T)
    BY <2>1, FS_Product
  <2>3. Cardinality(S \X T) = 1 * n
    BY <2>1, <2>2
  <2>4. QED BY <2>3 DEF S, T
<1>6. Bytes({e}) = Cardinality({e.key} \X (1..e.bytes))
  <2>1. Bytes({e}) = Cardinality(Parts({e}))
    BY DEF Bytes
  <2>2. QED BY <1>2, <2>1, Zenon
<1>7. QED BY <1>1, <1>4, <1>5, <1>6

LEMMA BytesOfNone == Bytes({}) = 0
<1>1. Parts({}) = {}
  BY DEF Parts
<1>2. QED BY <1>1, FS_EmptySet DEF Bytes

----------------------------------------------------------------------------
(* Places in the order of use *)

LEMMA RemovedAt ==
    ASSUME NEW entries \in Seq(Entry), NEW p \in 1..Len(entries)
    PROVE  LET rest == RemoveAt(entries, p) IN
           /\ rest \in Seq(Entry) /\ Len(rest) = Len(entries) - 1
           /\ \A i \in 1..Len(rest) : rest[i] = IF i < p THEN entries[i] ELSE entries[i + 1]
<1> DEFINE n == Len(entries)
           before == SubSeq(entries, 1, p - 1)
           after == SubSeq(entries, p + 1, n)
<1>1. n \in Nat /\ p \in 1..n /\ \A i \in 1..n : entries[i] \in Entry
  OBVIOUS
<1>2. /\ before \in Seq(Entry) /\ Len(before) = p - 1
      /\ \A i \in 1..(p - 1) : before[i] = entries[i]
  BY <1>1, SubSeqProperties
<1>3. /\ after \in Seq(Entry) /\ Len(after) = n - p
      /\ \A i \in 1..(n - p) : after[i] = entries[p + i]
  BY <1>1, SubSeqProperties
<1>4. /\ before \o after \in Seq(Entry) /\ Len(before \o after) = n - 1
      /\ \A i \in 1..(n - 1) :
           (before \o after)[i] = IF i <= p - 1 THEN before[i] ELSE after[i - (p - 1)]
  <2> HIDE DEF before, after
  <2>1. /\ before \o after \in Seq(Entry) /\ Len(before \o after) = Len(before) + Len(after)
        /\ \A i \in 1..(Len(before) + Len(after)) :
             (before \o after)[i] = IF i <= Len(before) THEN before[i] ELSE after[i - Len(before)]
    BY <1>2, <1>3, ConcatProperties
  <2>2. Len(before) + Len(after) = n - 1
    BY <1>1, <1>2, <1>3
  <2> QED BY <1>2, <2>1, <2>2
<1>5. ASSUME NEW i \in 1..(n - 1)
      PROVE  (before \o after)[i] = IF i < p THEN entries[i] ELSE entries[i + 1]
  <2> HIDE DEF before, after
  <2>1. CASE i < p
    BY <1>1, <1>2, <1>4, <2>1
  <2>2. CASE ~(i < p)
    <3>1. i - (p - 1) \in 1..(n - p) /\ p + (i - (p - 1)) = i + 1 /\ ~(i <= p - 1)
      BY <1>1, <2>2
    <3>2. QED BY <1>3, <1>4, <2>2, <3>1
  <2>3. QED BY <2>1, <2>2
<1>6. RemoveAt(entries, p) = before \o after
  BY DEF RemoveAt
<1> HIDE DEF before, after
<1>7. QED BY <1>4, <1>5, <1>6

\* One entry less, in the old order.
LEMMA RemovedOne ==
    ASSUME NEW entries \in Seq(Entry), OfDifferentKeys(entries), NEW p \in 1..Len(entries)
    PROVE  LET rest == RemoveAt(entries, p) IN
           /\ rest \in Seq(Entry) /\ Len(rest) = Len(entries) - 1 /\ OfDifferentKeys(rest)
           /\ ToSet(rest) = {e \in ToSet(entries) : e.key # entries[p].key}
           /\ ToSet(entries) = ToSet(rest) \cup {entries[p]}
<1> DEFINE rest == RemoveAt(entries, p)
<1>1. /\ rest \in Seq(Entry) /\ Len(rest) = Len(entries) - 1
      /\ \A i \in 1..Len(rest) : rest[i] = IF i < p THEN entries[i] ELSE entries[i + 1]
  BY RemovedAt
<1> HIDE DEF rest
<1> DEFINE n == Len(entries)
<1>2. /\ n \in Nat /\ p \in 1..n /\ Len(rest) = n - 1 /\ DOMAIN rest = 1..(n - 1)
      /\ DOMAIN entries = 1..n
  BY <1>1
<1>3. ASSUME NEW i \in 1..n, i # p PROVE \E j \in 1..(n - 1) : rest[j] = entries[i]
  <2>1. CASE i < p
    BY <1>1, <1>2, <2>1
  <2>2. CASE p < i
    <3>1. i - 1 \in 1..(n - 1) /\ ~(i - 1 < p) /\ (i - 1) + 1 = i
      BY <1>2, <2>2
    <3>2. QED BY <1>1, <1>2, <3>1
  <2>3. QED BY <1>2, <1>3, <2>1, <2>2
<1>4. ASSUME NEW j \in 1..(n - 1)
      PROVE  \E i \in 1..n : i # p /\ rest[j] = entries[i] /\ i = IF j < p THEN j ELSE j + 1
  BY <1>1, <1>2
<1> HIDE DEF n
<1>5. OfDifferentKeys(rest)
  <2> SUFFICES ASSUME NEW i \in 1..(n - 1), NEW j \in 1..(n - 1), i # j
               PROVE  rest[i].key # rest[j].key
    BY <1>2 DEF OfDifferentKeys
  <2>1. PICK x \in 1..n : rest[i] = entries[x] /\ x = IF i < p THEN i ELSE i + 1
    BY <1>4
  <2>2. PICK y \in 1..n : rest[j] = entries[y] /\ y = IF j < p THEN j ELSE j + 1
    BY <1>4
  <2>3. x # y
    BY <1>2, <2>1, <2>2
  <2>4. QED BY <2>1, <2>2, <2>3 DEF OfDifferentKeys, n
<1>6. ToSet(rest) = {entries[i] : i \in (1..n) \ {p}}
  <2>1. ToSet(rest) = {rest[j] : j \in 1..(n - 1)}
    BY <1>2 DEF ToSet
  <2>2. \A j \in 1..(n - 1) : \E i \in (1..n) \ {p} : rest[j] = entries[i]
    BY <1>4
  <2>3. \A i \in (1..n) \ {p} : \E j \in 1..(n - 1) : rest[j] = entries[i]
    BY <1>3
  <2>4. ToSet(rest) \subseteq {entries[i] : i \in (1..n) \ {p}}
    BY <2>1, <2>2
  <2>5. {entries[i] : i \in (1..n) \ {p}} \subseteq ToSet(rest)
    BY <2>1, <2>3
  <2>6. QED BY <2>4, <2>5
<1>7. ToSet(entries) = {entries[i] : i \in 1..n}
  BY <1>2 DEF ToSet
<1>8. \A i \in 1..n : i # p <=> entries[i].key # entries[p].key
  BY <1>2 DEF OfDifferentKeys, n
<1>9. ToSet(rest) = {e \in ToSet(entries) : e.key # entries[p].key}
  BY <1>6, <1>7, <1>8
<1>10. ToSet(entries) = ToSet(rest) \cup {entries[p]}
  BY <1>2, <1>6, <1>7
<1>11. Len(rest) = Len(entries) - 1
  BY <1>1
<1>12. QED BY <1>1, <1>5, <1>9, <1>10, <1>11 DEF rest

\* What is left of a prefix and the rest after it.
LEMMA Halves ==
    ASSUME NEW entries \in Seq(Entry), OfDifferentKeys(entries), NEW n \in 0..Len(entries)
    PROVE  LET gone == SubSeq(entries, 1, n)
               left == SubSeq(entries, n + 1, Len(entries))
           IN /\ gone \in Seq(Entry) /\ left \in Seq(Entry) /\ Len(left) = Len(entries) - n
              /\ OfDifferentKeys(left)
              /\ ToSet(entries) = ToSet(gone) \cup ToSet(left)
              /\ \A d \in ToSet(gone), e \in ToSet(left) : d.key # e.key
<1> DEFINE m == Len(entries)
           gone == SubSeq(entries, 1, n)
           left == SubSeq(entries, n + 1, m)
<1>1. m \in Nat /\ n \in 0..m /\ DOMAIN entries = 1..m /\ \A i \in 1..m : entries[i] \in Entry
  OBVIOUS
<1>2. /\ gone \in Seq(Entry) /\ Len(gone) = n /\ \A i \in 1..n : gone[i] = entries[i]
  BY <1>1, SubSeqProperties
<1>3. /\ left \in Seq(Entry) /\ Len(left) = m - n
      /\ \A i \in 1..(m - n) : left[i] = entries[n + i]
  <2>1. left = [i \in 1..(m - n) |-> entries[n + i]]
    BY <1>1
  <2>2. \A i \in 1..(m - n) : n + i \in 1..m
    BY <1>1
  <2>3. m - n \in Nat
    BY <1>1
  <2> HIDE DEF left, m
  <2>4. left \in Seq(Entry) /\ Len(left) = m - n
    BY <1>1, <2>1, <2>2, <2>3
  <2>5. QED BY <2>1, <2>4
<1> HIDE DEF gone, left
<1>4. ToSet(gone) = {entries[i] : i \in 1..n}
  BY <1>2 DEF ToSet
<1>5. ToSet(left) = {entries[i] : i \in (n + 1)..m}
  <2>1. ToSet(left) = {left[j] : j \in 1..(m - n)}
    <3>1. DOMAIN left = 1..(m - n)
      BY <1>1, <1>3
    <3>2. QED BY <3>1 DEF ToSet
  <2>2. \A j \in 1..(m - n) : n + j \in (n + 1)..m /\ left[j] = entries[n + j]
    BY <1>1, <1>3
  <2>3. ASSUME NEW i \in (n + 1)..m PROVE \E j \in 1..(m - n) : left[j] = entries[i]
    <3>1. i - n \in 1..(m - n) /\ n + (i - n) = i
      BY <1>1
    <3>2. QED BY <1>3, <3>1
  <2>4. ToSet(left) \subseteq {entries[i] : i \in (n + 1)..m}
    BY <2>1, <2>2
  <2>5. {entries[i] : i \in (n + 1)..m} \subseteq ToSet(left)
    BY <2>1, <2>3
  <2>6. QED BY <2>4, <2>5
<1>6. ToSet(entries) = {entries[i] : i \in 1..m}
  BY <1>1 DEF ToSet
<1>7. 1..m = (1..n) \cup ((n + 1)..m) /\ (1..n) \cap ((n + 1)..m) = {}
  BY <1>1
<1>8. \A i, j \in 1..m : i # j => entries[i].key # entries[j].key
  BY DEF OfDifferentKeys
<1> HIDE DEF m
<1>9. ToSet(entries) = ToSet(gone) \cup ToSet(left)
  BY <1>4, <1>5, <1>6, <1>7
<1>10. \A d \in ToSet(gone), e \in ToSet(left) : d.key # e.key
  BY <1>4, <1>5, <1>7, <1>8
<1>11. OfDifferentKeys(left)
  <2> SUFFICES ASSUME NEW i \in 1..(m - n), NEW j \in 1..(m - n), i # j
               PROVE  left[i].key # left[j].key
    BY <1>3 DEF OfDifferentKeys
  <2>1. n + i \in 1..m /\ n + j \in 1..m /\ n + i # n + j
    BY <1>1
  <2>2. QED BY <1>3, <1>8, <2>1
<1>12. QED BY <1>2, <1>3, <1>9, <1>10, <1>11 DEF gone, left, m

\* An entry of a new key is used last.
LEMMA AddedOne ==
    ASSUME NEW entries \in Seq(Entry), OfDifferentKeys(entries), NEW e \in Entry,
           \A d \in ToSet(entries) : d.key # e.key
    PROVE  LET all == Append(entries, e) IN
           /\ all \in Seq(Entry) /\ Len(all) = Len(entries) + 1 /\ OfDifferentKeys(all)
           /\ ToSet(all) = ToSet(entries) \cup {e} /\ all # <<>>
<1> DEFINE n == Len(entries)
           all == Append(entries, e)
<1>1. n \in Nat /\ DOMAIN entries = 1..n
  OBVIOUS
<1>2. /\ all \in Seq(Entry) /\ Len(all) = n + 1
      /\ all[n + 1] = e /\ \A i \in 1..n : all[i] = entries[i]
  OBVIOUS
<1>3. \A i \in 1..n : entries[i] \in ToSet(entries)
  BY <1>1 DEF ToSet
<1>4. 1..(n + 1) = (1..n) \cup {n + 1} /\ DOMAIN all = 1..(n + 1)
  BY <1>1, <1>2
<1> HIDE DEF all
<1>5. ToSet(all) = {entries[i] : i \in 1..n} \cup {e}
  <2>1. ToSet(all) = {all[i] : i \in 1..(n + 1)}
    BY <1>4 DEF ToSet
  <2> HIDE DEF n
  <2>2. QED BY <1>2, <1>4, <2>1
<1>6. ToSet(entries) = {entries[i] : i \in 1..n}
  BY <1>1 DEF ToSet
<1>7. OfDifferentKeys(all)
  <2> SUFFICES ASSUME NEW i \in 1..(n + 1), NEW j \in 1..(n + 1), i # j
               PROVE  all[i].key # all[j].key
    BY <1>2 DEF OfDifferentKeys
  <2>1. CASE i \in 1..n /\ j \in 1..n
    BY <1>2, <2>1 DEF OfDifferentKeys
  <2>2. CASE i = n + 1 /\ j \in 1..n
    BY <1>2, <1>3, <2>2
  <2>3. CASE j = n + 1 /\ i \in 1..n
    BY <1>2, <1>3, <2>3
  <2>4. QED BY <1>4, <2>1, <2>2, <2>3
<1>8. all # <<>>
  BY <1>1, <1>2
<1>9. QED BY <1>2, <1>5, <1>6, <1>7, <1>8 DEF all

----------------------------------------------------------------------------
(* The operations *)

LEMMA RemovedBytes ==
    ASSUME NEW entries \in Seq(Entry), OfDifferentKeys(entries), NEW p \in 1..Len(entries),
           \A e \in ToSet(entries) : Admitted(e)
    PROVE  /\ Bytes(ToSet(entries)) = Bytes(ToSet(RemoveAt(entries, p))) + entries[p].bytes
           /\ Bytes(ToSet(RemoveAt(entries, p))) \in Nat /\ entries[p].bytes \in Nat
<1> DEFINE rest == RemoveAt(entries, p)
<1>1. /\ rest \in Seq(Entry)
      /\ ToSet(rest) = {e \in ToSet(entries) : e.key # entries[p].key}
      /\ ToSet(entries) = ToSet(rest) \cup {entries[p]}
  BY RemovedOne
<1>2. /\ IsFiniteSet(ToSet(rest)) /\ ToSet(rest) \subseteq Entry
  BY <1>1, EntriesFinite
<1>3. entries[p] \in Entry /\ entries[p] \in ToSet(entries)
  BY DEF ToSet
<1>4. Bytes({entries[p]}) = entries[p].bytes /\ IsFiniteSet({entries[p]})
  BY <1>3, BytesOfOne DEF Admitted
<1>5. Bytes(ToSet(rest)) \in Nat /\ Bytes({entries[p]}) \in Nat
  BY <1>2, <1>3, <1>4, PartsFinite
<1> HIDE DEF rest
<1>6. \A d \in ToSet(rest), e \in {entries[p]} : d.key # e.key
  BY <1>1
<1>7. Bytes(ToSet(rest) \cup {entries[p]}) = Bytes(ToSet(rest)) + Bytes({entries[p]})
  BY <1>2, <1>3, <1>4, <1>6, BytesAdd
<1>8. QED BY <1>1, <1>4, <1>5, <1>7 DEF rest

\* What was under a key is gone, and its bytes with it.
LEMMA DeletedKeeps ==
    ASSUME NEW st, Accounted(st), DeadlineSet(st), NEW k
    PROVE  /\ Accounted(Deleted(st, k)) /\ DeadlineSet(Deleted(st, k))
           /\ \A e \in ToSet(Deleted(st, k).items) : e.key # k
<1>1. CASE ~Owns(st, k)
  <2>1. \A e \in ToSet(st.items) : e.key # k
    BY <1>1 DEF Owns, Accounted, ToSet
  <2>2. QED BY <1>1, <2>1 DEF Deleted
<1>2. CASE Owns(st, k)
  <2> DEFINE p == Place(st, k)
             rest == RemoveAt(st.items, p)
  <2>1. p \in 1..Len(st.items) /\ st.items[p].key = k
    BY <1>2 DEF Owns, Place
  <2>2. Deleted(st, k) = [items |-> rest, used |-> st.used - st.items[p].bytes,
                          timer |-> IF rest = <<>> THEN 0 ELSE st.timer]
    BY <1>2 DEF Deleted, EntryOf
  <2> HIDE DEF p
  <2>3. /\ rest \in Seq(Entry) /\ Len(rest) = Len(st.items) - 1 /\ OfDifferentKeys(rest)
        /\ ToSet(rest) = {e \in ToSet(st.items) : e.key # k}
    <3> DEFINE entries == st.items
    <3>1. entries \in Seq(Entry) /\ OfDifferentKeys(entries) /\ p \in 1..Len(entries)
          /\ entries[p].key = k /\ rest = RemoveAt(entries, p)
      BY <2>1 DEF Accounted
    <3> HIDE DEF entries, rest
    <3>2. /\ rest \in Seq(Entry) /\ Len(rest) = Len(entries) - 1 /\ OfDifferentKeys(rest)
          /\ ToSet(rest) = {e \in ToSet(entries) : e.key # entries[p].key}
      BY <3>1, RemovedOne
    <3>3. QED BY <3>1, <3>2 DEF entries
  <2>4. /\ Bytes(ToSet(st.items)) = Bytes(ToSet(rest)) + st.items[p].bytes
        /\ Bytes(ToSet(rest)) \in Nat /\ st.items[p].bytes \in Nat
    BY <2>1, RemovedBytes DEF Accounted
  <2> HIDE DEF rest
  <2>5. Accounted(Deleted(st, k))
    <3>1. \A e \in ToSet(rest) : Admitted(e)
      BY <2>3 DEF Accounted
    <3>2. st.used - st.items[p].bytes = Bytes(ToSet(rest)) /\ Bytes(ToSet(rest)) <= MaxBytes
      BY <2>4, CacheAssumption DEF Accounted
    <3>3. Len(rest) <= MaxEntries
      BY <2>3, CacheAssumption DEF Accounted
    <3> DEFINE after == Deleted(st, k)
    <3>4. after.items = rest /\ after.used = st.used - st.items[p].bytes
      BY <2>2
    <3> HIDE DEF after
    <3>5. Accounted(after)
      BY <2>3, <3>1, <3>2, <3>3, <3>4 DEF Accounted
    <3>6. QED BY <3>5 DEF after
  <2>6. st.items # <<>>
    BY <2>1 DEF Accounted
  <2>7. DeadlineSet(Deleted(st, k))
    BY <2>2, <2>3, <2>6, CacheAssumption DEF DeadlineSet
  <2>8. QED BY <2>2, <2>3, <2>5, <2>7
<1>3. QED BY <1>1, <1>2

\* The earliest deadline is that of an entry.
LEMMA ScheduledKeeps ==
    ASSUME NEW st, Accounted(st),
           st = [items |-> st.items, used |-> st.used, timer |-> st.timer]
    PROVE  /\ Accounted(Scheduled(st)) /\ DeadlineSet(Scheduled(st))
           /\ Scheduled(st).items = st.items
<1> DEFINE ends == {e.expires : e \in ToSet(st.items)}
           r == Scheduled(st)
<1>1. /\ r.items = st.items /\ r.used = st.used
      /\ r.timer = IF st.items = <<>> THEN 0 ELSE Min(ends)
  BY DEF Scheduled
<1>2. CASE st.items = <<>>
  <2>1. QED BY <1>1, <1>2, CacheAssumption DEF Accounted, DeadlineSet
<1>3. CASE st.items # <<>>
  <2>1. ToSet(st.items) \subseteq Entry /\ ToSet(st.items) # {}
    BY <1>3, EntriesFinite DEF Accounted, ToSet
  <2>2. ends \in SUBSET Nat /\ ends # {} /\ ends \subseteq 0..(MaxTime + Ttl)
    BY <2>1, CacheAssumption DEF Entry
  <2>3. 0 \notin ends
    BY <2>1 DEF Accounted, Admitted
  <2>4. \A e \in ToSet(st.items) : e.expires \in ends
    OBVIOUS
  <2> HIDE DEF ends
  <2>5. Min(ends) \in ends /\ \A n \in ends : Min(ends) <= n
    BY <2>2, LeastIs
  <2> HIDE DEF r
  <2>6. DeadlineSet(r)
    BY <1>1, <1>3, <2>2, <2>3, <2>4, <2>5 DEF DeadlineSet
  <2>7. Accounted(r)
    BY <1>1 DEF Accounted
  <2>8. QED BY <1>1, <2>6, <2>7 DEF r
<1>4. QED BY <1>2, <1>3

\* There is room for what is not too large: nothing is in the way of an empty cache.
LEMMA EvictedKeeps ==
    ASSUME NEW st, Accounted(st), DeadlineSet(st), NEW bytes \in 0..MaxBytes
    PROVE  LET room == Evicted(st, bytes) IN
           /\ Accounted(room) /\ ToSet(room.items) \subseteq ToSet(st.items)
           /\ Len(room.items) < MaxEntries /\ room.used + bytes <= MaxBytes
<1> DEFINE left(n) == SubSeq(st.items, n + 1, Len(st.items))
           gone(n) == SubSeq(st.items, 1, n)
           size(n) == st.used - Bytes(ToSet(gone(n)))
           fits(n) == Len(left(n)) < MaxEntries /\ size(n) + bytes <= MaxBytes
           F == {n \in 0..Len(st.items) : fits(n)}
           room == Evicted(st, bytes)
<1>1. st.items \in Seq(Entry) /\ OfDifferentKeys(st.items) /\ Len(st.items) \in Nat
  BY DEF Accounted
<1>2. ASSUME NEW n \in 0..Len(st.items)
      PROVE  /\ left(n) \in Seq(Entry) /\ Len(left(n)) = Len(st.items) - n
             /\ OfDifferentKeys(left(n))
             /\ ToSet(left(n)) \subseteq ToSet(st.items)
             /\ size(n) = Bytes(ToSet(left(n))) /\ size(n) \in Nat /\ size(n) <= MaxBytes
  <2>1. /\ gone(n) \in Seq(Entry) /\ left(n) \in Seq(Entry) /\ Len(left(n)) = Len(st.items) - n
        /\ OfDifferentKeys(left(n)) /\ ToSet(st.items) = ToSet(gone(n)) \cup ToSet(left(n))
        /\ \A d \in ToSet(gone(n)), e \in ToSet(left(n)) : d.key # e.key
    BY <1>1, Halves
  <2> DEFINE D == ToSet(gone(n))
             E == ToSet(left(n))
  <2>2. IsFiniteSet(D) /\ IsFiniteSet(E) /\ D \subseteq Entry /\ E \subseteq Entry
    BY <2>1, EntriesFinite
  <2>3. Bytes(D \cup E) = Bytes(D) + Bytes(E)
    <3> HIDE DEF D, E
    <3>1. \A d \in D, e \in E : d.key # e.key
      BY <2>1 DEF D, E
    <3>2. QED BY <2>2, <3>1, BytesAdd
  <2>4. Bytes(D) \in Nat /\ Bytes(E) \in Nat
    <3> HIDE DEF D, E
    <3>1. QED BY <2>2, PartsFinite
  <2>5. st.used = Bytes(D \cup E) /\ st.used <= MaxBytes
    BY <2>1 DEF Accounted
  <2> HIDE DEF D
  <2>6. QED BY <2>1, <2>3, <2>4, <2>5, CacheAssumption DEF D
<1>3. Len(st.items) \in F
  <2>1. Len(left(Len(st.items))) = 0
    BY <1>1, <1>2
  <2>2. left(Len(st.items)) \in Seq(Entry)
    BY <1>1, <1>2
  <2>3. ToSet(left(Len(st.items))) = {}
    <3> DEFINE none == left(Len(st.items))
    <3> HIDE DEF none
    <3>1. none \in Seq(Entry) /\ Len(none) = 0
      BY <2>1, <2>2 DEF none
    <3>2. ToSet(none) = {}
      BY <3>1 DEF ToSet
    <3>3. QED BY <3>2 DEF none
  <2>4. size(Len(st.items)) = 0
    <3>1. Len(st.items) \in 0..Len(st.items)
      BY <1>1
    <3>2. size(Len(st.items)) = Bytes(ToSet(left(Len(st.items))))
      BY <1>2, <3>1
    <3> HIDE DEF size, left
    <3>3. QED BY <2>3, <3>2, BytesOfNone
  <2>5. Len(left(Len(st.items))) < MaxEntries /\ size(Len(st.items)) + bytes <= MaxBytes
    BY <2>1, <2>4, CacheAssumption
  <2> HIDE DEF left, size
  <2>6. QED BY <1>1, <2>5
<1>4. F \in SUBSET Nat /\ F # {}
  BY <1>1, <1>3
<1>5. Min(F) \in F
  <2> HIDE DEF F
  <2>1. QED BY <1>4, LeastIs
<1>6. room = [items |-> left(Min(F)), used |-> size(Min(F)),
              timer |-> IF left(Min(F)) = <<>> THEN 0 ELSE st.timer]
  BY DEF Evicted
<1>7. PICK n \in 0..Len(st.items) : fits(n) /\ room = [items |-> left(n), used |-> size(n),
              timer |-> IF left(n) = <<>> THEN 0 ELSE st.timer]
  BY <1>5, <1>6
<1> DEFINE entries == left(n)
           total == size(n)
<1>8. /\ room.items = entries /\ room.used = total /\ Len(entries) < MaxEntries
      /\ total + bytes <= MaxBytes
  BY <1>7
<1>9. /\ entries \in Seq(Entry) /\ OfDifferentKeys(entries)
      /\ ToSet(entries) \subseteq ToSet(st.items)
      /\ total = Bytes(ToSet(entries)) /\ total \in Nat /\ total <= MaxBytes
  BY <1>2
<1> HIDE DEF entries, total, room
<1>10. Accounted(room)
  <2>1. \A e \in ToSet(entries) : Admitted(e)
    BY <1>9 DEF Accounted
  <2>2. Len(entries) <= MaxEntries
    BY <1>8, <1>9, CacheAssumption
  <2>3. QED BY <1>8, <1>9, <2>1, <2>2 DEF Accounted
<1>11. QED BY <1>8, <1>9, <1>10 DEF room

\* The value is admitted where the same key's was, or the cache keeps nothing under the key.
LEMMA StoredKeeps ==
    ASSUME NEW st, Accounted(st), DeadlineSet(st), NEW k \in CacheKeys, NEW bytes \in Sizes,
           st = State,
           time \in 1..MaxTime
    PROVE  Accounted(Stored(k, bytes)) /\ DeadlineSet(Stored(k, bytes))
<1> DEFINE before == Deleted(st, k)
           room == Evicted(before, bytes)
           e == [key |-> k, bytes |-> bytes, expires |-> time + Ttl]
           added == [items |-> Append(room.items, e), used |-> room.used + bytes,
                     timer |-> room.timer]
<1>1. /\ Accounted(before) /\ DeadlineSet(before) /\ \A d \in ToSet(before.items) : d.key # k
  BY DeletedKeeps
<1>2. CASE bytes > MaxBytes
  BY <1>1, <1>2 DEF Stored
<1>3. CASE ~(bytes > MaxBytes)
  <2>1. bytes \in 0..MaxBytes
    BY <1>3, CacheAssumption DEF Sizes
  <2>2. /\ Accounted(room) /\ ToSet(room.items) \subseteq ToSet(before.items)
        /\ Len(room.items) < MaxEntries /\ room.used + bytes <= MaxBytes
    <3> HIDE DEF before
    <3>1. QED BY <1>1, <2>1, EvictedKeeps
  <2>3. Stored(k, bytes) = Scheduled(added)
    BY <1>3 DEF Stored
  <2> HIDE DEF before, room
  <2>4. e \in Entry /\ Admitted(e) /\ e.key = k /\ e.bytes = bytes
    BY <2>1, CacheAssumption DEF Entry, Sizes, Admitted
  <2> HIDE DEF e
  <2> DEFINE all == Append(room.items, e)
  <2>5. /\ all \in Seq(Entry) /\ Len(all) = Len(room.items) + 1 /\ OfDifferentKeys(all)
        /\ ToSet(all) = ToSet(room.items) \cup {e}
    <3>1. \A d \in ToSet(room.items) : d.key # e.key
      BY <1>1, <2>2, <2>4
    <3>2. QED BY <2>2, <2>4, <3>1, AddedOne DEF Accounted
  <2>6. Bytes(ToSet(all)) = room.used + bytes
    <3>1. IsFiniteSet(ToSet(room.items)) /\ ToSet(room.items) \subseteq Entry
      BY <2>2, EntriesFinite DEF Accounted
    <3>2. Bytes({e}) = bytes /\ IsFiniteSet({e})
      BY <2>1, <2>4, BytesOfOne
    <3>3. \A d \in ToSet(room.items), f \in {e} : d.key # f.key
      BY <1>1, <2>2, <2>4
    <3>4. Bytes(ToSet(room.items) \cup {e}) = Bytes(ToSet(room.items)) + Bytes({e})
      BY <2>4, <3>1, <3>2, <3>3, BytesAdd
    <3>5. QED BY <2>2, <2>5, <3>2, <3>4 DEF Accounted
  <2>7. \A d \in ToSet(all) : Admitted(d)
    BY <2>2, <2>4, <2>5 DEF Accounted
  <2>8. Len(all) <= MaxEntries
    BY <2>2, <2>5, CacheAssumption DEF Accounted
  <2>9. added.items = all /\ added.used = room.used + bytes
        /\ added = [items |-> added.items, used |-> added.used, timer |-> added.timer]
    OBVIOUS
  <2> HIDE DEF all, added
  <2>10. Accounted(added)
    BY <2>2, <2>5, <2>6, <2>7, <2>8, <2>9 DEF Accounted
  <2>11. QED BY <2>3, <2>9, <2>10, ScheduledKeeps
<1>4. QED BY <1>2, <1>3

\* Some entries in their order are entries of different keys.
LEMMA OrderedLive ==
    ASSUME NEW entries \in Seq(Entry), OfDifferentKeys(entries),
           NEW places \in SUBSET (1..Len(entries)), NEW order \in InOrder(places)
    PROVE  LET rest == [i \in 1..Cardinality(places) |-> entries[order[i]]] IN
           /\ rest \in Seq(Entry) /\ Len(rest) <= Len(entries) /\ OfDifferentKeys(rest)
           /\ ToSet(rest) = {entries[i] : i \in places}
<1> DEFINE n == Cardinality(places)
           rest == [i \in 1..n |-> entries[order[i]]]
<1>1. IsFiniteSet(1..Len(entries)) /\ Cardinality(1..Len(entries)) = Len(entries)
  <2> DEFINE m == Len(entries)
  <2>1. m \in Nat
    OBVIOUS
  <2> HIDE DEF m
  <2>2. Cardinality(1..m) = IF 1 > m THEN 0 ELSE m - 1 + 1
    BY <2>1, FS_Interval
  <2>3. IsFiniteSet(1..m) /\ Cardinality(1..m) = m
    BY <2>1, <2>2, FS_Interval
  <2>4. QED BY <2>3 DEF m
<1>2. IsFiniteSet(places) /\ n \in Nat /\ n <= Len(entries)
  <2> DEFINE all == 1..Len(entries)
  <2>1. IsFiniteSet(all) /\ Cardinality(all) = Len(entries) /\ places \in SUBSET all
    BY <1>1
  <2> HIDE DEF all
  <2>2. IsFiniteSet(places) /\ Cardinality(places) <= Cardinality(all)
    BY <2>1, FS_Subset
  <2>3. QED BY <2>1, <2>2, FS_CardinalityType
<1>3. order \in [1..n -> places] /\ \A i, j \in 1..n : i < j => order[i] < order[j]
  BY DEF InOrder
<1>4. IsFiniteSet(1..n) /\ Cardinality(1..n) = n
  <2> HIDE DEF n
  <2>1. QED BY <1>2, FS_Interval
<1>5. \A i, j \in 1..n : i # j => order[i] # order[j]
  <2> HIDE DEF n
  <2> SUFFICES ASSUME NEW i \in 1..n, NEW j \in 1..n, i # j PROVE order[i] # order[j]
    OBVIOUS
  <2>1. order[i] \in Int /\ order[j] \in Int
    <3>1. order[i] \in 1..Len(entries) /\ order[j] \in 1..Len(entries)
      BY <1>3
    <3>2. QED BY <3>1
  <2>2. i < j \/ j < i
    BY <1>2
  <2>3. QED BY <1>3, <2>1, <2>2
<1>6. order \in Injection(1..n, places)
  BY <1>3, <1>5 DEF Injection, IsInjective
<1>7. order \in Surjection(1..n, places)
  <2> HIDE DEF n
  <2>1. Cardinality(1..n) = Cardinality(places)
    BY <1>4 DEF n
  <2>2. QED BY <1>2, <1>6, <2>1, FS_Injection
<1>8. \A p \in places : \E i \in 1..n : order[i] = p
  BY <1>7 DEF Surjection
<1> HIDE DEF n
<1>9. rest \in Seq(Entry) /\ Len(rest) = n /\ DOMAIN rest = 1..n
  <2>1. \A i \in 1..n : entries[order[i]] \in Entry
    <3>1. \A i \in 1..n : order[i] \in 1..Len(entries)
      BY <1>3
    <3>2. \A p \in 1..Len(entries) : entries[p] \in Entry
      OBVIOUS
    <3>3. QED BY <3>1, <3>2
  <2>2. QED BY <1>2, <2>1
<1>10. OfDifferentKeys(rest)
  BY <1>3, <1>5, <1>9 DEF OfDifferentKeys
<1>11. ToSet(rest) = {entries[i] : i \in places}
  <2>1. ToSet(rest) = {rest[i] : i \in 1..n}
    BY <1>9 DEF ToSet
  <2>2. ToSet(rest) \subseteq {entries[i] : i \in places}
    BY <1>3, <2>1
  <2>3. {entries[i] : i \in places} \subseteq ToSet(rest)
    BY <1>8, <2>1
  <2>4. QED BY <2>2, <2>3
<1> HIDE DEF rest
<1>12. QED BY <1>2, <1>9, <1>10, <1>11 DEF rest, n

LEMMA BecomesKeeps ==
    ASSUME NEW st, Accounted(st), DeadlineSet(st), Becomes(st), time' = time,
           time \in 1..MaxTime
    PROVE  CacheInv'
<1>1. State'.items = st.items /\ State'.used = st.used /\ State'.timer = st.timer
  BY DEF Becomes, State
<1>2. Accounted(State)'
  BY <1>1 DEF Accounted, Becomes, State
<1>3. DeadlineSet(State)'
  BY <1>1 DEF DeadlineSet, Becomes, State
<1>4. QED BY <1>2, <1>3 DEF CacheInv

LEMMA TimerKeeps ==
    ASSUME CacheInv, TimerFires PROVE CacheInv'
<1> DEFINE live == {i \in 1..Len(items) : items[i].expires > time}
           gone == (1..Len(items)) \ live
           dropped == {items[i] : i \in gone}
<1>1. PICK order \in InOrder(live) :
        Becomes(Scheduled([items |-> [i \in 1..Cardinality(live) |-> items[order[i]]],
                           used |-> used - Bytes(dropped), timer |-> timer]))
  BY DEF TimerFires
<1> DEFINE rest == [i \in 1..Cardinality(live) |-> items[order[i]]]
           after == [items |-> rest, used |-> used - Bytes(dropped), timer |-> timer]
<1>2. /\ items \in Seq(Entry) /\ OfDifferentKeys(items) /\ \A e \in ToSet(items) : Admitted(e)
      /\ used = Bytes(ToSet(items)) /\ used <= MaxBytes /\ Len(items) <= MaxEntries
  BY DEF CacheInv, Accounted, State
<1>3. live \subseteq 1..Len(items)
  OBVIOUS
<1> HIDE DEF live
<1>4. /\ rest \in Seq(Entry) /\ Len(rest) <= Len(items) /\ OfDifferentKeys(rest)
      /\ ToSet(rest) = {items[i] : i \in live}
  BY <1>2, <1>3, OrderedLive
<1> HIDE DEF rest
<1>5. /\ ToSet(items) = {items[i] : i \in 1..Len(items)} /\ ToSet(items) \subseteq Entry
      /\ IsFiniteSet(ToSet(items))
  BY <1>2, EntriesFinite DEF ToSet
<1>6. ToSet(items) = dropped \cup ToSet(rest)
  BY <1>3, <1>4, <1>5
<1>7. \A d \in dropped, e \in ToSet(rest) : d.key # e.key
  BY <1>2, <1>3, <1>4 DEF OfDifferentKeys
<1> HIDE DEF dropped
<1>8. /\ IsFiniteSet(dropped) /\ IsFiniteSet(ToSet(rest)) /\ dropped \subseteq Entry
      /\ ToSet(rest) \subseteq Entry
  BY <1>5, <1>6, FS_Subset
<1>9. Bytes(dropped) \in Nat /\ Bytes(ToSet(rest)) \in Nat
  BY <1>8, PartsFinite
<1>10. Bytes(dropped \cup ToSet(rest)) = Bytes(dropped) + Bytes(ToSet(rest))
  BY <1>7, <1>8, BytesAdd
<1>11. after.items = rest /\ after.used = used - Bytes(dropped)
       /\ after = [items |-> after.items, used |-> after.used, timer |-> after.timer]
  OBVIOUS
<1> HIDE DEF after
<1>12. Accounted(after)
  <2>1. after.used = Bytes(ToSet(rest)) /\ Bytes(ToSet(rest)) <= MaxBytes
    BY <1>2, <1>6, <1>9, <1>10, <1>11, CacheAssumption
  <2>2. Len(rest) <= MaxEntries
    BY <1>2, <1>4, CacheAssumption
  <2>3. \A e \in ToSet(rest) : Admitted(e)
    BY <1>2, <1>6
  <2>4. QED BY <1>4, <1>11, <2>1, <2>2, <2>3 DEF Accounted
<1>13. Accounted(Scheduled(after)) /\ DeadlineSet(Scheduled(after))
  BY <1>11, <1>12, ScheduledKeeps
<1>14. Becomes(Scheduled(after)) /\ time' = time
  BY <1>1 DEF after, rest, TimerFires
<1>15. QED BY <1>13, <1>14, BecomesKeeps DEF CacheInv

\* A live entry is used last, and nothing else changes.
LEMMA GetKeeps ==
    ASSUME CacheInv, NEW k \in CacheKeys, CacheGet(k) PROVE CacheInv'
<1> DEFINE p == Place(State, k)
           e == EntryOf(State, k)
           rest == RemoveAt(items, p)
           after == [State EXCEPT !.items = Append(rest, e)]
<1>1. time' = time /\ Owns(State, k) /\ Accounted(State) /\ DeadlineSet(State)
  BY DEF CacheGet, CacheInv
<1>2. CASE e.expires <= time
  <2>1. Becomes(Deleted(State, k))
    BY <1>2 DEF CacheGet
  <2>2. QED BY <1>1, <2>1, DeletedKeeps, BecomesKeeps DEF CacheInv
<1>3. CASE ~(e.expires <= time)
  <2>1. Becomes(after)
    BY <1>3 DEF CacheGet
  <2>2. p \in 1..Len(items) /\ items[p].key = k /\ e = items[p]
    BY <1>1 DEF Owns, Place, EntryOf, State
  <2>3. items \in Seq(Entry) /\ OfDifferentKeys(items)
    BY <1>1 DEF Accounted, State
  <2>4. e \in Entry
    BY <2>2, <2>3
  <2> HIDE DEF p, e
  <2>5. /\ rest \in Seq(Entry) /\ Len(rest) = Len(items) - 1 /\ OfDifferentKeys(rest)
        /\ ToSet(rest) = {d \in ToSet(items) : d.key # items[p].key}
        /\ ToSet(items) = ToSet(rest) \cup {items[p]}
    BY <2>2, <2>3, RemovedOne
  <2> HIDE DEF rest
  <2> DEFINE all == Append(rest, e)
  <2>6. /\ all \in Seq(Entry) /\ Len(all) = Len(rest) + 1 /\ OfDifferentKeys(all)
        /\ ToSet(all) = ToSet(rest) \cup {e}
    BY <2>2, <2>4, <2>5, AddedOne
  <2>7. after.items = all /\ after.used = used /\ after.timer = timer
    BY DEF State
  <2>8. State.items = items /\ State.used = used /\ State.timer = timer
    BY DEF State
  <2> HIDE DEF all, after
  <2>9. ToSet(all) = ToSet(items)
    BY <2>2, <2>5, <2>6
  <2>10. Len(all) = Len(items)
    BY <2>3, <2>5, <2>6
  <2>11. Accounted(after)
    BY <1>1, <2>6, <2>7, <2>8, <2>9, <2>10 DEF Accounted
  <2>12. items # <<>>
    BY <2>2, <2>3
  <2>13. DeadlineSet(after)
    BY <1>1, <2>7, <2>8, <2>9, <2>12 DEF DeadlineSet
  <2>14. QED BY <1>1, <2>1, <2>11, <2>13, BecomesKeeps DEF CacheInv
<1>4. QED BY <1>2, <1>3

\* An empty cache is within every limit.
LEMMA ClearedKeeps == Accounted(Cleared) /\ DeadlineSet(Cleared)
<1> DEFINE st == Cleared
<1>1. /\ st.items = <<>> /\ st.used = 0 /\ st.timer = 0
      /\ st.items \in Seq(Entry) /\ Len(st.items) = 0 /\ ToSet(st.items) = {}
  BY DEF Cleared, ToSet
<1> HIDE DEF st
<1>2. st.used = Bytes(ToSet(st.items))
  BY <1>1, BytesOfNone
<1>3. Accounted(st)
  BY <1>1, <1>2, CacheAssumption DEF Accounted, OfDifferentKeys
<1>4. DeadlineSet(st)
  BY <1>1, CacheAssumption DEF DeadlineSet
<1>5. QED BY <1>3, <1>4 DEF st

\* The count, the limits and the timer hold after every operation (bounded-cache.ts).
THEOREM CacheInvariance == CacheSpec => []CacheInv
<1>1. CacheInit => CacheInv
  <2> SUFFICES ASSUME CacheInit PROVE CacheInv
    OBVIOUS
  <2>1. items = <<>> /\ used = 0 /\ timer = 0 /\ time = 1
    BY DEF CacheInit
  <2>2. State = Cleared
    BY <2>1 DEF State, Cleared
  <2>3. QED BY <2>1, <2>2, ClearedKeeps, CacheAssumption DEF CacheInv
<1>2. ASSUME CacheInv, NEW k \in CacheKeys, NEW b \in Sizes, CacheSet(k, b) PROVE CacheInv'
  <2>1. Accounted(Stored(k, b)) /\ DeadlineSet(Stored(k, b))
    BY <1>2, StoredKeeps DEF CacheInv
  <2>2. QED BY <1>2, <2>1, BecomesKeeps DEF CacheInv, CacheSet
<1>3. ASSUME CacheInv, NEW k \in CacheKeys, CacheDelete(k) PROVE CacheInv'
  BY <1>3, DeletedKeeps, BecomesKeeps DEF CacheInv, CacheDelete
<1>4. ASSUME CacheInv, CacheClear PROVE CacheInv'
  BY <1>4, ClearedKeeps, BecomesKeeps DEF CacheInv, CacheClear, Cleared
<1>5. ASSUME CacheInv, CacheTick PROVE CacheInv'
  <2>1. State' = State /\ time' \in 1..MaxTime
    BY <1>5, CacheAssumption DEF CacheInv, CacheTick, State
  <2>2. QED BY <1>5, <2>1 DEF CacheInv, Accounted, DeadlineSet
<1>6. ASSUME CacheInv, UNCHANGED cacheVars PROVE CacheInv'
  <2>1. State' = State /\ time' = time
    BY <1>6 DEF cacheVars, State
  <2>2. QED BY <1>6, <2>1 DEF CacheInv, Accounted, DeadlineSet
<1>7. ASSUME CacheInv, [CacheNext]_cacheVars PROVE CacheInv'
  BY <1>2, <1>3, <1>4, <1>5, <1>6, <1>7, TimerKeeps, GetKeeps DEF CacheNext
<1>8. QED BY <1>1, <1>7, PTL DEF CacheSpec

\* The cache holds no more than it may and nothing longer than it may, for any keys, sizes
\* and limits (bounded-cache.ts:42-106).
THEOREM CacheStaysKept == CacheSpec => [](CacheTypeOK /\ CacheKept)
<1>1. CacheInv => CacheTypeOK /\ CacheKept
  <2> SUFFICES ASSUME CacheInv PROVE CacheTypeOK /\ CacheKept
    OBVIOUS
  <2>1. State.items = items /\ State.used = used /\ State.timer = timer
    BY DEF State
  <2>2. items \in Seq(Entry) /\ IsFiniteSet(ToSet(items)) /\ ToSet(items) \subseteq Entry
    BY <2>1, EntriesFinite DEF CacheInv, Accounted
  <2>3. used \in Nat
    BY <2>1, <2>2, PartsFinite DEF CacheInv, Accounted
  <2>4. QED BY <2>1, <2>2, <2>3
            DEF CacheInv, Accounted, DeadlineSet, CacheTypeOK, CacheKept, CacheBounded,
                DeadlinesWatched, OfDifferentKeys
<1>2. QED BY <1>1, CacheInvariance, PTL

----------------------------------------------------------------------------
(* Applying a commit to the files of a stack *)

\* A comparison with a given identifier, and an application of a given comparison.
PreviewsOf(id) ==
    [id : {id}, commit : Commits, target : Commits, before : Tree, index : Commits]
JobsOf(preview) ==
    [at : Steps \ {"idle"}, page : GitPages, preview : {preview}, result : Tree,
     changed : SUBSET GitFiles, written : SUBSET GitFiles,
     file : GitFiles \cup {CHOOSE f \in GitFiles : TRUE},
     began : BOOLEAN, indexed : BOOLEAN, copies : Tree]

GitShape ==
    /\ work \in Tree /\ gitIndex \in Commits /\ head \in Commits /\ upstream \in Commits
    /\ gitEdits \in Nat
    /\ stored # NoPreview => stored \in PreviewsOf(stored.id)
    /\ job # NoJob => /\ job \in JobsOf(job.preview)
                      /\ job.preview \in PreviewsOf(job.preview.id)

\* What the application put in the file or found in it is there, or an edit that the
\* file's check could not see.
Found(f, content) == work[f] = content \/ (Edited(work[f]) /\ work[f].n \in excused)

\* What every file was and becomes; who edits it meanwhile is not overwritten.
Held(f, content) == work[f] = content \/ Edited(work[f])

\* Nothing is written before everything was compared once more under index.lock.
JobOrdered ==
    /\ job.at # "validate" => indexLock = "panel"
    /\ job.at \in {"validate", "recheck"} => ~job.began
    /\ job.at \in {"check", "swap", "index", "ref", "undo-swap"} => job.began
    /\ ~job.began => job.written = {}
    /\ job.written \subseteq job.changed

\* A file is written after it was checked, and undone after it was read again.
JobChecked ==
    /\ \A f \in job.changed : ~Edited(job.result[f])
    /\ job.at = "swap" => /\ job.file \in job.changed \ job.written
                          /\ Found(job.file, job.preview.before[job.file])
    /\ job.at = "undo-swap" => /\ job.file \in job.written
                               /\ Found(job.file, job.result[job.file])

\* Every chosen file is as it was or as it becomes, with its original beside it.
JobFiles ==
    job.began =>
        /\ \A f \in job.changed \ job.written : Held(f, job.preview.before[f])
        /\ \A f \in job.written : /\ Held(f, job.result[f])
                                  /\ job.copies[f] = job.preview.before[f]
        /\ job.at \in {"check", "swap", "index", "ref"} =>
             \A f \in job.changed : job.copies[f] = job.preview.before[f]

\* The index moves when every file is written, and the branch after the index.
JobIndex ==
    /\ job.at \in {"index", "ref"} => job.written = job.changed
    /\ job.began /\ ~job.indexed => gitIndex = job.preview.index
    /\ job.at = "ref" => gitIndex = job.preview.target

GitInv == GitShape /\ (job # NoJob => JobOrdered /\ JobChecked /\ JobFiles /\ JobIndex)

\* What a step may do to edits, and how an application ends.
EditsStep ==
    \A f \in GitFiles :
        (Edited(work[f]) /\ work'[f] # work[f] /\ gitEdits' = gitEdits) =>
            work[f] = job.preview.before[f] \/ work[f].n \in excused
EndStep == (job # NoJob /\ job' = NoJob /\ job.began) => EndsWell

\* The trees of commits.
LEMMA GitTrees ==
    /\ Commits \subseteq Nat /\ 0 \in Commits /\ Missing \in Content
    /\ \A c \in Commits : TreeOf(c) \in Tree
    /\ \A c \in Commits : \A f \in GitFiles : ~Edited(TreeOf(c)[f])
    /\ \A n \in Nat, who \in {"git", "user", "page"} : [by |-> who, n |-> n] \in Content
<1>1. Commits \subseteq Nat /\ 0 \in Commits /\ Missing \in Content
  BY GitBoundsAssumption DEF Commits, Missing, Content
<1>2. \A n \in Nat, who \in {"git", "user", "page"} : [by |-> who, n |-> n] \in Content
  BY DEF Content
<1>3. ASSUME NEW c \in Commits, NEW f \in GitFiles
      PROVE  TreeOf(c)[f] \in Content /\ ~Edited(TreeOf(c)[f])
  BY <1>1, <1>2 DEF TreeOf, Edited, Missing
<1>4. \A c \in Commits : TreeOf(c) \in Tree
  BY <1>3 DEF TreeOf, Tree
<1> QED BY <1>1, <1>2, <1>3, <1>4

LEMMA GitInitInv == GitInit => GitInv
<1> SUFFICES ASSUME GitInit PROVE GitInv
  OBVIOUS
<1>1. work \in Tree /\ gitIndex \in Commits /\ head \in Commits /\ upstream \in Commits
  BY GitTrees DEF GitInit
<1> QED BY <1>1 DEF GitInit, GitInv, GitShape

\* The fields of the running application.
LEMMA JobKnown ==
  ASSUME GitInv, job # NoJob
  PROVE  /\ job.at \in Steps \ {"idle"} /\ job.page \in GitPages
         /\ job.result \in Tree /\ job.changed \subseteq GitFiles
         /\ job.written \subseteq job.changed
         /\ job.file \in GitFiles \cup {CHOOSE f \in GitFiles : TRUE}
         /\ job.began \in BOOLEAN /\ job.indexed \in BOOLEAN /\ job.copies \in Tree
         /\ job.preview.commit \in Commits /\ job.preview.target \in Commits
         /\ job.preview.before \in Tree /\ job.preview.index \in Commits
         /\ job \in JobsOf(job.preview) /\ job.preview \in PreviewsOf(job.preview.id)
<1>1. job \in JobsOf(job.preview) /\ job.preview \in PreviewsOf(job.preview.id)
  BY DEF GitInv, GitShape
<1>2. /\ job.preview.commit \in Commits /\ job.preview.target \in Commits
      /\ job.preview.before \in Tree /\ job.preview.index \in Commits
  BY <1>1 DEF PreviewsOf
<1>3. /\ job.at \in Steps \ {"idle"} /\ job.page \in GitPages
      /\ job.result \in Tree /\ job.changed \subseteq GitFiles
      /\ job.file \in GitFiles \cup {CHOOSE f \in GitFiles : TRUE}
      /\ job.began \in BOOLEAN /\ job.indexed \in BOOLEAN /\ job.copies \in Tree
  BY <1>1 DEF JobsOf
<1> QED BY <1>1, <1>2, <1>3 DEF GitInv, JobOrdered

LEMMA NoJobAt == NoJob.at = "idle"
BY DEF NoJob

\* Steps without an application, or beside one that keep what it relies on.
LEMMA BesideInv ==
  ASSUME GitInv, UNCHANGED <<work, gitIndex, head, job, gitEdits, excused>>,
         upstream' \in Commits, stored' # NoPreview => stored' \in PreviewsOf(stored'.id),
         indexLock' = indexLock \/ indexLock # "panel"
  PROVE  GitInv' /\ EditsStep /\ EndStep
<1>1. EditsStep /\ EndStep
  BY DEF EditsStep, EndStep
<1>2. GitShape'
  BY DEF GitInv, GitShape, Tree
<1>3. ASSUME job # NoJob
      PROVE  JobOrdered' /\ JobChecked' /\ JobFiles' /\ JobIndex'
  <2>1. indexLock' = indexLock \/ job.at = "validate"
    BY <1>3 DEF GitInv, JobOrdered
  <2>2. JobOrdered'
    BY <2>1, <1>3 DEF GitInv, JobOrdered
  <2> QED BY <2>2, <1>3 DEF GitInv, JobChecked, JobFiles, JobIndex, Found, Held, Edited
<1> QED BY <1>1, <1>2, <1>3 DEF GitInv

LEMMA BesideSteps ==
  ASSUME GitInv,
         \/ \E p \in GitPages : Compare(p) \/ Discard(p)
         \/ Expire \/ Push \/ RemoveLeftLock
  PROVE  GitInv' /\ EditsStep /\ EndStep
<1>1. UNCHANGED <<work, gitIndex, head, job, gitEdits, excused>>
  BY DEF Compare, Discard, Expire, Push, RemoveLeftLock, repository
<1>2. upstream' \in Commits
  BY GitBoundsAssumption DEF Compare, Discard, Expire, Push, RemoveLeftLock, GitInv, GitShape,
     Commits
<1>3. indexLock' = indexLock \/ indexLock # "panel"
  BY DEF Compare, Discard, Expire, Push, RemoveLeftLock, repository
<1>4. stored' # NoPreview => stored' \in PreviewsOf(stored'.id)
  <2>1. ASSUME NEW p \in GitPages, Compare(p)
        PROVE  stored' \in PreviewsOf(stored'.id)
    BY <2>1 DEF Compare, PreviewsOf, GitInv, GitShape
  <2> QED BY <2>1 DEF Discard, Expire, Push, RemoveLeftLock, GitInv, GitShape
<1> QED BY <1>1, <1>2, <1>3, <1>4, BesideInv

----------------------------------------------------------------------------
(* Edits *)

\* A file written by someone else beside an application.
LEMMA OutsideEditInv ==
  ASSUME GitInv, NEW g \in GitFiles, OutsideEdit(g)
  PROVE  GitInv' /\ EditsStep /\ EndStep
<1>1. /\ gitEdits' \in Nat /\ gitEdits' # gitEdits
      /\ work' = [work EXCEPT ![g] = [by |-> "user", n |-> gitEdits']]
      /\ UNCHANGED <<gitIndex, head, indexLock, upstream, stored, job>>
      /\ excused \subseteq excused'
  BY DEF OutsideEdit, GitInv, GitShape
<1>2. [by |-> "user", n |-> gitEdits'] \in Content
  BY <1>1, GitTrees
<1>3. work \in Tree
  BY DEF GitInv, GitShape
<1>4. work' \in Tree
  BY <1>1, <1>2, <1>3 DEF Tree
<1>5. \A f \in GitFiles : work'[f] = work[f] \/ (f = g /\ Edited(work'[f]))
  BY <1>1, <1>3 DEF Tree, Edited
<1>6. \A c : \A f \in GitFiles : Held(f, c) => Held(f, c)'
  BY <1>5 DEF Held, Edited
<1>7. \A c : \A f \in GitFiles : f # g /\ Found(f, c) => Found(f, c)'
  BY <1>1, <1>5 DEF Found, Edited
<1>8. EditsStep /\ EndStep
  BY <1>1 DEF EditsStep, EndStep
<1>9. GitShape'
  BY <1>1, <1>4 DEF GitInv, GitShape
<1>10. ASSUME job # NoJob
       PROVE  JobOrdered' /\ JobChecked' /\ JobFiles' /\ JobIndex'
  <2>1. job.written \subseteq job.changed /\ job.changed \subseteq GitFiles
    BY <1>10, JobKnown
  <2>2. JobOrdered' /\ JobIndex'
    BY <1>1, <1>10 DEF GitInv, JobOrdered, JobIndex
  <2>3. JobFiles'
    BY <1>1, <1>6, <1>10, <2>1 DEF GitInv, JobFiles
  <2>4. ASSUME job.at \in {"swap", "undo-swap"}, job.file = g, NEW c
        PROVE  Found(job.file, c)'
    <3>1. excused' = excused \cup {gitEdits'}
      BY <1>10, <2>4 DEF OutsideEdit
    <3>2. work'[g] = [by |-> "user", n |-> gitEdits']
      BY <1>1, <1>3 DEF Tree
    <3> QED BY <1>1, <2>4, <3>1, <3>2 DEF Found, Edited
  <2>5. JobChecked'
    <3>1. job.at \in {"swap", "undo-swap"} => job.file \in GitFiles
      BY <1>10, <2>1 DEF GitInv, JobChecked
    <3> QED BY <1>1, <1>7, <1>10, <2>4, <3>1 DEF GitInv, JobChecked, Edited
  <2> QED BY <2>2, <2>3, <2>5
<1> QED BY <1>1, <1>8, <1>9, <1>10 DEF GitInv

\* A file written by the panel's editor, or a pull: there is no application that relies
\* on the files.
LEMMA IdleEditInv ==
  ASSUME GitInv, (\E f \in GitFiles : PanelEdit(f)) \/ OutsidePull
  PROVE  GitInv' /\ EditsStep /\ EndStep
<1>1. /\ gitEdits' \in Nat /\ gitEdits' # gitEdits
      /\ UNCHANGED <<indexLock, upstream, stored, job, excused>>
  BY DEF PanelEdit, OutsidePull, GitInv, GitShape
<1>2. work' \in Tree /\ gitIndex' \in Commits /\ head' \in Commits
  <2>1. ASSUME NEW f \in GitFiles, PanelEdit(f)
        PROVE  work' \in Tree /\ gitIndex' \in Commits /\ head' \in Commits
    <3>1. [by |-> "user", n |-> gitEdits'] \in Content
      BY <1>1, GitTrees
    <3> QED BY <2>1, <3>1 DEF PanelEdit, GitInv, GitShape, Tree
  <2>2. CASE OutsidePull
    BY <2>2, GitTrees DEF OutsidePull, GitInv, GitShape
  <2> QED BY <2>1, <2>2
<1>3. EditsStep /\ EndStep
  BY <1>1 DEF EditsStep, EndStep
<1>4. GitShape'
  BY <1>1, <1>2 DEF GitInv, GitShape
<1>5. ASSUME job # NoJob
      PROVE  JobOrdered' /\ JobChecked' /\ JobFiles' /\ JobIndex'
  <2>1. OutsidePull /\ indexLock = "free"
    BY <1>5 DEF PanelEdit, OutsidePull
  <2>2. job.at = "validate"
    BY <1>5, <2>1 DEF GitInv, JobOrdered
  <2>3. ~job.began
    BY <1>5, <2>2 DEF GitInv, JobOrdered
  <2> QED BY <1>1, <1>5, <2>1, <2>2, <2>3
        DEF GitInv, JobOrdered, JobChecked, JobFiles, JobIndex, Edited
<1> QED BY <1>1, <1>3, <1>4, <1>5 DEF GitInv

----------------------------------------------------------------------------
(* The application *)

LEMMA ApplyInv ==
  ASSUME GitInv, NEW p \in GitPages, Apply(p)
  PROVE  GitInv' /\ EditsStep /\ EndStep
<1>1. PICK taken, typed \in SUBSET Differs(stored) :
         /\ taken \cap typed = {}
         /\ job' = [at |-> "validate", page |-> p, preview |-> stored,
                    result |-> ResultOf(stored, taken, typed),
                    changed |-> taken \cup typed, written |-> {},
                    file |-> CHOOSE f \in GitFiles : TRUE,
                    began |-> FALSE, indexed |-> FALSE,
                    copies |-> [f \in GitFiles |-> Missing]]
  BY DEF Apply
<1>2. UNCHANGED <<work, gitIndex, head, indexLock, upstream, stored, gitEdits, excused>>
  BY DEF Apply, repository
<1>3. stored # NoPreview /\ job = NoJob
  BY DEF Apply, NoPreview
<1>4. stored \in PreviewsOf(stored.id)
  BY <1>3 DEF GitInv, GitShape
<1>5. stored.target \in Commits /\ stored.before \in Tree
  BY <1>4 DEF PreviewsOf
<1>6. taken \cup typed \subseteq GitFiles
  BY DEF Differs
<1>7. ASSUME NEW f \in GitFiles
      PROVE  /\ ResultOf(stored, taken, typed)[f] \in Content
             /\ f \in taken \cup typed => ~Edited(ResultOf(stored, taken, typed)[f])
  <2>1. stored.target \in Nat
    BY <1>5, GitTrees
  <2>2. [by |-> "page", n |-> stored.target] \in Content
    BY <2>1, GitTrees
  <2>3. TreeOf(stored.target)[f] \in Content /\ ~Edited(TreeOf(stored.target)[f])
    BY <1>5, GitTrees DEF Tree
  <2>4. stored.before[f] \in Content
    BY <1>5 DEF Tree
  <2> QED BY <2>2, <2>3, <2>4 DEF ResultOf, Edited
<1>8. ResultOf(stored, taken, typed) \in Tree
  BY <1>7 DEF ResultOf, Tree
<1>9. [f \in GitFiles |-> Missing] \in Tree
  BY GitTrees DEF Tree
<1>10. job' \in JobsOf(stored) /\ job'.preview = stored
  BY <1>1, <1>6, <1>8, <1>9 DEF JobsOf, Steps
<1>11. /\ job'.at = "validate" /\ job'.began = FALSE /\ job'.written = {}
       /\ job'.changed = taken \cup typed
       /\ job'.result = ResultOf(stored, taken, typed)
  BY <1>1
<1>12. GitShape'
  BY <1>2, <1>4, <1>10 DEF GitInv, GitShape
<1>13. \A f \in job'.changed : ~Edited(job'.result[f])
  BY <1>6, <1>7, <1>11
<1>14. JobOrdered' /\ JobChecked' /\ JobFiles' /\ JobIndex'
  BY <1>11, <1>13 DEF JobOrdered, JobChecked, JobFiles, JobIndex, Edited
<1>15. EditsStep /\ EndStep
  BY <1>2, <1>3 DEF EditsStep, EndStep
<1> QED BY <1>12, <1>14, <1>15 DEF GitInv

\* Steps that only move the application on, in its record.
LEMMA MovesOn ==
  ASSUME GitInv, job # NoJob, job'.at # "idle",
         UNCHANGED <<work, upstream, stored, gitEdits, excused>>,
         gitIndex' \in Commits, head' \in Commits, job' \in JobsOf(job.preview),
         JobOrdered', JobChecked', JobFiles', JobIndex'
  PROVE  GitInv' /\ EditsStep /\ EndStep
<1>1. job'.preview = job.preview
  BY DEF JobsOf
<1>2. GitShape'
  BY <1>1 DEF GitInv, GitShape
<1>3. job' # NoJob
  BY NoJobAt
<1> QED BY <1>2, <1>3 DEF GitInv, EditsStep, EndStep

\* Steps that end it without writing a file.
LEMMA EndsInv ==
  ASSUME GitInv, job' = NoJob, UNCHANGED <<work, upstream, gitEdits>>,
         stored' \in {stored, NoPreview}, gitIndex' \in Commits, head' \in Commits
  PROVE  GitInv' /\ EditsStep
<1>1. GitShape'
  BY DEF GitInv, GitShape
<1> QED BY <1>1 DEF GitInv, EditsStep

LEMMA ValidateInv ==
  ASSUME GitInv, Validate
  PROVE  GitInv' /\ EditsStep /\ EndStep
<1>1. /\ job.at = "validate" /\ job # NoJob
      /\ UNCHANGED <<work, gitIndex, head, upstream, stored, gitEdits, excused>>
  BY NoJobAt DEF Validate
<1>2. ~job.began
  BY <1>1 DEF GitInv, JobOrdered
<1>3. gitIndex \in Commits /\ head \in Commits
  BY DEF GitInv, GitShape
<1>4. CASE job' = NoJob
  <2>1. GitInv' /\ EditsStep
    BY <1>1, <1>3, <1>4, EndsInv
  <2> QED BY <1>2, <2>1 DEF EndStep
<1>5. CASE job' # NoJob
  <2>1. job' = [job EXCEPT !.at = "recheck"] /\ indexLock' = "panel"
    BY <1>5 DEF Validate, Goes, Answers
  <2>2. job \in JobsOf(job.preview)
    BY <1>1, JobKnown
  <2>3. /\ job' \in JobsOf(job.preview) /\ job'.at = "recheck" /\ job'.began = job.began
        /\ job'.written = job.written /\ job'.changed = job.changed
        /\ job'.result = job.result
    BY <2>1, <2>2 DEF JobsOf, Steps
  <2>4. JobOrdered' /\ JobChecked' /\ JobFiles' /\ JobIndex'
    BY <1>1, <1>2, <2>1, <2>3 DEF GitInv, JobOrdered, JobChecked, JobFiles, JobIndex, Edited
  <2> QED BY <1>1, <1>3, <2>3, <2>4, MovesOn
<1> QED BY <1>4, <1>5

\* The catch block: what was written stays so until it is undone.
LEMMA UndoingInv ==
  ASSUME GitInv, job # NoJob, job.at # "validate", Undoing,
         UNCHANGED <<work, gitIndex, indexLock, upstream, stored, gitEdits, excused>>,
         head' \in Commits
  PROVE  GitInv' /\ EditsStep /\ EndStep
<1>1. job' = [job EXCEPT !.at = "undo"]
  BY DEF Undoing, Goes
<1>2. job \in JobsOf(job.preview)
  BY JobKnown
<1>3. /\ job' \in JobsOf(job.preview) /\ job'.at = "undo" /\ job'.began = job.began
      /\ job'.written = job.written /\ job'.changed = job.changed
      /\ job'.result = job.result /\ job'.copies = job.copies
      /\ job'.preview = job.preview /\ job'.indexed = job.indexed
  BY <1>1, <1>2 DEF JobsOf, Steps
<1>4. JobOrdered' /\ JobChecked' /\ JobFiles' /\ JobIndex'
  BY <1>3 DEF GitInv, JobOrdered, JobChecked, JobFiles, JobIndex, Edited, Held
<1>5. gitIndex' \in Commits
  BY DEF GitInv, GitShape
<1> QED BY <1>3, <1>4, <1>5, MovesOn

\* Each check that fails leads there.
LEMMA RecheckInv ==
  ASSUME GitInv, Recheck
  PROVE  GitInv' /\ EditsStep /\ EndStep
<1>1. /\ job.at = "recheck" /\ job # NoJob
      /\ UNCHANGED <<work, gitIndex, head, indexLock, upstream, stored, gitEdits, excused>>
  BY NoJobAt DEF Recheck, repository
<1>2. gitIndex \in Commits /\ head \in Commits
  BY DEF GitInv, GitShape
<1>3. CASE Undoing
  BY <1>1, <1>2, <1>3, UndoingInv
<1>4. CASE ~Undoing
  <2>1. /\ work = job.preview.before /\ gitIndex = job.preview.index
        /\ job' = [job EXCEPT !.at = "check", !.began = TRUE,
                        !.copies = [f \in GitFiles |->
                            IF f \in job.changed THEN job.preview.before[f] ELSE Missing]]
    BY <1>4 DEF Recheck
  <2> DEFINE copies == [f \in GitFiles |->
                            IF f \in job.changed THEN job.preview.before[f] ELSE Missing]
  <2>2. copies \in Tree
    BY <1>1, JobKnown, GitTrees DEF Tree
  <2>3. \A f \in job.changed : copies[f] = job.preview.before[f]
    BY <1>1, JobKnown
  <2>4. job' = [job EXCEPT !.at = "check", !.began = TRUE, !.copies = copies]
    BY <2>1
  <2> HIDE DEF copies
  <2>5. job \in JobsOf(job.preview)
    BY <1>1, JobKnown
  <2>6. /\ job' \in JobsOf(job.preview) /\ job'.at = "check" /\ job'.began = TRUE
        /\ job'.written = job.written /\ job'.changed = job.changed
        /\ job'.result = job.result /\ job'.copies = copies
        /\ job'.preview = job.preview /\ job'.indexed = job.indexed
    BY <2>2, <2>4, <2>5 DEF JobsOf, Steps
  <2>7. job.written = {}
    BY <1>1 DEF GitInv, JobOrdered
  <2>8. indexLock' = "panel"
    BY <1>1 DEF GitInv, JobOrdered
  <2>9. JobOrdered' /\ JobChecked'
    BY <1>1, <2>6, <2>7, <2>8 DEF GitInv, JobOrdered, JobChecked, Edited
  <2>10. JobFiles' /\ JobIndex'
    BY <1>1, <2>1, <2>3, <2>6, <2>7 DEF JobFiles, JobIndex, Held
  <2> QED BY <1>1, <1>2, <2>6, <2>9, <2>10, MovesOn
<1> QED BY <1>3, <1>4

LEMMA CheckFileInv ==
  ASSUME GitInv, NEW f \in GitFiles, CheckFile(f)
  PROVE  GitInv' /\ EditsStep /\ EndStep
<1>1. /\ job.at = "check" /\ job # NoJob /\ f \in job.changed \ job.written
      /\ UNCHANGED <<work, gitIndex, head, indexLock, upstream, stored, gitEdits, excused>>
  BY NoJobAt DEF CheckFile, repository
<1>2. gitIndex \in Commits /\ head \in Commits
  BY DEF GitInv, GitShape
<1>3. CASE Undoing
  BY <1>1, <1>2, <1>3, UndoingInv
<1>4. CASE ~Undoing
  <2>1. work[f] = job.preview.before[f] /\ job' = [job EXCEPT !.at = "swap", !.file = f]
    BY <1>4 DEF CheckFile
  <2>2. job \in JobsOf(job.preview)
    BY <1>1, JobKnown
  <2>3. /\ job' \in JobsOf(job.preview) /\ job'.at = "swap" /\ job'.began = job.began
        /\ job'.written = job.written /\ job'.changed = job.changed
        /\ job'.result = job.result /\ job'.copies = job.copies
        /\ job'.preview = job.preview /\ job'.indexed = job.indexed /\ job'.file = f
    BY <2>1, <2>2 DEF JobsOf, Steps
  <2>4. JobOrdered' /\ JobFiles' /\ JobIndex'
    BY <1>1, <2>3 DEF GitInv, JobOrdered, JobFiles, JobIndex, Held, Edited
  <2>5. JobChecked'
    BY <1>1, <2>1, <2>3 DEF GitInv, JobChecked, Found, Edited
  <2> QED BY <1>1, <1>2, <2>3, <2>4, <2>5, MovesOn
<1> QED BY <1>3, <1>4

LEMMA SwapFileInv ==
  ASSUME GitInv, SwapFile
  PROVE  GitInv' /\ EditsStep /\ EndStep
<1>1. /\ job.at = "swap" /\ job # NoJob
      /\ UNCHANGED <<gitIndex, head, indexLock, upstream, stored, gitEdits, excused>>
  BY NoJobAt DEF SwapFile
<1>2. gitIndex \in Commits /\ head \in Commits /\ work \in Tree
  BY DEF GitInv, GitShape
<1>3. CASE Undoing /\ UNCHANGED work
  BY <1>1, <1>2, <1>3, UndoingInv
<1>4. CASE ~(Undoing /\ UNCHANGED work)
  <2> DEFINE file == job.file
             written == job.written \cup {file}
  <2>1. /\ work' = [work EXCEPT ![file] = job.result[file]]
        /\ job' = [job EXCEPT !.at = "check", !.written = @ \cup {file}]
    BY <1>4 DEF SwapFile
  <2>2. /\ job \in JobsOf(job.preview) /\ job.changed \subseteq GitFiles
        /\ job.result \in Tree /\ job.written \subseteq job.changed
    BY <1>1, JobKnown
  <2>3. file \in job.changed \ job.written /\ Found(file, job.preview.before[file])
    BY <1>1 DEF GitInv, JobChecked
  <2>4. file \in GitFiles /\ written \subseteq GitFiles
    BY <2>2, <2>3
  <2>5. job' = [job EXCEPT !.at = "check", !.written = written]
    BY <2>1, <2>2 DEF JobsOf
  <2>6. work'[file] = job.result[file] /\ job.result[file] \in Content
    BY <1>2, <2>1, <2>2, <2>4 DEF Tree
  <2>7. work' \in Tree
    BY <1>2, <2>1, <2>4, <2>6 DEF Tree
  <2>8. \A f \in GitFiles : f # file => work'[f] = work[f]
    BY <1>2, <2>1 DEF Tree
  <2> HIDE DEF file, written
  <2>9. /\ job' \in JobsOf(job.preview) /\ job'.at = "check" /\ job'.began = job.began
        /\ job'.written = written /\ job'.changed = job.changed
        /\ job'.result = job.result /\ job'.copies = job.copies
        /\ job'.preview = job.preview /\ job'.indexed = job.indexed
    BY <2>2, <2>4, <2>5 DEF JobsOf, Steps
  <2>10. written = job.written \cup {file} /\ job.began
    BY <1>1 DEF written, GitInv, JobOrdered
  <2>11. JobOrdered' /\ JobChecked' /\ JobIndex'
    BY <1>1, <2>2, <2>3, <2>9, <2>10 DEF GitInv, JobOrdered, JobChecked, JobIndex, Edited
  <2>12. \A f \in job.changed \ job.written : Held(f, job.preview.before[f])
    BY <1>1, <2>10 DEF GitInv, JobFiles
  <2>13. \A f \in job.written : /\ Held(f, job.result[f])
                                /\ job.copies[f] = job.preview.before[f]
    BY <1>1, <2>10 DEF GitInv, JobFiles
  <2>14. job.copies[file] = job.preview.before[file]
    BY <1>1, <2>3, <2>10 DEF GitInv, JobFiles
  <2>15. JobFiles'
    <3>1. \A f \in job.changed : job.copies[f] = job.preview.before[f]
      BY <1>1, <2>10 DEF GitInv, JobFiles
    <3> QED BY <3>1, <2>2, <2>3, <2>6, <2>8, <2>9, <2>10, <2>12, <2>13, <2>14 DEF JobFiles,
               Held, Edited
  <2>16. EditsStep
    BY <2>3, <2>8 DEF EditsStep, Found
  <2>17. job' # NoJob
    BY <2>9, NoJobAt
  <2>18. GitShape'
    BY <1>1, <2>7, <2>9, <2>17 DEF GitInv, GitShape
  <2> QED BY <2>11, <2>15, <2>16, <2>17, <2>18 DEF GitInv, EndStep
<1> QED BY <1>3, <1>4

LEMMA VerifyInv ==
  ASSUME GitInv, Verify
  PROVE  GitInv' /\ EditsStep /\ EndStep
<1>1. /\ job.at = "check" /\ job # NoJob /\ job.written = job.changed
      /\ UNCHANGED <<work, gitIndex, head, indexLock, upstream, stored, gitEdits, excused>>
  BY NoJobAt DEF Verify, repository
<1>2. gitIndex \in Commits /\ head \in Commits
  BY DEF GitInv, GitShape
<1>3. CASE Undoing
  BY <1>1, <1>2, <1>3, UndoingInv
<1>4. CASE ~Undoing
  <2>1. job' = [job EXCEPT !.at = "index"]
    BY <1>4 DEF Verify, Goes
  <2>2. job \in JobsOf(job.preview)
    BY <1>1, JobKnown
  <2>3. /\ job' \in JobsOf(job.preview) /\ job'.at = "index" /\ job'.began = job.began
        /\ job'.written = job.written /\ job'.changed = job.changed
        /\ job'.result = job.result /\ job'.copies = job.copies
        /\ job'.preview = job.preview /\ job'.indexed = job.indexed
    BY <2>1, <2>2 DEF JobsOf, Steps
  <2>4. JobOrdered' /\ JobChecked' /\ JobFiles' /\ JobIndex'
    BY <1>1, <2>3 DEF GitInv, JobOrdered, JobChecked, JobFiles, JobIndex, Held, Edited
  <2> QED BY <1>1, <1>2, <2>3, <2>4, MovesOn
<1> QED BY <1>3, <1>4

LEMMA MoveIndexInv ==
  ASSUME GitInv, MoveIndex
  PROVE  GitInv' /\ EditsStep /\ EndStep
<1>1. /\ job.at = "index" /\ job # NoJob
      /\ UNCHANGED <<work, head, indexLock, upstream, stored, gitEdits, excused>>
  BY NoJobAt DEF MoveIndex
<1>2. gitIndex \in Commits /\ head \in Commits
  BY DEF GitInv, GitShape
<1>3. CASE Undoing /\ UNCHANGED gitIndex
  BY <1>1, <1>2, <1>3, UndoingInv
<1>4. CASE ~(Undoing /\ UNCHANGED gitIndex)
  <2>1. /\ gitIndex' = job.preview.target
        /\ job' = [job EXCEPT !.at = "ref", !.indexed = TRUE]
    BY <1>4 DEF MoveIndex
  <2>2. job \in JobsOf(job.preview) /\ job.preview.target \in Commits
    BY <1>1, JobKnown
  <2>3. /\ job' \in JobsOf(job.preview) /\ job'.at = "ref" /\ job'.began = job.began
        /\ job'.written = job.written /\ job'.changed = job.changed
        /\ job'.result = job.result /\ job'.copies = job.copies
        /\ job'.preview = job.preview /\ job'.indexed = TRUE
    BY <2>1, <2>2 DEF JobsOf, Steps
  <2>4. JobOrdered' /\ JobChecked' /\ JobFiles'
    BY <1>1, <2>3 DEF GitInv, JobOrdered, JobChecked, JobFiles, Held, Edited
  <2>5. JobIndex'
    BY <1>1, <2>1, <2>3 DEF GitInv, JobIndex
  <2> QED BY <1>1, <1>2, <2>1, <2>2, <2>3, <2>4, <2>5, MovesOn
<1> QED BY <1>3, <1>4

\* The branch moves last: everything chosen is in place.
LEMMA MoveRefInv ==
  ASSUME GitInv, MoveRef
  PROVE  GitInv' /\ EditsStep /\ EndStep
<1>1. /\ job.at = "ref" /\ job # NoJob
      /\ UNCHANGED <<work, gitIndex, upstream, gitEdits, excused>>
  BY NoJobAt DEF MoveRef
<1>2. gitIndex \in Commits /\ head \in Commits /\ job.preview.target \in Commits
  BY <1>1, JobKnown DEF GitInv, GitShape
<1>3. head' \in Commits /\ stored' \in {stored, NoPreview}
  BY <1>2 DEF MoveRef
<1>4. CASE Undoing /\ UNCHANGED <<indexLock, stored>>
  BY <1>1, <1>2, <1>3, <1>4, UndoingInv
<1>5. CASE ~(Undoing /\ UNCHANGED <<indexLock, stored>>)
  <2>1. job' = NoJob /\ answer' = "saved" /\ head' = job.preview.target
    BY <1>5 DEF MoveRef, Answers
  <2>2. gitIndex' = job.preview.target /\ job.written = job.changed /\ job.began
    BY <1>1 DEF GitInv, JobIndex, JobOrdered
  <2>3. \A f \in job.changed : work'[f] = job.result[f] \/ Edited(work'[f])
    BY <1>1, <2>2 DEF GitInv, JobFiles, Held
  <2>4. EndsWell
    BY <2>1, <2>2, <2>3 DEF EndsWell
  <2>5. GitInv' /\ EditsStep
    BY <1>1, <1>2, <1>3, <2>1, EndsInv
  <2> QED BY <2>4, <2>5 DEF EndStep
<1> QED BY <1>4, <1>5

\* What an application that cannot finish leaves: the originals are kept.
LEMMA LeavesCopies ==
  ASSUME GitInv, job # NoJob, job.began, UNCHANGED work, job.copies \in kept',
         answer' \in {"incomplete", "none"}
  PROVE  EndsWell
<1>1. ASSUME NEW f \in job.changed
      PROVE  \/ work'[f] = job.preview.before[f] \/ Edited(work'[f])
             \/ \E copies \in kept' : copies[f] = job.preview.before[f]
  BY <1>1 DEF GitInv, JobFiles, Held
<1> QED BY <1>1 DEF EndsWell

LEMMA UndoInv ==
  ASSUME GitInv, NEW f \in GitFiles, Undo(f)
  PROVE  GitInv' /\ EditsStep /\ EndStep
<1>1. /\ job.at = "undo" /\ job # NoJob /\ f \in job.written
      /\ UNCHANGED <<work, gitIndex, head, upstream, stored, gitEdits, excused>>
  BY NoJobAt DEF Undo, repository
<1>2. gitIndex \in Commits /\ head \in Commits
  BY DEF GitInv, GitShape
<1>3. CASE job' = NoJob
  <2>1. answer' = "incomplete" /\ job.copies \in kept'
    <3>1. [job EXCEPT !.at = "undo-swap", !.file = f] # NoJob
      <4>1. job \in JobsOf(job.preview)
        BY <1>1, JobKnown
      <4>2. [job EXCEPT !.at = "undo-swap", !.file = f].at = "undo-swap"
        BY <4>1 DEF JobsOf
      <4> QED BY <4>2, NoJobAt
    <3> QED BY <1>3, <3>1 DEF Undo, Answers
  <2>2. job.began => EndsWell
    BY <1>1, <2>1, LeavesCopies
  <2>3. GitInv' /\ EditsStep
    BY <1>1, <1>2, <1>3, EndsInv
  <2> QED BY <2>2, <2>3 DEF EndStep
<1>4. CASE job' # NoJob
  <2>1. /\ work[f] = job.result[f] /\ indexLock' = indexLock
        /\ job' = [job EXCEPT !.at = "undo-swap", !.file = f]
    BY <1>4 DEF Undo, Answers, repository
  <2>2. job \in JobsOf(job.preview)
    BY <1>1, JobKnown
  <2>3. /\ job' \in JobsOf(job.preview) /\ job'.at = "undo-swap" /\ job'.began = job.began
        /\ job'.written = job.written /\ job'.changed = job.changed
        /\ job'.result = job.result /\ job'.copies = job.copies
        /\ job'.preview = job.preview /\ job'.indexed = job.indexed /\ job'.file = f
    BY <2>1, <2>2 DEF JobsOf, Steps
  <2>4. job.began
    BY <1>1 DEF GitInv, JobOrdered
  <2>5. JobOrdered' /\ JobFiles' /\ JobIndex'
    BY <1>1, <2>1, <2>3, <2>4 DEF GitInv, JobOrdered, JobFiles, JobIndex, Held, Edited
  <2>6. JobChecked'
    BY <1>1, <2>1, <2>3 DEF GitInv, JobChecked, Found, Edited
  <2> QED BY <1>1, <1>2, <2>3, <2>5, <2>6, MovesOn
<1> QED BY <1>3, <1>4

LEMMA UndoSwapInv ==
  ASSUME GitInv, UndoSwap
  PROVE  GitInv' /\ EditsStep /\ EndStep
<1> DEFINE file == job.file
           written == job.written \ {file}
           copies == [job.copies EXCEPT ![file] = Missing]
<1>1. /\ job.at = "undo-swap" /\ job # NoJob
      /\ UNCHANGED <<gitIndex, head, indexLock, upstream, stored, gitEdits, excused>>
      /\ work' = [work EXCEPT ![file] = job.preview.before[file]]
  BY NoJobAt DEF UndoSwap
<1>2. gitIndex \in Commits /\ head \in Commits /\ work \in Tree
  BY DEF GitInv, GitShape
<1>3. /\ job \in JobsOf(job.preview) /\ job.changed \subseteq GitFiles
      /\ job.preview.before \in Tree /\ job.written \subseteq job.changed
      /\ job.copies \in Tree
  BY <1>1, JobKnown
<1>4. file \in job.written /\ Found(file, job.result[file]) /\ job.began
  BY <1>1 DEF GitInv, JobChecked, JobOrdered
<1>5. ~Edited(job.result[file])
  BY <1>1, <1>3, <1>4 DEF GitInv, JobChecked
<1>6. file \in GitFiles /\ written \subseteq GitFiles
  BY <1>3, <1>4
<1>7. job' = [job EXCEPT !.at = "undo", !.written = written, !.copies = copies]
  BY <1>3 DEF UndoSwap, JobsOf
<1>8. work'[file] = job.preview.before[file] /\ job.preview.before[file] \in Content
  BY <1>1, <1>2, <1>3, <1>6 DEF Tree
<1>9. work' \in Tree
  BY <1>1, <1>2, <1>6, <1>8 DEF Tree
<1>10. \A f \in GitFiles : f # file => work'[f] = work[f] /\ copies[f] = job.copies[f]
  BY <1>1, <1>2, <1>3 DEF Tree
<1>11. copies \in Tree
  BY <1>3, <1>6, GitTrees DEF Tree
<1>12. written = job.written \ {file}
  OBVIOUS
<1> HIDE DEF file, written, copies
<1>13. /\ job' \in JobsOf(job.preview) /\ job'.at = "undo" /\ job'.began = job.began
       /\ job'.written = written /\ job'.changed = job.changed
       /\ job'.result = job.result /\ job'.copies = copies
       /\ job'.preview = job.preview /\ job'.indexed = job.indexed
  BY <1>3, <1>6, <1>7, <1>11 DEF JobsOf, Steps
<1>14. JobOrdered' /\ JobChecked' /\ JobIndex'
  BY <1>1, <1>3, <1>4, <1>12, <1>13 DEF GitInv, JobOrdered, JobChecked, JobIndex, Edited
<1>15. \A f \in job.changed \ job.written : Held(f, job.preview.before[f])
  BY <1>1, <1>4 DEF GitInv, JobFiles
<1>16. \A f \in job.written : /\ Held(f, job.result[f])
                              /\ job.copies[f] = job.preview.before[f]
  BY <1>1, <1>4 DEF GitInv, JobFiles
<1>17. JobFiles'
  BY <1>3, <1>8, <1>10, <1>12, <1>13, <1>15, <1>16 DEF JobFiles, Held, Edited
<1>18. EditsStep
  BY <1>4, <1>5, <1>10 DEF EditsStep, Found
<1>19. job' # NoJob
  BY <1>13, NoJobAt
<1>20. GitShape'
  BY <1>1, <1>9, <1>13, <1>19 DEF GitInv, GitShape
<1> QED BY <1>14, <1>17, <1>18, <1>19, <1>20 DEF GitInv, EndStep

LEMMA UndoIndexInv ==
  ASSUME GitInv, UndoIndex
  PROVE  GitInv' /\ EditsStep /\ EndStep
<1>1. /\ job.at = "undo" /\ job # NoJob /\ job.written = {} /\ job' = NoJob
      /\ UNCHANGED <<work, head, upstream, stored, gitEdits, excused>>
  BY NoJobAt DEF UndoIndex, Answers
<1>2. /\ gitIndex \in Commits /\ head \in Commits /\ job.preview.index \in Commits
      /\ job.indexed \in BOOLEAN
  BY <1>1, JobKnown DEF GitInv, GitShape
<1>3. gitIndex' \in {gitIndex, job.preview.index}
  BY DEF UndoIndex
<1>4. GitInv' /\ EditsStep
  BY <1>1, <1>2, <1>3, EndsInv
<1>5. ASSUME job.began
      PROVE  EndsWell
  <2>1. CASE answer' = "refused"
    <3>1. gitIndex' = IF job.indexed THEN job.preview.index ELSE gitIndex
      BY <2>1 DEF UndoIndex, Answers
    <3>2. gitIndex' = job.preview.index
      BY <1>1, <1>5, <3>1 DEF GitInv, JobIndex
    <3>3. \A f \in job.changed : work'[f] = job.preview.before[f] \/ Edited(work'[f])
      BY <1>1, <1>5 DEF GitInv, JobFiles, Held
    <3> QED BY <2>1, <3>2, <3>3 DEF EndsWell
  <2>2. CASE answer' # "refused"
    <3>1. answer' = "incomplete" /\ job.copies \in kept'
      BY <2>2 DEF UndoIndex, Answers
    <3> QED BY <1>1, <1>5, <3>1, LeavesCopies
  <2> QED BY <2>1, <2>2
<1> QED BY <1>4, <1>5 DEF EndStep

LEMMA GitCrashInv ==
  ASSUME GitInv, GitCrash
  PROVE  GitInv' /\ EditsStep /\ EndStep
<1>1. /\ job' = NoJob /\ stored' = NoPreview /\ answer' = "none"
      /\ UNCHANGED <<work, gitIndex, head, upstream, gitEdits, excused>>
  BY DEF GitCrash
<1>2. gitIndex \in Commits /\ head \in Commits
  BY DEF GitInv, GitShape
<1>3. GitInv' /\ EditsStep
  BY <1>1, <1>2, EndsInv
<1>4. job # NoJob /\ job.began => job.copies \in kept'
  BY DEF GitCrash
<1>5. job # NoJob /\ job.began => EndsWell
  BY <1>1, <1>4, LeavesCopies
<1> QED BY <1>3, <1>5 DEF EndStep

----------------------------------------------------------------------------
(* Theorems *)

LEMMA GitNextInv ==
  ASSUME GitInv, [GitNext]_gitVars
  PROVE  GitInv' /\ EditsStep /\ EndStep
<1>1. CASE ApplyStep
  BY <1>1, ValidateInv, RecheckInv, CheckFileInv, SwapFileInv, VerifyInv, MoveIndexInv,
     MoveRefInv, UndoInv, UndoSwapInv, UndoIndexInv DEF ApplyStep
<1>2. CASE \E p \in GitPages : Compare(p) \/ Discard(p)
  BY <1>2, BesideSteps
<1>3. CASE \E p \in GitPages : Apply(p)
  BY <1>3, ApplyInv
<1>4. CASE Expire \/ Push \/ RemoveLeftLock
  BY <1>4, BesideSteps
<1>5. CASE \E f \in GitFiles : OutsideEdit(f)
  BY <1>5, OutsideEditInv
<1>6. CASE (\E f \in GitFiles : PanelEdit(f)) \/ OutsidePull
  BY <1>6, IdleEditInv
<1>7. CASE GitCrash
  BY <1>7, GitCrashInv
<1>8. CASE UNCHANGED gitVars
  BY <1>8, BesideInv DEF gitVars, repository, GitInv, GitShape
<1> QED BY <1>1, <1>2, <1>3, <1>4, <1>5, <1>6, <1>7, <1>8 DEF GitNext

\* Whatever an application has written is known to be what it compared, or has its
\* original beside it, at every step (stack-git.ts).
THEOREM GitInvariant == GitSpec => []GitInv
<1>1. GitInit => GitInv
  BY GitInitInv
<1>2. GitInv /\ [GitNext]_gitVars => GitInv'
  BY GitNextInv
<1> QED BY <1>1, <1>2, PTL DEF GitSpec

\* No edit is lost to an application or to its rollback, for any number of files, pages,
\* commits and failures.
THEOREM EditsKept == GitSpec => GitEditsKept
<1>1. GitInv /\ [GitNext]_gitVars =>
        [\A f \in GitFiles :
          (Edited(work[f]) /\ work'[f] # work[f] /\ gitEdits' = gitEdits) =>
              work[f] = job.preview.before[f] \/ work[f].n \in excused]_gitVars
  BY GitNextInv DEF EditsStep
<1> QED BY <1>1, GitInvariant, PTL DEF GitSpec, GitEditsKept

\* An application ends saved, refused or with its originals kept, whatever fails.
THEOREM AllOrNothing == GitSpec => GitAllOrNothing
<1>1. GitInv /\ [GitNext]_gitVars =>
        [(job # NoJob /\ job' = NoJob /\ job.began) => EndsWell]_gitVars
  BY GitNextInv DEF EndStep
<1> QED BY <1>1, GitInvariant, PTL DEF GitSpec, GitAllOrNothing
\* The application of a commit loses neither what others wrote nor what it replaced
\* (stack-git.ts:689-790).
THEOREM CommitsApplied == GitSpec => GitKept
BY EditsKept, AllOrNothing DEF GitKept

----------------------------------------------------------------------------
(* The directories of the stacks *)

\* Where the operations go, step by step.
Selecting == {"get", "query", "fill", "put", "clear"}
JobRecord ==
    [op : {"list", "select", "create", "clone", "deploy", "delete"}, stack : Stacks,
     at : DirSteps, all : Selections, wants : 0..MaxSelections,
     next : {"done", "write", "rmdir"}]
RouteOK(mine) ==
    \/ /\ mine.op = "create"
       /\ \/ mine.at \in {"write", "rmdir"}
          \/ mine.at \in Selecting /\ mine.next \in {"write", "rmdir"}
    \/ /\ mine.op = "clone" /\ mine.next = "done"
       /\ mine.at \in {"validate", "rename", "rmdir"} \cup Selecting
    \/ mine.op \in {"list", "select"} /\ mine.next = "done" /\ mine.at \in Selecting
    \/ mine.op = "deploy" /\ mine.at \in {"up", "ups"}
    \/ /\ mine.op = "delete" /\ mine.next = "done"
       /\ mine.at \in {"down", "count", "rm", "recount", "remove"} \cup Selecting

\* The steps of an operation that fills a directory it made, of one that deletes, and the
\* last step of a deletion.
Making(mine) ==
    \/ mine.op = "create"
    \/ mine.op = "clone" /\ mine.at \in {"rename", "rmdir"}
Deleting(mine) == mine.op = "delete" /\ mine.at \in {"down", "count", "rm", "recount", "remove"}
Removing(mine) == mine.op = "delete" /\ mine.at = "remove"
UnderLock(mine) ==
    \/ mine.op \in {"create", "delete"}
    \/ mine.op = "clone" /\ mine.at \in {"validate", "rename", "rmdir"}

\* Who makes or deletes a directory holds its lock.
JobsInv ==
    /\ requests \in [Requests -> JobRecord \cup {Idle}]
    /\ dirLock \in [Stacks -> Requests \cup {Unlocked}]
    /\ \A s \in Stacks : dirLock[s] # Unlocked =>
         requests[dirLock[s]] # Idle /\ requests[dirLock[s]].stack = s
    /\ \A r \in Requests : requests[r] # Idle =>
         /\ RouteOK(requests[r])
         /\ UnderLock(requests[r]) => dirLock[requests[r].stack] = r

\* A directory is empty for a reason, and none is gone that has containers.
HostInv ==
    /\ files \in [Stacks -> {NoDirectory} \cup SUBSET {"stack", "other"}]
    /\ containers \in [Stacks -> SUBSET {"counted", "fresh"}]
    /\ abandoned \subseteq Stacks
    /\ \A s \in Stacks : files[s] = NoDirectory => "counted" \notin containers[s]
    /\ \A s \in Stacks : files[s] = {} =>
         s \in abandoned \/ \E r \in Requests : Making(requests[r]) /\ requests[r].stack = s
    /\ \A r \in Requests :
         /\ Making(requests[r]) \/ Removing(requests[r]) =>
              "counted" \notin containers[requests[r].stack]
         /\ Deleting(requests[r]) => files[requests[r].stack] # NoDirectory

SettingsInv ==
    /\ selected \in Selections /\ cache \in Selections \cup {NotCached}
    /\ raced \in BOOLEAN /\ selections \in 0..MaxSelections /\ dirTroubles \in 0..MaxDirTroubles

DirInv == JobsInv /\ HostInv /\ SettingsInv

----------------------------------------------------------------------------
(* Requests and their locks *)

LEMMA IdleIs ==
    /\ Idle \notin JobRecord /\ ~Making(Idle) /\ ~Deleting(Idle) /\ ~Removing(Idle)
    /\ ~UnderLock(Idle)
BY DEF Idle, JobRecord, Making, Deleting, Removing, UnderLock

LEMMA DirNumbers ==
    /\ 0 \in 0..MaxSelections /\ [s \in Stacks |-> 0] \in Selections
    /\ \A n \in 0..MaxSelections : n < MaxSelections => n + 1 \in 0..MaxSelections
BY DirBoundsAssumption DEF Selections

\* A request that works on.
LEMMA JobGoes ==
  ASSUME JobsInv, NEW r \in Requests, requests[r] # Idle, NEW mine \in JobRecord,
         requests' = [requests EXCEPT ![r] = mine], RouteOK(mine),
         mine.stack = requests[r].stack,
         \/ dirLock' = dirLock /\ (UnderLock(mine) => UnderLock(requests[r]))
         \/ /\ ~UnderLock(mine) /\ dirLock[mine.stack] = r
            /\ dirLock' = [dirLock EXCEPT ![mine.stack] = Unlocked]
  PROVE  JobsInv'
<1>1. /\ requests \in [Requests -> JobRecord \cup {Idle}]
      /\ dirLock \in [Stacks -> Requests \cup {Unlocked}]
  BY DEF JobsInv
<1>2. requests' \in [Requests -> JobRecord \cup {Idle}]
  BY <1>1
<1>3. dirLock' \in [Stacks -> Requests \cup {Unlocked}]
  BY <1>1
<1>4. requests'[r] = mine /\ mine # Idle /\ \A k \in Requests : k # r => requests'[k] = requests[k]
  BY <1>1, IdleIs
<1>5. mine.stack \in Stacks
  BY DEF JobRecord
<1>6. \A s \in Stacks : dirLock'[s] # Unlocked => dirLock'[s] = dirLock[s]
  BY <1>1
<1>7. ASSUME NEW s \in Stacks, dirLock'[s] # Unlocked
      PROVE  requests'[dirLock'[s]] # Idle /\ requests'[dirLock'[s]].stack = s
  <2>1. dirLock'[s] = dirLock[s] /\ dirLock[s] \in Requests
    BY <1>1, <1>6, <1>7
  <2>2. requests[dirLock[s]] # Idle /\ requests[dirLock[s]].stack = s
    BY <1>7, <2>1 DEF JobsInv
  <2> QED BY <1>4, <2>1, <2>2
<1>8. ASSUME NEW k \in Requests, requests'[k] # Idle
      PROVE  /\ RouteOK(requests'[k])
             /\ UnderLock(requests'[k]) => dirLock'[requests'[k].stack] = k
  <2>1. CASE k = r
    BY <1>4, <2>1 DEF JobsInv
  <2>2. CASE k # r
    <3>1. requests'[k] = requests[k]
      BY <1>4, <2>2
    <3>2. /\ RouteOK(requests[k])
          /\ UnderLock(requests[k]) => dirLock[requests[k].stack] = k
      BY <1>8, <3>1 DEF JobsInv
    <3>3. requests[k].stack \in Stacks
      BY <1>1, <1>8, <3>1 DEF JobRecord
    <3>4. UnderLock(requests[k]) => dirLock'[requests[k].stack] = k
      BY <1>1, <1>5, <2>2, <3>2, <3>3
    <3> QED BY <3>1, <3>2, <3>4
  <2> QED BY <2>1, <2>2
<1> QED BY <1>2, <1>3, <1>7, <1>8 DEF JobsInv

\* A request that ends gives back what it holds.
LEMMA JobEnds ==
  ASSUME JobsInv, NEW r \in Requests, Ends(r)
  PROVE  JobsInv'
<1>1. /\ requests \in [Requests -> JobRecord \cup {Idle}]
      /\ dirLock \in [Stacks -> Requests \cup {Unlocked}]
  BY DEF JobsInv
<1>2. /\ requests' = [requests EXCEPT ![r] = Idle]
      /\ dirLock' = [s \in Stacks |-> IF dirLock[s] = r THEN Unlocked ELSE dirLock[s]]
  BY DEF Ends
<1>3. requests' \in [Requests -> JobRecord \cup {Idle}]
  BY <1>1, <1>2
<1>4. dirLock' \in [Stacks -> Requests \cup {Unlocked}]
  BY <1>1, <1>2
<1>5. requests'[r] = Idle /\ \A k \in Requests : k # r => requests'[k] = requests[k]
  BY <1>1, <1>2
<1>6. ASSUME NEW s \in Stacks, dirLock'[s] # Unlocked
      PROVE  requests'[dirLock'[s]] # Idle /\ requests'[dirLock'[s]].stack = s
  <2>1. dirLock'[s] = dirLock[s] /\ dirLock[s] # r /\ dirLock[s] \in Requests
    BY <1>1, <1>2, <1>6
  <2>2. requests[dirLock[s]] # Idle /\ requests[dirLock[s]].stack = s
    BY <1>6, <2>1 DEF JobsInv
  <2> QED BY <1>5, <2>1, <2>2
<1>7. ASSUME NEW k \in Requests, requests'[k] # Idle
      PROVE  /\ RouteOK(requests'[k])
             /\ UnderLock(requests'[k]) => dirLock'[requests'[k].stack] = k
  <2>1. k # r /\ requests'[k] = requests[k]
    BY <1>5, <1>7
  <2>2. /\ RouteOK(requests[k])
        /\ UnderLock(requests[k]) => dirLock[requests[k].stack] = k
    BY <1>7, <2>1 DEF JobsInv
  <2>3. requests[k].stack \in Stacks
    BY <1>1, <1>7, <2>1 DEF JobRecord
  <2> QED BY <1>2, <2>1, <2>2, <2>3
<1> QED BY <1>3, <1>4, <1>6, <1>7 DEF JobsInv

\* A request that begins, with the lock or without.
LEMMA JobStarts ==
  ASSUME JobsInv, NEW r \in Requests, Free(r), NEW mine \in JobRecord,
         requests' = [requests EXCEPT ![r] = mine], RouteOK(mine),
         (dirLock' = dirLock /\ ~UnderLock(mine)) \/ Takes(r, mine.stack)
  PROVE  JobsInv'
<1>1. /\ requests \in [Requests -> JobRecord \cup {Idle}]
      /\ dirLock \in [Stacks -> Requests \cup {Unlocked}]
  BY DEF JobsInv
<1>2. requests' \in [Requests -> JobRecord \cup {Idle}]
  BY <1>1
<1>3. mine.stack \in Stacks
  BY DEF JobRecord
<1>4. dirLock' \in [Stacks -> Requests \cup {Unlocked}]
  BY <1>1, <1>3 DEF Takes
<1>5. requests'[r] = mine /\ mine # Idle /\ \A k \in Requests : k # r => requests'[k] = requests[k]
  BY <1>1, IdleIs
<1>6. ASSUME NEW s \in Stacks, dirLock'[s] # Unlocked
      PROVE  requests'[dirLock'[s]] # Idle /\ requests'[dirLock'[s]].stack = s
  <2>1. CASE dirLock'[s] = dirLock[s]
    <3>1. dirLock[s] \in Requests /\ requests[dirLock[s]] # Idle
          /\ requests[dirLock[s]].stack = s
      BY <1>1, <1>6, <2>1 DEF JobsInv
    <3>2. dirLock[s] # r
      BY <3>1 DEF Free
    <3> QED BY <1>5, <2>1, <3>1, <3>2
  <2>2. CASE dirLock'[s] # dirLock[s]
    <3>1. s = mine.stack /\ dirLock'[s] = r
      BY <1>1, <1>3, <2>2 DEF Takes
    <3> QED BY <1>5, <3>1
  <2> QED BY <2>1, <2>2
<1>7. ASSUME NEW k \in Requests, requests'[k] # Idle
      PROVE  /\ RouteOK(requests'[k])
             /\ UnderLock(requests'[k]) => dirLock'[requests'[k].stack] = k
  <2>1. CASE k = r
    BY <1>1, <1>3, <1>5, <2>1 DEF Takes
  <2>2. CASE k # r
    <3>1. requests'[k] = requests[k]
      BY <1>5, <2>2
    <3>2. /\ RouteOK(requests[k])
          /\ UnderLock(requests[k]) => dirLock[requests[k].stack] = k
      BY <1>7, <3>1 DEF JobsInv
    <3>3. requests[k].stack \in Stacks
      BY <1>1, <1>7, <3>1 DEF JobRecord
    <3>4. UnderLock(requests[k]) => dirLock[requests[k].stack] # Unlocked
      BY <3>2, DirNamesAssumption
    <3>5. UnderLock(requests[k]) => dirLock'[requests[k].stack] = k
      BY <1>1, <1>3, <3>2, <3>3, <3>4 DEF Takes
    <3> QED BY <3>1, <3>2, <3>5
  <2> QED BY <2>1, <2>2
<1> QED BY <1>2, <1>4, <1>6, <1>7 DEF JobsInv

\* Two requests do not work on one directory.
LEMMA OneWorks ==
  ASSUME JobsInv, NEW r \in Requests, NEW k \in Requests, requests[r] # Idle,
         requests[k] # Idle, requests[r].stack = requests[k].stack,
         UnderLock(requests[r]), UnderLock(requests[k])
  PROVE  r = k
BY DEF JobsInv

LEMMA WorksLocked ==
  ASSUME NEW mine, Making(mine) \/ Deleting(mine) \/ Removing(mine)
  PROVE  UnderLock(mine) /\ mine # Idle
BY IdleIs DEF Making, Deleting, Removing, UnderLock

\* A request moves on and leaves the host as it is.
LEMMA HostKept ==
  ASSUME JobsInv, HostInv, NEW r \in Requests, NEW mine \in JobRecord \cup {Idle},
         requests' = [requests EXCEPT ![r] = mine],
         UNCHANGED <<files, containers, abandoned>>,
         Making(mine) \/ Removing(mine) => "counted" \notin containers[mine.stack],
         Deleting(mine) => files[mine.stack] # NoDirectory,
         Making(requests[r]) /\ files[requests[r].stack] = {} =>
            Making(mine) /\ mine.stack = requests[r].stack
  PROVE  HostInv' /\ OthersFilesStay /\ NoContainerForgotten
<1>1. requests'[r] = mine /\ \A k \in Requests : k # r => requests'[k] = requests[k]
  BY DEF JobsInv
<1>2. ASSUME NEW s \in Stacks, files[s] = {}, s \notin abandoned
      PROVE  \E k \in Requests : Making(requests'[k]) /\ requests'[k].stack = s
  <2>1. PICK k \in Requests : Making(requests[k]) /\ requests[k].stack = s
    BY <1>2 DEF HostInv
  <2> QED BY <1>1, <1>2, <2>1
<1>3. ASSUME NEW k \in Requests
      PROVE  /\ Making(requests'[k]) \/ Removing(requests'[k]) =>
                  "counted" \notin containers[requests'[k].stack]
             /\ Deleting(requests'[k]) => files[requests'[k].stack] # NoDirectory
  BY <1>1 DEF HostInv
<1>4. HostInv'
  BY <1>2, <1>3 DEF HostInv
<1>5. OthersFilesStay /\ NoContainerForgotten
  BY DEF OthersFilesStay, NoContainerForgotten
<1> QED BY <1>4, <1>5

----------------------------------------------------------------------------
(* Selections *)

DirStepOK == DirInv' /\ OthersFilesStay /\ NoContainerForgotten

LEMMA Troubles ==
  ASSUME SettingsInv, DirTrouble
  PROVE  dirTroubles' \in 0..MaxDirTroubles
BY DirBoundsAssumption DEF SettingsInv, DirTrouble

\* What a request is.
LEMMA JobIs ==
  ASSUME JobsInv, NEW r \in Requests, requests[r] # Idle
  PROVE  /\ requests[r] \in JobRecord /\ RouteOK(requests[r])
         /\ requests[r].stack \in Stacks /\ requests[r].all \in Selections
         /\ requests[r].wants \in 0..MaxSelections
         /\ requests[r].next \in {"done", "write", "rmdir"}
<1>1. requests[r] \in JobRecord /\ RouteOK(requests[r])
  BY DEF JobsInv
<1> QED BY <1>1 DEF JobRecord

\* Within a selection, a request stays what it is.
LEMMA SelectingGoes ==
  ASSUME JobsInv, HostInv, NEW r \in Requests, requests[r] # Idle,
         requests[r].at \in Selecting, NEW at \in Selecting, NEW all \in Selections,
         requests' = [requests EXCEPT ![r] = [requests[r] EXCEPT !.at = at, !.all = all]],
         UNCHANGED <<dirLock, files, containers, abandoned>>
  PROVE  JobsInv' /\ HostInv' /\ OthersFilesStay /\ NoContainerForgotten
<1> DEFINE mine == [requests[r] EXCEPT !.at = at, !.all = all]
<1>1. requests[r] \in JobRecord /\ RouteOK(requests[r])
  BY JobIs
<1>2. at \in DirSteps
  BY DEF Selecting, DirSteps
<1>3. /\ mine \in JobRecord /\ mine.at = at /\ mine.op = requests[r].op
      /\ mine.stack = requests[r].stack /\ mine.next = requests[r].next
  BY <1>1, <1>2 DEF JobRecord
<1>4. requests' = [requests EXCEPT ![r] = mine]
  OBVIOUS
<1> HIDE DEF mine
<1>5. RouteOK(mine)
  BY <1>1, <1>3 DEF RouteOK, Selecting
<1>6. /\ UnderLock(mine) <=> UnderLock(requests[r])
      /\ Making(mine) <=> Making(requests[r])
      /\ ~Deleting(mine) /\ ~Removing(mine)
  BY <1>1, <1>3 DEF RouteOK, Selecting, UnderLock, Making, Deleting, Removing
<1>7. JobsInv'
  BY <1>3, <1>4, <1>5, <1>6, JobGoes
<1>8. Making(mine) => "counted" \notin containers[mine.stack]
  BY <1>3, <1>6 DEF HostInv
<1>9. HostInv' /\ OthersFilesStay /\ NoContainerForgotten
  BY <1>3, <1>4, <1>6, <1>8, HostKept
<1> QED BY <1>7, <1>9

\* The end of a selection.
LEMMA SelectingEnds ==
  ASSUME JobsInv, HostInv, NEW r \in Requests, requests[r] # Idle,
         requests[r].at \in Selecting, GoesOn(r, requests[r].next),
         UNCHANGED <<files, containers, abandoned>>
  PROVE  JobsInv' /\ HostInv' /\ OthersFilesStay /\ NoContainerForgotten
<1>1. /\ requests[r] \in JobRecord /\ RouteOK(requests[r])
      /\ requests[r].next \in {"done", "write", "rmdir"}
  BY JobIs
<1>2. CASE requests[r].next = "done"
  <2>1. Ends(r)
    BY <1>2 DEF GoesOn
  <2>2. ~Making(requests[r])
    BY <1>1, <1>2 DEF RouteOK, Selecting, Making
  <2>3. requests' = [requests EXCEPT ![r] = Idle]
    BY <2>1 DEF Ends
  <2> QED BY <2>1, <2>2, <2>3, JobEnds, HostKept, IdleIs
<1>3. CASE requests[r].next # "done"
  <2> DEFINE mine == [requests[r] EXCEPT !.at = requests[r].next]
  <2>1. requests' = [requests EXCEPT ![r] = mine] /\ dirLock' = dirLock
    BY <1>3 DEF GoesOn, DirGoes
  <2>2. /\ mine \in JobRecord /\ mine.at \in {"write", "rmdir"} /\ mine.op = requests[r].op
        /\ mine.stack = requests[r].stack
    BY <1>1, <1>3 DEF JobRecord, DirSteps
  <2> HIDE DEF mine
  <2>3. mine.op = "create"
    BY <1>1, <1>3, <2>2 DEF RouteOK, Selecting
  <2>4. RouteOK(mine) /\ Making(mine) /\ Making(requests[r]) /\ UnderLock(requests[r])
        /\ ~Deleting(mine) /\ ~Removing(mine)
    BY <2>2, <2>3 DEF RouteOK, Making, UnderLock, Deleting, Removing
  <2>5. "counted" \notin containers[mine.stack]
    BY <2>2, <2>4 DEF HostInv
  <2>6. JobsInv'
    BY <2>1, <2>2, <2>4, JobGoes
  <2> QED BY <2>1, <2>2, <2>4, <2>5, <2>6, HostKept
<1> QED BY <1>2, <1>3

LEMMA AtNotIdle ==
  ASSUME NEW r, NEW at, At(r, at)
  PROVE  requests[r] # Idle /\ requests[r].at = at
BY DEF At

LEMMA ConfigGetOK ==
  ASSUME DirInv, NEW r \in Requests, ConfigGet(r)
  PROVE  DirStepOK
<1>1. /\ requests[r] # Idle /\ requests[r].at = "get" /\ requests[r] \in JobRecord
      /\ requests[r].all \in Selections
  BY AtNotIdle, JobIs DEF ConfigGet, DirInv
<1>2. UNCHANGED <<dirLock, files, containers, abandoned, dirTroubles, settings>>
  BY DEF ConfigGet, KeepsHost
<1>3. SettingsInv'
  BY <1>2 DEF DirInv, SettingsInv, settings
<1>4. \E at \in Selecting, all \in Selections :
         requests' = [requests EXCEPT ![r] = [requests[r] EXCEPT !.at = at, !.all = all]]
  <2>1. CASE cache # NotCached /\ requests' = [requests EXCEPT ![r].at = "put", ![r].all = cache]
    <3>1. cache \in Selections
      BY <2>1 DEF DirInv, SettingsInv
    <3>2. requests' = [requests EXCEPT ![r] = [requests[r] EXCEPT !.at = "put", !.all = cache]]
      BY <2>1 DEF DirInv, JobsInv
    <3> QED BY <3>1, <3>2 DEF Selecting
  <2>2. CASE DirGoes(r, "query")
    <3>1. [requests[r] EXCEPT !.at = "query"] =
             [requests[r] EXCEPT !.at = "query", !.all = requests[r].all]
      BY <1>1 DEF JobRecord
    <3>2. requests' = [requests EXCEPT ![r] =
             [requests[r] EXCEPT !.at = "query", !.all = requests[r].all]]
      BY <2>2, <3>1 DEF DirGoes
    <3> QED BY <1>1, <3>2 DEF Selecting
  <2> QED BY <2>1, <2>2 DEF ConfigGet
<1> QED BY <1>1, <1>2, <1>3, <1>4, SelectingGoes DEF DirInv, DirStepOK, Selecting

LEMMA ConfigQueryOK ==
  ASSUME DirInv, NEW r \in Requests, ConfigQuery(r)
  PROVE  DirStepOK
<1>1. /\ requests[r] # Idle /\ requests[r].at = "query" /\ requests[r] \in JobRecord
  BY AtNotIdle, JobIs DEF ConfigQuery, DirInv
<1>2. UNCHANGED <<dirLock, files, containers, abandoned, settings>>
  BY DEF ConfigQuery, KeepsHost
<1>3. SettingsInv'
  <2>1. dirTroubles' \in 0..MaxDirTroubles
    BY Troubles DEF ConfigQuery, DirInv, SettingsInv
  <2> QED BY <1>2, <2>1 DEF DirInv, SettingsInv, settings
<1>4. \E at \in Selecting, all \in Selections :
         requests' = [requests EXCEPT ![r] = [requests[r] EXCEPT !.at = at, !.all = all]]
  <2>1. CASE requests' = [requests EXCEPT ![r].at = "fill", ![r].all = selected]
    <3>1. requests' = [requests EXCEPT ![r] = [requests[r] EXCEPT !.at = "fill", !.all = selected]]
      BY <2>1 DEF DirInv, JobsInv
    <3> QED BY <3>1 DEF Selecting, DirInv, SettingsInv
  <2>2. CASE requests' = [requests EXCEPT ![r].at = "put", ![r].all = [s \in Stacks |-> 0]]
    <3> DEFINE none == [s \in Stacks |-> 0]
    <3>1. none \in Selections
      BY DirNumbers
    <3>2. requests' = [requests EXCEPT ![r].at = "put", ![r].all = none]
      BY <2>2
    <3> HIDE DEF none
    <3>3. requests' = [requests EXCEPT ![r] = [requests[r] EXCEPT !.at = "put", !.all = none]]
      BY <3>2 DEF DirInv, JobsInv
    <3> QED BY <3>1, <3>3 DEF Selecting
  <2> QED BY <2>1, <2>2 DEF ConfigQuery
<1> QED BY <1>1, <1>2, <1>3, <1>4, SelectingGoes DEF DirInv, DirStepOK, Selecting

LEMMA ConfigFillOK ==
  ASSUME DirInv, NEW r \in Requests, ConfigFill(r)
  PROVE  DirStepOK
<1>1. /\ requests[r] # Idle /\ requests[r].at = "fill" /\ requests[r] \in JobRecord
      /\ requests[r].all \in Selections
  BY AtNotIdle, JobIs DEF ConfigFill, DirInv
<1>2. UNCHANGED <<dirLock, files, containers, abandoned>>
  BY DEF ConfigFill, KeepsHost
<1>3. SettingsInv'
  BY <1>1 DEF ConfigFill, DirInv, SettingsInv
<1>4. requests' = [requests EXCEPT ![r] =
             [requests[r] EXCEPT !.at = "put", !.all = requests[r].all]]
  <2>1. [requests[r] EXCEPT !.at = "put"] =
             [requests[r] EXCEPT !.at = "put", !.all = requests[r].all]
    BY <1>1 DEF JobRecord
  <2> QED BY <2>1 DEF ConfigFill, DirGoes
<1> QED BY <1>1, <1>2, <1>3, <1>4, SelectingGoes DEF DirInv, DirStepOK, Selecting

LEMMA ConfigPutOK ==
  ASSUME DirInv, NEW r \in Requests, ConfigPut(r)
  PROVE  DirStepOK
<1>1. /\ requests[r] # Idle /\ requests[r].at = "put" /\ requests[r] \in JobRecord
      /\ requests[r].all \in Selections /\ requests[r].stack \in Stacks
      /\ requests[r].wants \in 0..MaxSelections
  BY AtNotIdle, JobIs DEF ConfigPut, DirInv
<1>2. UNCHANGED <<files, containers, abandoned, cache, raced, selections>>
  BY DEF ConfigPut, KeepsHost
<1>3. SettingsInv'
  <2>1. dirTroubles' \in 0..MaxDirTroubles
    BY Troubles DEF ConfigPut, DirInv, SettingsInv
  <2>2. [requests[r].all EXCEPT ![requests[r].stack] = requests[r].wants] \in Selections
    BY <1>1 DEF Selections
  <2>3. selected' \in Selections
    BY <2>2 DEF ConfigPut, DirInv, SettingsInv
  <2> QED BY <1>2, <2>1, <2>3 DEF DirInv, SettingsInv
<1>4. CASE GoesOn(r, requests[r].next)
  BY <1>1, <1>2, <1>3, <1>4, SelectingEnds DEF DirInv, DirStepOK, Selecting
<1>5. CASE DirGoes(r, "clear") /\ UNCHANGED dirLock
  <2>1. requests' = [requests EXCEPT ![r] =
             [requests[r] EXCEPT !.at = "clear", !.all = requests[r].all]]
    <3>1. [requests[r] EXCEPT !.at = "clear"] =
             [requests[r] EXCEPT !.at = "clear", !.all = requests[r].all]
      BY <1>1 DEF JobRecord
    <3> QED BY <1>5, <3>1 DEF DirGoes
  <2> QED BY <1>1, <1>2, <1>3, <1>5, <2>1, SelectingGoes DEF DirInv, DirStepOK, Selecting
<1> QED BY <1>4, <1>5 DEF ConfigPut

LEMMA ConfigClearOK ==
  ASSUME DirInv, NEW r \in Requests, ConfigClear(r)
  PROVE  DirStepOK
<1>1. /\ requests[r] # Idle /\ requests[r].at = "clear"
      /\ GoesOn(r, requests[r].next) /\ UNCHANGED <<files, containers, abandoned>>
  BY AtNotIdle DEF ConfigClear, KeepsHost
<1>2. SettingsInv'
  BY DEF ConfigClear, DirInv, SettingsInv
<1> QED BY <1>1, <1>2, SelectingEnds DEF DirInv, DirStepOK, Selecting

----------------------------------------------------------------------------
(* The host *)

\* What the others that work on a stack need of it, and what is known of the others' stacks.
OthersAgree(r, s, dir, set) ==
    \A k \in Requests : k # r /\ requests[k] # Idle /\ requests[k].stack = s =>
       /\ Making(requests[k]) \/ Removing(requests[k]) => "counted" \notin set
       /\ Deleting(requests[k]) => dir # NoDirectory
AbandonsOnly(s) ==
    /\ abandoned' \subseteq Stacks
    /\ \A t \in Stacks : t # s => (t \in abandoned => t \in abandoned')

\* A request changes what is there of one stack.
LEMMA HostChanges ==
  ASSUME JobsInv, HostInv, NEW r \in Requests, NEW mine \in JobRecord \cup {Idle},
         NEW s \in Stacks, NEW dir \in {NoDirectory} \cup SUBSET {"stack", "other"},
         NEW set \in SUBSET {"counted", "fresh"},
         requests' = [requests EXCEPT ![r] = mine],
         files' = [files EXCEPT ![s] = dir], containers' = [containers EXCEPT ![s] = set],
         AbandonsOnly(s),
         dir = NoDirectory => "counted" \notin set,
         dir = {} => s \in abandoned' \/ (Making(mine) /\ mine.stack = s),
         requests[r] # Idle => requests[r].stack = s,
         mine # Idle => mine.stack = s,
         Making(mine) \/ Removing(mine) => "counted" \notin set,
         Deleting(mine) => dir # NoDirectory,
         OthersAgree(r, s, dir, set),
         "other" \in files[s] /\ "other" \notin dir => At(r, "remove") /\ mine # requests[r],
         files[s] # NoDirectory /\ dir = NoDirectory => "counted" \notin containers[s]
  PROVE  HostInv' /\ OthersFilesStay /\ NoContainerForgotten
<1>1. requests'[r] = mine /\ \A k \in Requests : k # r => requests'[k] = requests[k]
  BY DEF JobsInv
<1>2. /\ files \in [Stacks -> {NoDirectory} \cup SUBSET {"stack", "other"}]
      /\ containers \in [Stacks -> SUBSET {"counted", "fresh"}]
  BY DEF HostInv
<1>3. /\ files' \in [Stacks -> {NoDirectory} \cup SUBSET {"stack", "other"}]
      /\ containers' \in [Stacks -> SUBSET {"counted", "fresh"}]
  BY <1>2
<1>4. /\ files'[s] = dir /\ containers'[s] = set
      /\ \A t \in Stacks : t # s => files'[t] = files[t] /\ containers'[t] = containers[t]
  BY <1>2
<1>5. \A t \in Stacks : files'[t] = NoDirectory => "counted" \notin containers'[t]
  BY <1>4 DEF HostInv
<1>6. ASSUME NEW t \in Stacks, files'[t] = {}, t \notin abandoned'
      PROVE  \E k \in Requests : Making(requests'[k]) /\ requests'[k].stack = t
  <2>1. CASE t = s
    BY <1>1, <1>4, <1>6, <2>1
  <2>2. CASE t # s
    <3>1. files[t] = {} /\ t \notin abandoned
      BY <1>4, <1>6, <2>2 DEF AbandonsOnly
    <3>2. PICK k \in Requests : Making(requests[k]) /\ requests[k].stack = t
      BY <3>1 DEF HostInv
    <3>3. k # r
      BY <2>2, <3>2, IdleIs
    <3> QED BY <1>1, <3>2, <3>3
  <2> QED BY <2>1, <2>2
<1>7. ASSUME NEW k \in Requests
      PROVE  /\ Making(requests'[k]) \/ Removing(requests'[k]) =>
                  "counted" \notin containers'[requests'[k].stack]
             /\ Deleting(requests'[k]) => files'[requests'[k].stack] # NoDirectory
  <2>1. CASE k = r
    BY <1>1, <1>4, <2>1, IdleIs
  <2>2. CASE k # r
    <3>1. requests'[k] = requests[k]
      BY <1>1, <2>2
    <3>2. CASE requests[k] = Idle
      BY <3>1, <3>2, IdleIs
    <3>3. CASE requests[k] # Idle
      <4>1. requests[k].stack \in Stacks
        BY <3>3, JobIs
      <4>2. CASE requests[k].stack = s
        BY <1>4, <2>2, <3>1, <3>3, <4>2 DEF OthersAgree
      <4>3. CASE requests[k].stack # s
        BY <1>4, <3>1, <4>1, <4>3 DEF HostInv
      <4> QED BY <4>2, <4>3
    <3> QED BY <3>2, <3>3
  <2> QED BY <2>1, <2>2
<1>8. HostInv'
  BY <1>3, <1>5, <1>6, <1>7 DEF HostInv, AbandonsOnly
<1>9. OthersFilesStay
  <2> SUFFICES ASSUME NEW t \in Stacks, "other" \in files[t], "other" \notin files'[t]
               PROVE  \E k \in Requests : Does(k, "remove", t)
    BY DEF OthersFilesStay
  <2>1. t = s /\ "other" \notin dir
    BY <1>4
  <2>2. At(r, "remove") /\ mine # requests[r]
    BY <2>1
  <2> QED BY <1>1, <2>1, <2>2 DEF Does, At
<1>10. NoContainerForgotten
  BY <1>4 DEF NoContainerForgotten
<1> QED BY <1>8, <1>9, <1>10

\* The same, by the holder of the stack's lock: nobody else works there.
LEMMA HolderChanges ==
  ASSUME JobsInv, HostInv, NEW r \in Requests, NEW mine \in JobRecord \cup {Idle},
         NEW s \in Stacks, NEW dir \in {NoDirectory} \cup SUBSET {"stack", "other"},
         NEW set \in SUBSET {"counted", "fresh"},
         requests[r] # Idle, requests[r].stack = s, UnderLock(requests[r]),
         requests' = [requests EXCEPT ![r] = mine],
         files' = [files EXCEPT ![s] = dir], containers' = [containers EXCEPT ![s] = set],
         AbandonsOnly(s),
         dir = NoDirectory => "counted" \notin set,
         dir = {} => s \in abandoned' \/ (Making(mine) /\ mine.stack = s),
         mine # Idle => mine.stack = s,
         Making(mine) \/ Removing(mine) => "counted" \notin set,
         Deleting(mine) => dir # NoDirectory,
         "other" \in files[s] /\ "other" \notin dir => At(r, "remove") /\ mine # requests[r],
         files[s] # NoDirectory /\ dir = NoDirectory => "counted" \notin containers[s]
  PROVE  HostInv' /\ OthersFilesStay /\ NoContainerForgotten
<1>1. ASSUME NEW k \in Requests, k # r, requests[k] # Idle, requests[k].stack = s
      PROVE  ~Making(requests[k]) /\ ~Removing(requests[k]) /\ ~Deleting(requests[k])
  BY <1>1, OneWorks, WorksLocked
<1>2. OthersAgree(r, s, dir, set)
  BY <1>1 DEF OthersAgree
<1> QED BY <1>2, HostChanges

\* Names and sets of the host.
LEMMA HostFacts ==
    /\ \A d \in SUBSET {"stack", "other"} : d # NoDirectory
    /\ \A d \in SUBSET {"stack", "other"} :
         d \cup {"stack"} \in SUBSET {"stack", "other"} /\ d \cup {"stack"} # {}
    /\ {} \in SUBSET {"stack", "other"} /\ {"stack"} \in SUBSET {"stack", "other"}
    /\ {} # NoDirectory /\ {"stack"} # {} /\ "other" \notin NoDirectory
    /\ "stack" \notin NoDirectory
BY DEF NoDirectory

LEMMA KeepsContainers ==
  ASSUME HostInv, NEW s \in Stacks
  PROVE  /\ containers = [containers EXCEPT ![s] = containers[s]]
         /\ files = [files EXCEPT ![s] = files[s]]
         /\ containers[s] \in SUBSET {"counted", "fresh"}
         /\ files[s] \in {NoDirectory} \cup SUBSET {"stack", "other"}
BY DEF HostInv

----------------------------------------------------------------------------
(* Requests begin *)

\* A new request that leaves the host as it is.
LEMMA Begins ==
  ASSUME DirInv, NEW r \in Requests, Free(r), NEW mine \in JobRecord,
         requests' = [requests EXCEPT ![r] = mine], RouteOK(mine), ~Making(mine),
         ~Removing(mine), Deleting(mine) => files[mine.stack] # NoDirectory,
         (dirLock' = dirLock /\ ~UnderLock(mine)) \/ Takes(r, mine.stack),
         UNCHANGED <<files, containers, abandoned>>, SettingsInv'
  PROVE  DirStepOK
<1>1. JobsInv'
  BY JobStarts DEF DirInv
<1>2. ~Making(requests[r])
  BY IdleIs DEF Free
<1>3. HostInv' /\ OthersFilesStay /\ NoContainerForgotten
  BY <1>2, HostKept DEF DirInv
<1> QED BY <1>1, <1>3 DEF DirInv, DirStepOK

LEMMA NewJob ==
  ASSUME NEW s \in Stacks, NEW wants \in 0..MaxSelections,
         NEW op \in {"list", "select", "create", "clone", "deploy", "delete"},
         NEW at \in DirSteps, NEW next \in {"done", "write", "rmdir"}
  PROVE  [Job(op, s, at) EXCEPT !.wants = wants, !.next = next] \in JobRecord
BY DirNumbers DEF Job, JobRecord

LEMMA Freshly ==
  ASSUME SettingsInv, Fresh
  PROVE  selections' \in 0..MaxSelections
BY DirBoundsAssumption DEF SettingsInv, Fresh

LEMMA ListOK ==
  ASSUME DirInv, NEW r \in Requests, NEW s \in Stacks, List(r, s)
  PROVE  DirStepOK
<1> DEFINE mine == [Job("list", s, "get") EXCEPT !.at = "get", !.wants = 0, !.next = "done"]
<1>1. mine \in JobRecord /\ mine.op = "list" /\ mine.at = "get" /\ mine.next = "done"
      /\ mine.stack = s
  BY DirNumbers DEF Job, JobRecord, DirSteps
<1>2. requests' = [requests EXCEPT ![r] = mine] /\ Free(r) /\ dirLock' = dirLock
      /\ UNCHANGED <<files, containers, abandoned, settings, dirTroubles>>
  BY DEF List, Selects, KeepsHost
<1>3. SettingsInv'
  BY <1>2 DEF DirInv, SettingsInv, settings
<1> HIDE DEF mine
<1>4. RouteOK(mine) /\ ~Making(mine) /\ ~Removing(mine) /\ ~Deleting(mine) /\ ~UnderLock(mine)
  BY <1>1 DEF RouteOK, Making, Removing, Deleting, UnderLock, Selecting
<1> QED BY <1>1, <1>2, <1>3, <1>4, Begins

LEMMA SelectOK ==
  ASSUME DirInv, NEW r \in Requests, NEW s \in Stacks, Select(r, s)
  PROVE  DirStepOK
<1> DEFINE mine == [Job("select", s, "get") EXCEPT !.at = "get", !.wants = selections',
                                                   !.next = "done"]
<1>1. selections' \in 0..MaxSelections
  BY Freshly DEF Select, DirInv
<1>2. mine \in JobRecord /\ mine.op = "select" /\ mine.at = "get" /\ mine.next = "done"
      /\ mine.stack = s
  BY <1>1, DirNumbers DEF Job, JobRecord, DirSteps
<1>3. requests' = [requests EXCEPT ![r] = mine] /\ Free(r) /\ Takes(r, s)
      /\ UNCHANGED <<files, containers, abandoned, selected, cache, raced, dirTroubles>>
  BY DEF Select, Selects, KeepsHost
<1>4. SettingsInv'
  BY <1>1, <1>3 DEF DirInv, SettingsInv
<1> HIDE DEF mine
<1>5. RouteOK(mine) /\ ~Making(mine) /\ ~Removing(mine) /\ ~Deleting(mine)
  BY <1>2 DEF RouteOK, Making, Removing, Deleting, UnderLock, Selecting
<1> QED BY <1>2, <1>3, <1>4, <1>5, Begins

LEMMA CloneOK ==
  ASSUME DirInv, NEW r \in Requests, NEW s \in Stacks, Clone(r, s)
  PROVE  DirStepOK
<1> DEFINE mine == [Job("clone", s, "validate") EXCEPT !.wants = selections']
<1>1. selections' \in 0..MaxSelections
  BY Freshly DEF Clone, DirInv
<1>2. mine \in JobRecord /\ mine.op = "clone" /\ mine.at = "validate" /\ mine.next = "done"
      /\ mine.stack = s
  BY <1>1, DirNumbers DEF Job, JobRecord, DirSteps
<1>3. requests' = [requests EXCEPT ![r] = mine] /\ Free(r) /\ Takes(r, s)
      /\ UNCHANGED <<files, containers, abandoned, selected, cache, raced, dirTroubles>>
  BY DEF Clone, KeepsHost
<1>4. SettingsInv'
  BY <1>1, <1>3 DEF DirInv, SettingsInv
<1> HIDE DEF mine
<1>5. RouteOK(mine) /\ ~Making(mine) /\ ~Removing(mine) /\ ~Deleting(mine)
  BY <1>2 DEF RouteOK, Making, Removing, Deleting, UnderLock, Selecting
<1> QED BY <1>2, <1>3, <1>4, <1>5, Begins

LEMMA DeployOK ==
  ASSUME DirInv, NEW r \in Requests, NEW s \in Stacks, Deploy(r, s)
  PROVE  DirStepOK
<1>1. Job("deploy", s, "up") \in JobRecord
  BY DirNumbers DEF Job, JobRecord, DirSteps
<1>2. LET mine == Job("deploy", s, "up") IN
      /\ RouteOK(mine) /\ ~Making(mine) /\ ~Removing(mine) /\ ~Deleting(mine)
      /\ ~UnderLock(mine)
  BY DEF Job, RouteOK, Making, Removing, Deleting, UnderLock, Selecting
<1>3. requests' = [requests EXCEPT ![r] = Job("deploy", s, "up")] /\ Free(r)
      /\ UNCHANGED <<files, containers, abandoned, dirLock, settings, dirTroubles>>
  BY DEF Deploy, KeepsHost
<1>4. SettingsInv'
  BY <1>3 DEF DirInv, SettingsInv, settings
<1> QED BY <1>1, <1>2, <1>3, <1>4, Begins

LEMMA DeleteOK ==
  ASSUME DirInv, NEW r \in Requests, NEW s \in Stacks, Delete(r, s)
  PROVE  DirStepOK
<1>1. Job("delete", s, "down") \in JobRecord /\ Job("delete", s, "down").stack = s
  BY DirNumbers DEF Job, JobRecord, DirSteps
<1>2. LET mine == Job("delete", s, "down") IN
      RouteOK(mine) /\ ~Making(mine) /\ ~Removing(mine)
  BY DEF Job, RouteOK, Making, Removing, Selecting
<1>3. requests' = [requests EXCEPT ![r] = Job("delete", s, "down")] /\ Free(r) /\ Takes(r, s)
      /\ files[s] # NoDirectory
      /\ UNCHANGED <<files, containers, abandoned, settings, dirTroubles>>
  BY DEF Delete, KeepsHost
<1>4. SettingsInv'
  BY <1>3 DEF DirInv, SettingsInv, settings
<1> QED BY <1>1, <1>2, <1>3, <1>4, Begins

LEMMA CreateOK ==
  ASSUME DirInv, NEW r \in Requests, NEW s \in Stacks, Create(r, s)
  PROVE  DirStepOK
<1> DEFINE mine == [Job("create", s, "get") EXCEPT !.at = "get", !.wants = selections',
                                                   !.next = "write"]
<1>1. selections' \in 0..MaxSelections
  BY Freshly DEF Create, DirInv
<1>2. mine \in JobRecord /\ mine.op = "create" /\ mine.at = "get" /\ mine.next = "write"
      /\ mine.stack = s
  BY <1>1, DirNumbers DEF Job, JobRecord, DirSteps
<1>3. requests' = [requests EXCEPT ![r] = mine] /\ requests[r] = Idle /\ Takes(r, s)
      /\ files[s] = NoDirectory /\ files' = [files EXCEPT ![s] = {}]
      /\ UNCHANGED <<containers, abandoned, selected, cache, raced, dirTroubles>>
  BY DEF Create, Selects, Free
<1>4. SettingsInv'
  BY <1>1, <1>3 DEF DirInv, SettingsInv
<1> HIDE DEF mine
<1>5. RouteOK(mine) /\ Making(mine) /\ ~Removing(mine) /\ ~Deleting(mine)
  BY <1>2 DEF RouteOK, Making, Removing, Deleting, Selecting
<1>6. JobsInv'
  BY <1>2, <1>3, <1>5, JobStarts DEF DirInv, Free
<1>7. "counted" \notin containers[s] /\ abandoned \subseteq Stacks
  BY <1>3 DEF DirInv, HostInv
<1>8. HostInv' /\ OthersFilesStay /\ NoContainerForgotten
  <2>1. containers' = [containers EXCEPT ![s] = containers[s]]
        /\ containers[s] \in SUBSET {"counted", "fresh"}
    BY <1>3, KeepsContainers DEF DirInv
  <2>2. AbandonsOnly(s)
    BY <1>3, <1>7 DEF AbandonsOnly
  <2>3. OthersAgree(r, s, {}, containers[s])
    BY HostFacts DEF OthersAgree, DirInv, HostInv
  <2>4. "other" \notin files[s]
    BY <1>3, HostFacts
  <2>5. /\ mine \in JobRecord \cup {Idle} /\ mine # Idle
        /\ {} \in {NoDirectory} \cup SUBSET {"stack", "other"} /\ {} # NoDirectory
    BY <1>2, HostFacts, IdleIs
  <2>6. JobsInv /\ HostInv
    BY DEF DirInv
  <2> QED BY <1>2, <1>3, <1>5, <1>7, <2>1, <2>2, <2>3, <2>4, <2>5, <2>6, HostChanges
<1> QED BY <1>4, <1>6, <1>8 DEF DirInv, DirStepOK

----------------------------------------------------------------------------
(* Requests work *)

\* The next step of a request, and what it does not change.
LEMMA NextStepAt ==
  ASSUME JobsInv, NEW r \in Requests, requests[r] # Idle, NEW at \in DirSteps,
         DirGoes(r, at)
  PROVE  \E mine \in JobRecord :
            /\ requests' = [requests EXCEPT ![r] = mine]
            /\ mine.at = at /\ mine.op = requests[r].op /\ mine.stack = requests[r].stack
            /\ mine.next = requests[r].next
<1> DEFINE mine == [requests[r] EXCEPT !.at = at]
<1>1. requests[r] \in JobRecord
  BY JobIs
<1>2. mine \in JobRecord /\ mine.at = at /\ mine.op = requests[r].op
      /\ mine.stack = requests[r].stack /\ mine.next = requests[r].next
  BY <1>1 DEF JobRecord
<1>3. requests' = [requests EXCEPT ![r] = mine]
  BY DEF DirGoes
<1> QED BY <1>2, <1>3

LEMMA SelectsAt ==
  ASSUME JobsInv, NEW r \in Requests, requests[r] # Idle, NEW wants \in 0..MaxSelections,
         NEW next \in {"done", "write", "rmdir"}, Selects(r, requests[r], wants, next)
  PROVE  \E mine \in JobRecord :
            /\ requests' = [requests EXCEPT ![r] = mine]
            /\ mine.at = "get" /\ mine.op = requests[r].op /\ mine.stack = requests[r].stack
            /\ mine.next = next
<1> DEFINE mine == [requests[r] EXCEPT !.at = "get", !.wants = wants, !.next = next]
<1>1. requests[r] \in JobRecord
  BY JobIs
<1>2. mine \in JobRecord /\ mine.at = "get" /\ mine.op = requests[r].op
      /\ mine.stack = requests[r].stack /\ mine.next = next
  BY <1>1 DEF JobRecord, DirSteps
<1>3. requests' = [requests EXCEPT ![r] = mine]
  BY DEF Selects
<1> QED BY <1>2, <1>3

\* A request that ends beside the host.
LEMMA EndsBeside ==
  ASSUME DirInv, NEW r \in Requests, ~Making(requests[r]), Ends(r),
         UNCHANGED <<files, containers, abandoned>>, SettingsInv'
  PROVE  DirStepOK
<1>1. JobsInv'
  BY JobEnds DEF DirInv
<1>2. requests' = [requests EXCEPT ![r] = Idle]
  BY DEF Ends
<1>3. HostInv' /\ OthersFilesStay /\ NoContainerForgotten
  BY <1>2, HostKept, IdleIs DEF DirInv
<1> QED BY <1>1, <1>3 DEF DirInv, DirStepOK

\* A request that goes on beside the host, making or deleting as before.
LEMMA GoesBeside ==
  ASSUME DirInv, NEW r \in Requests, requests[r] # Idle, NEW mine \in JobRecord,
         requests' = [requests EXCEPT ![r] = mine], mine.stack = requests[r].stack,
         RouteOK(mine), UnderLock(mine) => UnderLock(requests[r]),
         UNCHANGED <<dirLock, files, containers, abandoned>>, SettingsInv',
         Making(mine) <=> Making(requests[r]),
         Deleting(mine) => Deleting(requests[r]),
         Removing(mine) => "counted" \notin containers[mine.stack]
  PROVE  DirStepOK
<1>1. JobsInv'
  BY JobGoes DEF DirInv
<1>2. Making(mine) => "counted" \notin containers[mine.stack]
  BY DEF DirInv, HostInv
<1>3. Deleting(mine) => files[mine.stack] # NoDirectory
  BY DEF DirInv, HostInv
<1>4. HostInv' /\ OthersFilesStay /\ NoContainerForgotten
  BY <1>2, <1>3, HostKept DEF DirInv
<1> QED BY <1>1, <1>4 DEF DirInv, DirStepOK

LEMMA SettingsBeside ==
  ASSUME DirInv, UNCHANGED settings, DirTrouble \/ UNCHANGED dirTroubles
  PROVE  SettingsInv'
BY Troubles DEF DirInv, SettingsInv, settings

LEMMA CreateWritesOK ==
  ASSUME DirInv, NEW r \in Requests, CreateWrites(r)
  PROVE  DirStepOK
<1> DEFINE s == requests[r].stack
<1>1. JobsInv /\ HostInv /\ requests[r] # Idle /\ requests[r].at = "write"
  BY AtNotIdle DEF CreateWrites, DirInv
<1>2. requests[r] \in JobRecord /\ RouteOK(requests[r]) /\ s \in Stacks
  BY <1>1, JobIs
<1>3. requests[r].op = "create"
  BY <1>1, <1>2 DEF RouteOK, Selecting
<1>4. Making(requests[r]) /\ UnderLock(requests[r])
  BY <1>3 DEF Making, UnderLock
<1>5. SettingsInv' /\ UNCHANGED <<containers, abandoned>>
  BY SettingsBeside DEF CreateWrites
<1>6. CASE files[s] # NoDirectory /\ files' = [files EXCEPT ![s] = @ \cup {"stack"}] /\ Ends(r)
  <2> DEFINE dir == files[s] \cup {"stack"}
  <2>1. files[s] \in SUBSET {"stack", "other"}
    BY <1>1, <1>2, <1>6 DEF HostInv
  <2>2. dir \in SUBSET {"stack", "other"} /\ dir # {} /\ dir # NoDirectory
    BY <2>1, HostFacts
  <2>3. files' = [files EXCEPT ![s] = dir]
    BY <1>6
  <2>4. "other" \in files[s] => "other" \in dir
    OBVIOUS
  <2>5. requests' = [requests EXCEPT ![r] = Idle]
    BY <1>6 DEF Ends
  <2>6. JobsInv'
    BY <1>1, <1>6, JobEnds
  <2>7. /\ containers' = [containers EXCEPT ![s] = containers[s]]
        /\ containers[s] \in SUBSET {"counted", "fresh"} /\ AbandonsOnly(s)
    BY <1>1, <1>2, <1>5, KeepsContainers DEF HostInv, AbandonsOnly
  <2> HIDE DEF dir
  <2>8. HostInv' /\ OthersFilesStay /\ NoContainerForgotten
    BY <1>1, <1>2, <1>4, <2>2, <2>3, <2>4, <2>5, <2>7, HolderChanges, IdleIs
  <2> QED BY <1>5, <2>6, <2>8 DEF DirInv, DirStepOK
<1>7. CASE Selects(r, requests[r], 0, "rmdir") /\ UNCHANGED <<files, dirLock>>
  <2>1. PICK mine \in JobRecord :
            /\ requests' = [requests EXCEPT ![r] = mine]
            /\ mine.at = "get" /\ mine.op = requests[r].op /\ mine.stack = requests[r].stack
            /\ mine.next = "rmdir"
    BY <1>1, <1>7, DirNumbers, SelectsAt
  <2>2. /\ RouteOK(mine) /\ Making(mine) /\ ~Deleting(mine) /\ ~Removing(mine)
    BY <1>3, <2>1 DEF RouteOK, Selecting, Making, Deleting, Removing
  <2> QED BY <1>1, <1>4, <1>5, <1>7, <2>1, <2>2, GoesBeside
<1> QED BY <1>6, <1>7 DEF CreateWrites

LEMMA GiveBackOK ==
  ASSUME DirInv, NEW r \in Requests, GiveBack(r)
  PROVE  DirStepOK
<1> DEFINE s == requests[r].stack
           dir == IF files[s] = {} THEN NoDirectory ELSE files[s]
<1>1. JobsInv /\ HostInv /\ requests[r] # Idle /\ requests[r].at = "rmdir"
  BY AtNotIdle DEF GiveBack, DirInv
<1>2. requests[r] \in JobRecord /\ RouteOK(requests[r]) /\ s \in Stacks
  BY <1>1, JobIs
<1>3. Making(requests[r]) /\ UnderLock(requests[r])
  BY <1>1, <1>2 DEF RouteOK, Selecting, Making, UnderLock
<1>4. SettingsInv' /\ UNCHANGED <<containers, abandoned>> /\ Ends(r)
  BY SettingsBeside DEF GiveBack
<1>5. /\ containers' = [containers EXCEPT ![s] = containers[s]]
      /\ containers[s] \in SUBSET {"counted", "fresh"} /\ AbandonsOnly(s)
      /\ files = [files EXCEPT ![s] = files[s]]
      /\ files[s] \in {NoDirectory} \cup SUBSET {"stack", "other"}
  BY <1>1, <1>2, <1>4, KeepsContainers DEF HostInv, AbandonsOnly
<1>6. files' = [files EXCEPT ![s] = dir]
  BY <1>5 DEF GiveBack
<1>7. dir \in {NoDirectory} \cup SUBSET {"stack", "other"} /\ dir # {}
      /\ ("other" \in files[s] => "other" \in dir)
  BY <1>5, HostFacts
<1>8. "counted" \notin containers[s]
  BY <1>1, <1>3 DEF HostInv
<1>9. requests' = [requests EXCEPT ![r] = Idle]
  BY <1>4 DEF Ends
<1>10. JobsInv'
  BY <1>1, <1>4, JobEnds
<1> HIDE DEF dir
<1>11. HostInv' /\ OthersFilesStay /\ NoContainerForgotten
  BY <1>1, <1>2, <1>3, <1>5, <1>6, <1>7, <1>8, <1>9, HolderChanges, IdleIs
<1> QED BY <1>4, <1>10, <1>11 DEF DirInv, DirStepOK

LEMMA CloneReservesOK ==
  ASSUME DirInv, NEW r \in Requests, CloneReserves(r)
  PROVE  DirStepOK
<1> DEFINE s == requests[r].stack
<1>1. JobsInv /\ HostInv /\ requests[r] # Idle /\ requests[r].at = "validate"
  BY AtNotIdle DEF CloneReserves, DirInv
<1>2. requests[r] \in JobRecord /\ RouteOK(requests[r]) /\ s \in Stacks
  BY <1>1, JobIs
<1>3. requests[r].op = "clone" /\ requests[r].next = "done"
  BY <1>1, <1>2 DEF RouteOK, Selecting
<1>4. ~Making(requests[r]) /\ UnderLock(requests[r])
  BY <1>1, <1>3 DEF Making, UnderLock
<1>5. SettingsInv' /\ UNCHANGED <<containers, abandoned>>
  BY SettingsBeside DEF CloneReserves
<1>6. CASE /\ files[s] = NoDirectory /\ files' = [files EXCEPT ![s] = {}]
           /\ DirGoes(r, "rename") /\ UNCHANGED dirLock
  <2>1. PICK mine \in JobRecord :
            /\ requests' = [requests EXCEPT ![r] = mine]
            /\ mine.at = "rename" /\ mine.op = requests[r].op
            /\ mine.stack = requests[r].stack /\ mine.next = requests[r].next
    <3>1. "rename" \in DirSteps
      BY DEF DirSteps
    <3> QED BY <1>1, <1>6, <3>1, NextStepAt
  <2>2. /\ RouteOK(mine) /\ Making(mine) /\ ~Deleting(mine) /\ ~Removing(mine)
    BY <1>3, <2>1 DEF RouteOK, Selecting, Making, Deleting, Removing
  <2>3. JobsInv'
    BY <1>1, <1>4, <1>6, <2>1, <2>2, JobGoes
  <2>4. /\ containers' = [containers EXCEPT ![s] = containers[s]]
        /\ containers[s] \in SUBSET {"counted", "fresh"} /\ AbandonsOnly(s)
    BY <1>1, <1>2, <1>5, KeepsContainers DEF HostInv, AbandonsOnly
  <2>5. "counted" \notin containers[s] /\ "other" \notin files[s]
    BY <1>1, <1>2, <1>6, HostFacts DEF HostInv
  <2>6. {} \in {NoDirectory} \cup SUBSET {"stack", "other"} /\ {} # NoDirectory
    BY HostFacts
  <2>7. mine \in JobRecord \cup {Idle} /\ mine.stack = s
    BY <2>1
  <2>8. HostInv' /\ OthersFilesStay /\ NoContainerForgotten
    BY <1>1, <1>2, <1>4, <1>6, <2>1, <2>2, <2>4, <2>5, <2>6, <2>7, HolderChanges
  <2> QED BY <1>5, <2>3, <2>8 DEF DirInv, DirStepOK
<1>7. CASE Ends(r) /\ UNCHANGED files
  BY <1>4, <1>5, <1>7, EndsBeside
<1> QED BY <1>6, <1>7 DEF CloneReserves

LEMMA CloneRenamesOK ==
  ASSUME DirInv, NEW r \in Requests, CloneRenames(r)
  PROVE  DirStepOK
<1> DEFINE s == requests[r].stack
<1>1. JobsInv /\ HostInv /\ requests[r] # Idle /\ requests[r].at = "rename"
  BY AtNotIdle DEF CloneRenames, DirInv
<1>2. requests[r] \in JobRecord /\ RouteOK(requests[r]) /\ s \in Stacks
      /\ requests[r].wants \in 0..MaxSelections
  BY <1>1, JobIs
<1>3. requests[r].op = "clone" /\ requests[r].next = "done"
  BY <1>1, <1>2 DEF RouteOK, Selecting
<1>4. Making(requests[r]) /\ UnderLock(requests[r])
  BY <1>1, <1>3 DEF Making, UnderLock
<1>5. SettingsInv' /\ UNCHANGED <<containers, abandoned>>
  BY SettingsBeside DEF CloneRenames
<1>6. CASE /\ files[s] \in {{}, NoDirectory} /\ files' = [files EXCEPT ![s] = {"stack"}]
           /\ Selects(r, requests[r], requests[r].wants, "done")
           /\ dirLock' = [dirLock EXCEPT ![s] = Unlocked]
  <2>1. PICK mine \in JobRecord :
            /\ requests' = [requests EXCEPT ![r] = mine]
            /\ mine.at = "get" /\ mine.op = requests[r].op
            /\ mine.stack = requests[r].stack /\ mine.next = "done"
    BY <1>1, <1>2, <1>6, SelectsAt
  <2>2. /\ RouteOK(mine) /\ ~Making(mine) /\ ~Deleting(mine) /\ ~Removing(mine)
        /\ ~UnderLock(mine)
    BY <1>3, <2>1 DEF RouteOK, Selecting, Making, Deleting, Removing, UnderLock
  <2>3. dirLock[s] = r
    BY <1>1, <1>4 DEF JobsInv
  <2>4. JobsInv'
    BY <1>1, <1>6, <2>1, <2>2, <2>3, JobGoes
  <2>5. /\ containers' = [containers EXCEPT ![s] = containers[s]]
        /\ containers[s] \in SUBSET {"counted", "fresh"} /\ AbandonsOnly(s)
    BY <1>1, <1>2, <1>5, KeepsContainers DEF HostInv, AbandonsOnly
  <2>6. "other" \notin files[s]
    BY <1>6, HostFacts
  <2>7. {"stack"} \in {NoDirectory} \cup SUBSET {"stack", "other"} /\ {"stack"} # NoDirectory
        /\ {"stack"} # {}
    BY HostFacts
  <2>8. mine \in JobRecord \cup {Idle} /\ mine.stack = s
    BY <2>1
  <2>9. HostInv' /\ OthersFilesStay /\ NoContainerForgotten
    BY <1>1, <1>2, <1>4, <1>6, <2>1, <2>2, <2>5, <2>6, <2>7, <2>8, HolderChanges
  <2> QED BY <1>5, <2>4, <2>9 DEF DirInv, DirStepOK
<1>7. CASE DirGoes(r, "rmdir") /\ UNCHANGED <<files, dirLock>>
  <2>1. PICK mine \in JobRecord :
            /\ requests' = [requests EXCEPT ![r] = mine]
            /\ mine.at = "rmdir" /\ mine.op = requests[r].op
            /\ mine.stack = requests[r].stack /\ mine.next = requests[r].next
    <3>1. "rmdir" \in DirSteps
      BY DEF DirSteps
    <3> QED BY <1>1, <1>7, <3>1, NextStepAt
  <2>2. /\ RouteOK(mine) /\ Making(mine) /\ ~Deleting(mine) /\ ~Removing(mine)
    BY <1>3, <2>1 DEF RouteOK, Selecting, Making, Deleting, Removing
  <2> QED BY <1>1, <1>4, <1>5, <1>7, <2>1, <2>2, GoesBeside
<1> QED BY <1>6, <1>7 DEF CloneRenames

\* A deployment ends, or goes on to start its containers.
LEMMA DeployStartsOK ==
  ASSUME DirInv, NEW r \in Requests, DeployStarts(r)
  PROVE  DirStepOK
<1>1. JobsInv /\ HostInv /\ requests[r] # Idle /\ requests[r].at = "up"
  BY AtNotIdle DEF DeployStarts, DirInv
<1>2. requests[r] \in JobRecord /\ RouteOK(requests[r])
  BY <1>1, JobIs
<1>3. requests[r].op = "deploy"
  BY <1>1, <1>2 DEF RouteOK, Selecting
<1>4. ~Making(requests[r])
  BY <1>3 DEF Making
<1>5. SettingsInv' /\ UNCHANGED <<files, containers, abandoned>>
  BY SettingsBeside DEF DeployStarts, KeepsHost
<1>6. CASE DirGoes(r, "ups") /\ UNCHANGED dirLock
  <2>1. PICK mine \in JobRecord :
            /\ requests' = [requests EXCEPT ![r] = mine]
            /\ mine.at = "ups" /\ mine.op = requests[r].op
            /\ mine.stack = requests[r].stack /\ mine.next = requests[r].next
    <3>1. "ups" \in DirSteps
      BY DEF DirSteps
    <3> QED BY <1>1, <1>6, <3>1, NextStepAt
  <2>2. /\ RouteOK(mine) /\ ~Making(mine) /\ ~Deleting(mine) /\ ~Removing(mine)
        /\ ~UnderLock(mine)
    BY <1>3, <2>1 DEF RouteOK, Selecting, Making, Deleting, Removing, UnderLock
  <2> QED BY <1>1, <1>4, <1>5, <1>6, <2>1, <2>2, GoesBeside
<1>7. CASE Ends(r)
  BY <1>4, <1>5, <1>7, EndsBeside
<1> QED BY <1>6, <1>7 DEF DeployStarts

LEMMA DeployRunsOK ==
  ASSUME DirInv, NEW r \in Requests, DeployRuns(r)
  PROVE  DirStepOK
<1> DEFINE s == requests[r].stack
           set == containers[s] \cup {"fresh"}
<1>1. JobsInv /\ HostInv /\ requests[r] # Idle /\ requests[r].at = "ups"
  BY AtNotIdle DEF DeployRuns, DirInv
<1>2. requests[r] \in JobRecord /\ RouteOK(requests[r]) /\ s \in Stacks
  BY <1>1, JobIs
<1>3. ~Making(requests[r])
  BY <1>1, <1>2 DEF RouteOK, Selecting, Making
<1>4. SettingsInv' /\ UNCHANGED <<files, abandoned>> /\ Ends(r)
  BY SettingsBeside DEF DeployRuns
<1>5. CASE UNCHANGED containers
  BY <1>3, <1>4, <1>5, EndsBeside
<1>6. CASE containers' = [containers EXCEPT ![s] = @ \cup {"fresh"}]
  <2>1. containers[s] \in SUBSET {"counted", "fresh"}
    BY <1>1, <1>2, KeepsContainers
  <2>2. containers' = [containers EXCEPT ![s] = set]
    BY <1>6
  <2>3. set \in SUBSET {"counted", "fresh"} /\ ("counted" \in set => "counted" \in containers[s])
    BY <2>1
  <2>4. requests' = [requests EXCEPT ![r] = Idle]
    BY <1>4 DEF Ends
  <2>5. JobsInv'
    BY <1>1, <1>4, JobEnds
  <2> HIDE DEF set
  <2>6. HostInv' /\ OthersFilesStay /\ NoContainerForgotten
    <3>1. /\ \A k \in Requests : k # r => requests'[k] = requests[k]
          /\ requests'[r] = Idle
      BY <1>1, <2>4 DEF JobsInv
    <3>2. files' = files /\ abandoned' = abandoned
      BY <1>4
    <3>3. containers \in [Stacks -> SUBSET {"counted", "fresh"}]
      BY <1>1 DEF HostInv
    <3>4. containers' \in [Stacks -> SUBSET {"counted", "fresh"}]
      BY <2>2, <2>3, <3>3
    <3>5. \A t \in Stacks : "counted" \in containers'[t] => "counted" \in containers[t]
      BY <2>2, <2>3, <3>3
    <3>6. ASSUME NEW t \in Stacks, files[t] = {}, t \notin abandoned
          PROVE  \E k \in Requests : Making(requests'[k]) /\ requests'[k].stack = t
      <4>1. PICK k \in Requests : Making(requests[k]) /\ requests[k].stack = t
        BY <1>1, <3>6 DEF HostInv
      <4> QED BY <1>3, <3>1, <4>1
    <3>7. ASSUME NEW k \in Requests
          PROVE  /\ Making(requests'[k]) \/ Removing(requests'[k]) =>
                      "counted" \notin containers'[requests'[k].stack]
                 /\ Deleting(requests'[k]) => files[requests'[k].stack] # NoDirectory
      <4>1. CASE k = r
        BY <3>1, <4>1, IdleIs
      <4>2. CASE k # r
        <5>1. requests'[k] = requests[k]
          BY <3>1, <4>2
        <5>2. Making(requests[k]) \/ Removing(requests[k]) => requests[k].stack \in Stacks
          BY <1>1, JobIs, IdleIs
        <5> QED BY <1>1, <3>5, <5>1, <5>2 DEF HostInv
      <4> QED BY <4>1, <4>2
    <3>8. \A t \in Stacks : files[t] = NoDirectory => "counted" \notin containers'[t]
      BY <1>1, <3>5 DEF HostInv
    <3>9. HostInv'
      BY <1>1, <3>2, <3>4, <3>6, <3>7, <3>8 DEF HostInv
    <3> QED BY <3>2, <3>9 DEF OthersFilesStay, NoContainerForgotten
  <2> QED BY <1>4, <2>5, <2>6 DEF DirInv, DirStepOK
<1> QED BY <1>5, <1>6 DEF DeployRuns

----------------------------------------------------------------------------
(* Deleting *)

\* A step of a deletion under its lock that changes the containers only.
LEMMA DeletionGoes ==
  ASSUME DirInv, NEW r \in Requests, requests[r] # Idle, requests[r].op = "delete",
         requests[r].at \in {"down", "count", "rm", "recount"},
         NEW at \in {"count", "rm", "recount", "remove"}, DirGoes(r, at), UNCHANGED dirLock,
         NEW set \in SUBSET {"counted", "fresh"},
         containers' = [containers EXCEPT ![requests[r].stack] = set],
         at = "remove" => "counted" \notin set,
         UNCHANGED <<files, abandoned>>, SettingsInv'
  PROVE  DirStepOK
<1> DEFINE s == requests[r].stack
<1>1. JobsInv /\ HostInv
  BY DEF DirInv
<1>2. requests[r] \in JobRecord /\ RouteOK(requests[r]) /\ s \in Stacks
  BY <1>1, JobIs
<1>3. Deleting(requests[r]) /\ UnderLock(requests[r]) /\ requests[r].next = "done"
  BY <1>2 DEF Deleting, UnderLock, RouteOK
<1>4. PICK mine \in JobRecord :
            /\ requests' = [requests EXCEPT ![r] = mine]
            /\ mine.at = at /\ mine.op = requests[r].op
            /\ mine.stack = requests[r].stack /\ mine.next = requests[r].next
  <2>1. at \in DirSteps
    BY DEF DirSteps
  <2> QED BY <1>1, <2>1, NextStepAt
<1>5. RouteOK(mine) /\ ~Making(mine) /\ (Removing(mine) => at = "remove")
  BY <1>3, <1>4 DEF RouteOK, Making, Removing
<1>6. JobsInv'
  BY <1>1, <1>3, <1>4, <1>5, JobGoes
<1>7. /\ files' = [files EXCEPT ![s] = files[s]]
      /\ files[s] \in {NoDirectory} \cup SUBSET {"stack", "other"} /\ AbandonsOnly(s)
  BY <1>1, <1>2, KeepsContainers DEF HostInv, AbandonsOnly
<1>8. files[s] # NoDirectory
  BY <1>1, <1>3 DEF HostInv
<1>9. files[s] = {} => s \in abandoned'
  <2>1. SUFFICES ASSUME files[s] = {}, s \notin abandoned PROVE FALSE
    OBVIOUS
  <2>2. PICK k \in Requests : Making(requests[k]) /\ requests[k].stack = s
    BY <1>1, <1>2, <2>1 DEF HostInv
  <2>3. k = r
    BY <1>1, <1>3, <2>2, OneWorks, WorksLocked
  <2> QED BY <2>2, <2>3 DEF Making
<1>10. mine \in JobRecord \cup {Idle} /\ mine.stack = s
  BY <1>4
<1>11. HostInv' /\ OthersFilesStay /\ NoContainerForgotten
  BY <1>1, <1>2, <1>3, <1>4, <1>5, <1>7, <1>8, <1>9, <1>10, HolderChanges
<1> QED BY <1>6, <1>11 DEF DirInv, DirStepOK

\* What a deletion is at its steps.
LEMMA DeletionIs ==
  ASSUME DirInv, NEW r \in Requests,
         NEW at \in {"down", "count", "rm", "recount", "remove"}, At(r, at)
  PROVE  /\ JobsInv /\ HostInv /\ requests[r] # Idle /\ requests[r].at = at
         /\ requests[r].op = "delete" /\ requests[r] \in JobRecord
         /\ requests[r].stack \in Stacks /\ requests[r].next = "done"
         /\ Deleting(requests[r]) /\ UnderLock(requests[r]) /\ ~Making(requests[r])
<1>1. JobsInv /\ HostInv /\ requests[r] # Idle /\ requests[r].at = at
  BY AtNotIdle DEF DirInv
<1>2. requests[r] \in JobRecord /\ RouteOK(requests[r]) /\ requests[r].stack \in Stacks
  BY <1>1, JobIs
<1>3. requests[r].op = "delete" /\ requests[r].next = "done"
  BY <1>1, <1>2 DEF RouteOK, Selecting
<1> QED BY <1>1, <1>2, <1>3 DEF Deleting, UnderLock, Making

LEMMA FailsBeside ==
  ASSUME DirInv, UNCHANGED settings, NEW r, Fails(r)
  PROVE  SettingsInv' /\ Ends(r)
BY SettingsBeside DEF Fails

LEMMA DeleteDownsOK ==
  ASSUME DirInv, NEW r \in Requests, DeleteDowns(r)
  PROVE  DirStepOK
<1> DEFINE s == requests[r].stack
<1>1. At(r, "down") /\ UNCHANGED <<settings, files, abandoned>>
  BY DEF DeleteDowns
<1>2. /\ JobsInv /\ HostInv /\ requests[r] # Idle /\ requests[r].at = "down"
      /\ requests[r].op = "delete" /\ s \in Stacks /\ ~Making(requests[r])
  BY <1>1, DeletionIs
<1>3. CASE /\ containers' \in {containers, [containers EXCEPT ![s] = {}]}
           /\ DirGoes(r, "count") /\ UNCHANGED <<dirLock, dirTroubles>>
  <2>1. SettingsInv'
    BY <1>1, <1>3, SettingsBeside
  <2>2. \E set \in SUBSET {"counted", "fresh"} : containers' = [containers EXCEPT ![s] = set]
    BY <1>2, <1>3, KeepsContainers
  <2> QED BY <1>1, <1>2, <1>3, <2>1, <2>2, DeletionGoes
<1>4. CASE Fails(r) /\ UNCHANGED containers
  BY <1>1, <1>2, <1>4, FailsBeside, EndsBeside
<1> QED BY <1>3, <1>4 DEF DeleteDowns

LEMMA DeleteCountsOK ==
  ASSUME DirInv, NEW r \in Requests, DeleteCounts(r)
  PROVE  DirStepOK
<1> DEFINE s == requests[r].stack
           set == IF containers[s] = {} THEN {} ELSE {"counted"}
<1>1. At(r, "count") /\ UNCHANGED <<settings, files, abandoned>>
  BY DEF DeleteCounts
<1>2. /\ JobsInv /\ HostInv /\ requests[r] # Idle /\ requests[r].at = "count"
      /\ requests[r].op = "delete" /\ s \in Stacks /\ ~Making(requests[r])
  BY <1>1, DeletionIs
<1>3. SettingsInv'
  BY <1>1, SettingsBeside DEF DeleteCounts
<1>4. CASE DirGoes(r, "rm") /\ UNCHANGED dirLock /\ containers' = [containers EXCEPT ![s] = set]
  BY <1>1, <1>2, <1>3, <1>4, DeletionGoes
<1>5. CASE Ends(r) /\ UNCHANGED containers
  BY <1>1, <1>2, <1>3, <1>5, EndsBeside
<1> QED BY <1>4, <1>5 DEF DeleteCounts

LEMMA DeleteStopsOK ==
  ASSUME DirInv, NEW r \in Requests, DeleteStops(r)
  PROVE  DirStepOK
<1> DEFINE s == requests[r].stack
           set == IF "fresh" \in containers[s] THEN {"counted"} ELSE {}
<1>1. At(r, "rm") /\ UNCHANGED <<settings, files, abandoned>>
  BY DEF DeleteStops
<1>2. /\ JobsInv /\ HostInv /\ requests[r] # Idle /\ requests[r].at = "rm"
      /\ requests[r].op = "delete" /\ s \in Stacks /\ ~Making(requests[r])
  BY <1>1, DeletionIs
<1>3. CASE /\ DirGoes(r, "recount") /\ UNCHANGED <<dirLock, dirTroubles>>
           /\ containers' = [containers EXCEPT ![s] = set]
  <2>1. SettingsInv'
    BY <1>1, <1>3, SettingsBeside
  <2>2. set \in SUBSET {"counted", "fresh"} /\ UNCHANGED <<files, abandoned, dirLock>>
    BY <1>1, <1>3
  <2> HIDE DEF set
  <2> QED BY <1>2, <1>3, <2>1, <2>2, DeletionGoes
<1>4. CASE Fails(r) /\ UNCHANGED containers
  BY <1>1, <1>2, <1>4, FailsBeside, EndsBeside
<1> QED BY <1>3, <1>4 DEF DeleteStops

LEMMA DeleteRecountsOK ==
  ASSUME DirInv, NEW r \in Requests, DeleteRecounts(r)
  PROVE  DirStepOK
<1> DEFINE s == requests[r].stack
<1>1. At(r, "recount") /\ UNCHANGED <<settings, files, containers, abandoned>>
  BY DEF DeleteRecounts, KeepsHost
<1>2. /\ JobsInv /\ HostInv /\ requests[r] # Idle /\ requests[r].at = "recount"
      /\ requests[r].op = "delete" /\ s \in Stacks /\ ~Making(requests[r])
  BY <1>1, DeletionIs
<1>3. SettingsInv'
  BY <1>1, SettingsBeside DEF DeleteRecounts
<1>4. CASE containers[s] = {} /\ DirGoes(r, "remove") /\ UNCHANGED dirLock
  <2>1. containers' = [containers EXCEPT ![s] = {}]
    BY <1>1, <1>2, <1>4, KeepsContainers
  <2> QED BY <1>1, <1>2, <1>3, <1>4, <2>1, DeletionGoes
<1>5. CASE Ends(r)
  BY <1>1, <1>2, <1>3, <1>5, EndsBeside
<1> QED BY <1>4, <1>5 DEF DeleteRecounts

\* The directory goes with what people put in it, and no container is left of it.
LEMMA DeleteRemovesOK ==
  ASSUME DirInv, NEW r \in Requests, DeleteRemoves(r)
  PROVE  DirStepOK
<1> DEFINE s == requests[r].stack
<1>1. At(r, "remove") /\ UNCHANGED <<settings, containers>>
  BY DEF DeleteRemoves
<1>2. /\ JobsInv /\ HostInv /\ requests[r] # Idle /\ requests[r].at = "remove"
      /\ requests[r].op = "delete" /\ s \in Stacks /\ UnderLock(requests[r])
      /\ Deleting(requests[r]) /\ requests[r] \in JobRecord
  BY <1>1, DeletionIs
<1>3. "counted" \notin containers[s] /\ files[s] # NoDirectory
  BY <1>2 DEF HostInv, Removing
<1>4. SettingsInv'
  BY <1>1, SettingsBeside DEF DeleteRemoves
<1>5. /\ containers' = [containers EXCEPT ![s] = containers[s]]
      /\ containers[s] \in SUBSET {"counted", "fresh"}
      /\ files[s] \in SUBSET {"stack", "other"} /\ abandoned \subseteq Stacks
  BY <1>1, <1>2, <1>3, KeepsContainers DEF HostInv
<1>6. CASE /\ files' = [files EXCEPT ![s] = NoDirectory] /\ abandoned' = abandoned \ {s}
           /\ Selects(r, requests[r], 0, "done") /\ UNCHANGED dirLock
  <2>1. PICK mine \in JobRecord :
            /\ requests' = [requests EXCEPT ![r] = mine]
            /\ mine.at = "get" /\ mine.op = requests[r].op
            /\ mine.stack = requests[r].stack /\ mine.next = "done"
    BY <1>2, <1>6, DirNumbers, SelectsAt
  <2>2. /\ RouteOK(mine) /\ ~Making(mine) /\ ~Deleting(mine) /\ ~Removing(mine)
    BY <1>2, <2>1 DEF RouteOK, Selecting, Making, Deleting, Removing
  <2>3. JobsInv'
    BY <1>2, <1>6, <2>1, <2>2, JobGoes
  <2>4. AbandonsOnly(s)
    BY <1>5, <1>6 DEF AbandonsOnly
  <2>5. mine \in JobRecord \cup {Idle} /\ mine.stack = s /\ mine # requests[r]
    BY <1>2, <2>1
  <2>6. NoDirectory \in {NoDirectory} \cup SUBSET {"stack", "other"} /\ NoDirectory # {}
    BY HostFacts
  <2>7. HostInv' /\ OthersFilesStay /\ NoContainerForgotten
    BY <1>1, <1>2, <1>3, <1>5, <1>6, <2>1, <2>2, <2>4, <2>5, <2>6, HolderChanges
  <2> QED BY <1>4, <2>3, <2>7 DEF DirInv, DirStepOK
<1>7. CASE /\ files' = [files EXCEPT ![s] = @ \ {"stack"}] /\ abandoned' = abandoned \cup {s}
           /\ Ends(r)
  <2> DEFINE dir == files[s] \ {"stack"}
  <2>1. dir \in SUBSET {"stack", "other"} /\ dir # NoDirectory
        /\ ("other" \in files[s] => "other" \in dir)
    BY <1>5, HostFacts
  <2>2. files' = [files EXCEPT ![s] = dir]
    BY <1>7
  <2>3. requests' = [requests EXCEPT ![r] = Idle]
    BY <1>7 DEF Ends
  <2>4. JobsInv'
    BY <1>2, <1>7, JobEnds
  <2>5. AbandonsOnly(s) /\ s \in abandoned'
    BY <1>2, <1>5, <1>7 DEF AbandonsOnly
  <2> HIDE DEF dir
  <2>6. HostInv' /\ OthersFilesStay /\ NoContainerForgotten
    BY <1>2, <1>3, <1>5, <2>1, <2>2, <2>3, <2>5, HolderChanges, IdleIs
  <2> QED BY <1>4, <2>4, <2>6 DEF DirInv, DirStepOK
<1> QED BY <1>6, <1>7 DEF DeleteRemoves

----------------------------------------------------------------------------
(* Everyone else *)

LEMMA DirInitInv == DirInit => DirInv
<1> SUFFICES ASSUME DirInit PROVE DirInv
  OBVIOUS
<1>1. requests \in [Requests -> JobRecord \cup {Idle}] /\ \A r \in Requests : requests[r] = Idle
  BY DEF DirInit
<1>2. dirLock \in [Stacks -> Requests \cup {Unlocked}] /\ \A s \in Stacks : dirLock[s] = Unlocked
  BY DEF DirInit
<1>3. JobsInv
  BY <1>1, <1>2 DEF JobsInv
<1>4. \A s \in Stacks : files[s] \in {NoDirectory, {"stack"}} /\ containers[s] = {}
  BY DEF DirInit
<1>5. files \in [Stacks -> {NoDirectory} \cup SUBSET {"stack", "other"}]
  BY HostFacts DEF DirInit
<1>6. \A s \in Stacks : files[s] # {}
  BY <1>4, HostFacts DEF NoDirectory
<1>7. containers \in [Stacks -> SUBSET {"counted", "fresh"}] /\ abandoned \subseteq Stacks
  BY DEF DirInit
<1>8. HostInv
  BY <1>1, <1>4, <1>5, <1>6, <1>7, IdleIs DEF HostInv
<1>9. SettingsInv
  <2>1. selected \in Selections
    BY DirNumbers DEF DirInit
  <2>2. 0 \in 0..MaxSelections /\ 0 \in 0..MaxDirTroubles
    BY DirBoundsAssumption
  <2> QED BY <2>1, <2>2 DEF DirInit, SettingsInv
<1> QED BY <1>3, <1>8, <1>9 DEF DirInv

LEMMA VisitOK ==
  ASSUME DirInv, NEW s \in Stacks, Visit(s)
  PROVE  DirStepOK
<1> DEFINE dir == (files[s] \ NoDirectory) \cup {"other"}
<1>1. /\ files' = [files EXCEPT ![s] = dir]
      /\ UNCHANGED <<settings, containers, abandoned, requests, dirLock, dirTroubles>>
  BY DEF Visit
<1>2. /\ files \in [Stacks -> {NoDirectory} \cup SUBSET {"stack", "other"}]
      /\ files[s] \in {NoDirectory} \cup SUBSET {"stack", "other"}
  BY DEF DirInv, HostInv
<1>3. dir \in SUBSET {"stack", "other"} /\ "other" \in dir /\ dir # {}
  BY <1>2 DEF NoDirectory
<1>4. dir # NoDirectory
  BY <1>3, HostFacts
<1> HIDE DEF dir
<1>5. /\ files' \in [Stacks -> {NoDirectory} \cup SUBSET {"stack", "other"}]
      /\ files'[s] = dir /\ \A t \in Stacks : t # s => files'[t] = files[t]
  BY <1>1, <1>2, <1>3
<1>6. \A t \in Stacks : (files'[t] = {} => files[t] = {})
                        /\ (files'[t] = NoDirectory => files[t] = NoDirectory)
  BY <1>3, <1>4, <1>5
<1>7. \A r \in Requests : Deleting(requests[r]) => requests[r].stack \in Stacks
  BY JobIs, IdleIs DEF DirInv
<1>8. HostInv'
  BY <1>1, <1>5, <1>6, <1>7 DEF DirInv, HostInv
<1>9. OthersFilesStay
  BY <1>3, <1>5 DEF OthersFilesStay
<1>10. NoContainerForgotten
  BY <1>6 DEF NoContainerForgotten
<1>11. JobsInv' /\ SettingsInv'
  BY <1>1 DEF DirInv, JobsInv, SettingsInv, settings
<1> QED BY <1>8, <1>9, <1>10, <1>11 DEF DirInv, DirStepOK

LEMMA CacheCleanerOK ==
  ASSUME DirInv, CacheCleaner
  PROVE  DirStepOK
<1>1. JobsInv' /\ HostInv'
  BY DEF CacheCleaner, KeepsHost, DirInv, JobsInv, HostInv
<1>2. SettingsInv'
  BY DEF CacheCleaner, KeepsHost, DirInv, SettingsInv
<1>3. OthersFilesStay /\ NoContainerForgotten
  BY DEF CacheCleaner, KeepsHost, OthersFilesStay, NoContainerForgotten
<1> QED BY <1>1, <1>2, <1>3 DEF DirInv, DirStepOK

\* What was being made when the panel was killed stays, empty.
LEMMA DirCrashOK ==
  ASSUME DirInv, DirCrash
  PROVE  DirStepOK
<1>1. /\ requests' \in [Requests -> JobRecord \cup {Idle}]
      /\ \A r \in Requests : requests'[r] = Idle
  BY DEF DirCrash
<1>2. /\ dirLock' \in [Stacks -> Requests \cup {Unlocked}]
      /\ \A s \in Stacks : dirLock'[s] = Unlocked
  BY DEF DirCrash
<1>3. JobsInv'
  BY <1>1, <1>2 DEF JobsInv
<1>4. files' = files /\ containers' = containers
      /\ abandoned' = abandoned \cup {s \in Stacks : files[s] = {}}
  BY DEF DirCrash
<1>5. HostInv'
  BY <1>1, <1>4, IdleIs DEF DirInv, HostInv
<1>6. dirTroubles' \in 0..MaxDirTroubles
  BY Troubles DEF DirCrash, DirInv
<1>7. SettingsInv'
  BY <1>6 DEF DirCrash, DirInv, SettingsInv
<1>8. OthersFilesStay /\ NoContainerForgotten
  BY <1>4 DEF OthersFilesStay, NoContainerForgotten
<1> QED BY <1>3, <1>5, <1>7, <1>8 DEF DirInv, DirStepOK

LEMMA DirNextOK ==
  ASSUME DirInv, [DirNext]_dirVars
  PROVE  DirStepOK
<1>1. ASSUME NEW r \in Requests, RequestStep(r)
      PROVE  DirStepOK
  <2>1. CASE ConfigGet(r) \/ ConfigQuery(r) \/ ConfigFill(r) \/ ConfigPut(r) \/ ConfigClear(r)
    BY <2>1, ConfigGetOK, ConfigQueryOK, ConfigFillOK, ConfigPutOK, ConfigClearOK
  <2>2. CASE CreateWrites(r) \/ GiveBack(r) \/ CloneReserves(r) \/ CloneRenames(r)
    BY <2>2, CreateWritesOK, GiveBackOK, CloneReservesOK, CloneRenamesOK
  <2>3. CASE DeployStarts(r) \/ DeployRuns(r)
    BY <2>3, DeployStartsOK, DeployRunsOK
  <2>4. CASE \/ DeleteDowns(r) \/ DeleteCounts(r) \/ DeleteStops(r) \/ DeleteRecounts(r)
             \/ DeleteRemoves(r)
    BY <2>4, DeleteDownsOK, DeleteCountsOK, DeleteStopsOK, DeleteRecountsOK, DeleteRemovesOK
  <2> QED BY <1>1, <2>1, <2>2, <2>3, <2>4 DEF RequestStep
<1>2. ASSUME NEW r \in Requests, NEW s \in Stacks,
             \/ List(r, s) \/ Select(r, s) \/ Create(r, s) \/ Clone(r, s) \/ Deploy(r, s)
             \/ Delete(r, s)
      PROVE  DirStepOK
  BY <1>2, ListOK, SelectOK, CreateOK, CloneOK, DeployOK, DeleteOK
<1>3. CASE UNCHANGED dirVars
  <2>1. JobsInv' /\ HostInv' /\ SettingsInv'
    BY <1>3 DEF dirVars, settings, DirInv, JobsInv, HostInv, SettingsInv
  <2>2. OthersFilesStay /\ NoContainerForgotten
    BY <1>3 DEF dirVars, OthersFilesStay, NoContainerForgotten
  <2> QED BY <2>1, <2>2 DEF DirInv, DirStepOK
<1> QED BY <1>1, <1>2, <1>3, VisitOK, CacheCleanerOK, DirCrashOK DEF DirNext

LEMMA DirInvImplies == DirInv => DirTypeOK /\ NameGivenBack
<1> SUFFICES ASSUME DirInv PROVE DirTypeOK /\ NameGivenBack
  OBVIOUS
<1>1. ASSUME NEW r \in Requests, requests[r] # Idle
      PROVE  /\ requests[r].stack \in Stacks /\ requests[r].at \in DirSteps
             /\ requests[r].all \in Selections
  <2>1. requests[r] \in JobRecord
    BY <1>1, JobIs DEF DirInv
  <2> QED BY <2>1 DEF JobRecord
<1>2. DirTypeOK
  BY <1>1 DEF DirTypeOK, DirInv, JobsInv, HostInv, SettingsInv
<1>3. \A r \in Requests : Making(requests[r]) =>
         requests[r] # Idle /\ requests[r].op \in {"create", "clone"}
  BY IdleIs DEF Making
<1>4. NameGivenBack
  BY <1>3 DEF NameGivenBack, DirInv, HostInv
<1> QED BY <1>2, <1>4

----------------------------------------------------------------------------
(* Theorems *)

\* Who makes or deletes a directory is alone with it, and no directory is empty or gone
\* without a reason (stack.ts:571-628, stack-delete.ts, stack-git.ts).
THEOREM DirInvariant == DirSpec => []DirInv
<1>1. DirInit => DirInv
  BY DirInitInv
<1>2. DirInv /\ [DirNext]_dirVars => DirInv'
  BY DirNextOK DEF DirStepOK
<1> QED BY <1>1, <1>2, PTL DEF DirSpec

\* Creating, cloning and deleting leave nothing behind and take nothing of others with
\* them, for any number of stacks and requests.
THEOREM DirectoriesStayKept == DirSpec => DirectoriesKept
<1>1. DirInv /\ [DirNext]_dirVars => [OthersFilesStay]_dirVars /\ [NoContainerForgotten]_dirVars
  BY DirNextOK DEF DirStepOK
<1>2. DirInv => DirTypeOK /\ NameGivenBack
  BY DirInvImplies
<1> QED BY <1>1, <1>2, DirInvariant, PTL
        DEF DirSpec, DirectoriesKept, OthersFilesKept, DeletedWithoutContainers

----------------------------------------------------------------------------
(* Commands and their children *)

\* Nothing is signalled before the call, and its timer runs only until the answer.
CallOrdered ==
    \A c \in Calls :
        /\ command[c] = "none" => /\ children[c] = "none" /\ ~signalled[c]
                                  /\ ~timeout[c] /\ ~killTimer[c]
                                  /\ answered[c] = "no"
        /\ answered[c] # "no" => ~timeout[c]
        /\ killTimer[c] => signalled[c]
CallInv == CallTypeOK /\ TimersRun /\ CallOrdered

CallStepOK == CallInv' /\ BackgroundStays

LEMMA SpawnsOK ==
  ASSUME CallInv, NEW c \in Calls, Spawns(c)
  PROVE  CallStepOK
BY DEF CallInv, CallTypeOK, TimersRun, CallOrdered, CallStepOK, BackgroundStays, Spawns, GroupAlive

LEMMA StartsChildOK ==
  ASSUME CallInv, NEW c \in Calls, StartsChild(c)
  PROVE  CallStepOK
BY DEF CallInv, CallTypeOK, TimersRun, CallOrdered, CallStepOK, BackgroundStays, StartsChild,
       GroupAlive, timers

LEMMA CommandExitsOK ==
  ASSUME CallInv, NEW c \in Calls, CommandExits(c)
  PROVE  CallStepOK
BY DEF CallInv, CallTypeOK, TimersRun, CallOrdered, CallStepOK, BackgroundStays, CommandExits,
       GroupAlive

LEMMA ChildEndsOK ==
  ASSUME CallInv, NEW c \in Calls, ChildEnds(c)
  PROVE  CallStepOK
BY DEF CallInv, CallTypeOK, TimersRun, CallOrdered, CallStepOK, BackgroundStays, ChildEnds,
       GroupAlive, timers

LEMMA TimesOutOK ==
  ASSUME CallInv, NEW c \in Calls, TimesOut(c)
  PROVE  CallStepOK
BY DEF CallInv, CallTypeOK, TimersRun, CallOrdered, CallStepOK, BackgroundStays, TimesOut, Stops,
       GroupAlive

LEMMA OverflowsOK ==
  ASSUME CallInv, NEW c \in Calls, Overflows(c)
  PROVE  CallStepOK
BY DEF CallInv, CallTypeOK, TimersRun, CallOrdered, CallStepOK, BackgroundStays, Overflows, Stops,
       GroupAlive

LEMMA KillsOK ==
  ASSUME CallInv, NEW c \in Calls, Kills(c)
  PROVE  CallStepOK
BY DEF CallInv, CallTypeOK, TimersRun, CallOrdered, CallStepOK, BackgroundStays, Kills, GroupAlive

LEMMA SettleOK ==
  ASSUME CallInv, NEW c \in Calls, Settle(c), command[c] # "none"
  PROVE  CallStepOK
BY DEF CallInv, CallTypeOK, TimersRun, CallOrdered, CallStepOK, BackgroundStays, Settle, Release,
       GroupAlive, group

LEMMA CallNextOK ==
  ASSUME CallInv, [CallNext]_callVars
  PROVE  CallInv' /\ [BackgroundStays]_callVars
<1>1. ASSUME NEW c \in Calls, CallStep(c)
      PROVE  CallStepOK
  <2>1. Closes(c) \/ CloseExpires(c) => Settle(c) /\ command[c] # "none"
    BY DEF Closes, CloseExpires, CallInv, CallTypeOK
  <2> QED BY <1>1, <2>1, SpawnsOK, StartsChildOK, CommandExitsOK, ChildEndsOK, TimesOutOK,
             OverflowsOK, KillsOK, SettleOK DEF CallStep
<1>2. UNCHANGED callVars => CallInv'
  BY DEF callVars, group, timers, CallInv, CallTypeOK, TimersRun, CallOrdered, GroupAlive
<1> QED BY <1>1, <1>2 DEF CallNext, CallStepOK

\* Every call has the timer that ends its wait, and from the order to stop the one that
\* kills its group, for any number of calls (child-process.ts:73-75).
THEOREM CallsAlwaysSettle == CallSpec => CallsSettle
<1>1. CallInit => CallInv
  BY DEF CallInit, CallInv, CallTypeOK, TimersRun, CallOrdered, GroupAlive
<1>2. CallInv /\ [CallNext]_callVars => CallInv' /\ [BackgroundStays]_callVars
  BY CallNextOK
<1>3. CallInv => CallTypeOK /\ TimersRun
  BY DEF CallInv
<1> QED BY <1>1, <1>2, <1>3, PTL DEF CallSpec, CallsSettle, BackgroundLeftAlone

----------------------------------------------------------------------------
(* Terminals *)

TermRecord ==
    [key : Keys, runs : BOOLEAN, ending : BOOLEAN, killed : BOOLEAN, interrupted : BOOLEAN,
     clients : SUBSET Clients, answer : {"none", "code", "error"}]

\* Ids are given in the order of creation.
TermShape ==
    /\ registry \in [Keys -> Ids \cup {0}]
    /\ terminals \in [Ids -> TermRecord \cup {NoTerminal}]
    /\ asking \subseteq Clients \X (Keys \ CommandKeys) /\ refused \subseteq Clients
    /\ \A id, m \in Ids : id \in Created /\ m < id => m \in Created
    /\ \A k \in Keys : registry[k] # 0 =>
         registry[k] \in Created /\ terminals[registry[k]].key = k
TermInv == TermShape /\ CommandsLocked /\ SessionsReachable
TermStepOK == TermInv' /\ Interrupted

----------------------------------------------------------------------------
(* Ids *)

LEMMA TermIds ==
    /\ Ids \subseteq Nat /\ 0 \notin Ids
    /\ NoTerminal \notin TermRecord
    /\ CommandKeys \subseteq Keys
    /\ IsFiniteSet(Ids) /\ Cardinality(Ids) = MaxTerminals
<1>1. Ids \subseteq Nat /\ 0 \notin Ids
  BY DEF Ids
<1>2. NoTerminal \notin TermRecord
  BY DEF NoTerminal, TermRecord
<1>3. IsFiniteSet(Ids) /\ Cardinality(Ids) = MaxTerminals
  BY TerminalKeysAssumption, FS_Interval DEF Ids
<1> QED BY <1>1, <1>2, <1>3, TerminalKeysAssumption

LEMMA CreatedIs ==
  ASSUME TermShape
  PROVE  /\ Created \subseteq Ids
         /\ \A id \in Ids : id \in Created <=> terminals[id] \in TermRecord
BY TermIds DEF TermShape, Created

\* The next id is free, and later than all there are.
LEMMA UnusedIs ==
  ASSUME TermShape, Room
  PROVE  /\ Unused \in Ids /\ Unused \notin Created
         /\ \A id \in Created : id < Unused
         /\ \A m \in Ids : m < Unused => m \in Created
<1> DEFINE free == Ids \ Created
<1>1. free # {} /\ free \in SUBSET Nat
  <2>1. free = {} => Created = Ids
    BY CreatedIs
  <2>2. Created # Ids
    BY TermIds, TerminalKeysAssumption DEF Room
  <2> QED BY <2>1, <2>2, TermIds
<1>2. PICK id \in free : \A m \in free : id <= m
  <2> HIDE DEF free
  <2> QED BY <1>1, LeastNat
<1>3. id \in Ids /\ id \notin Created /\ id \in Nat
  BY <1>2, TermIds
<1>4. ASSUME NEW m \in Ids, m < id
      PROVE  m \in Created
  <2>1. m \in Nat
    BY TermIds
  <2> QED BY <1>2, <1>3, <1>4, <2>1
<1>5. 1..(id - 1) \subseteq Created
  BY <1>3, <1>4, TerminalKeysAssumption DEF Ids
<1>6. Unused \in Ids /\ Unused \notin Created /\ 1..(Unused - 1) \subseteq Created
  BY <1>3, <1>5 DEF Unused
<1>7. \A m \in Ids : m < Unused => m \in Created
  BY <1>6, TerminalKeysAssumption DEF Ids
<1>8. ASSUME NEW m \in Created
      PROVE  m < Unused
  <2>1. m \in Ids /\ m \in Nat /\ Unused \in Nat /\ m # Unused
    BY <1>6, TermIds, CreatedIs
  <2>2. Unused < m => Unused \in Created
    BY <1>6, <2>1 DEF TermShape
  <2> QED BY <1>6, <2>1, <2>2
<1> QED BY <1>6, <1>7, <1>8

----------------------------------------------------------------------------
(* What stays *)

\* Terminals that keep what they are but for their clients and how they end.
SameTerminals(given) ==
    \A id \in Ids :
        /\ id \notin Created => given[id] = terminals[id]
        /\ id \in Created => /\ given[id] \in TermRecord
                             /\ given[id].key = terminals[id].key
                             /\ given[id].runs => terminals[id].runs
                             /\ terminals[id].ending => given[id].ending

\* A step that creates nothing: what is taken out of the registry has ended, or ends and
\* is no command.
LEMMA TerminalsEnd ==
  ASSUME TermInv, terminals' \in [Ids -> TermRecord \cup {NoTerminal}],
         SameTerminals(terminals'),
         registry' \in [Keys -> Ids \cup {0}],
         \A k \in Keys : registry'[k] \in {0, registry[k]},
         \A k \in Keys : registry'[k] # registry[k] =>
            LET id == registry[k] IN
            ~terminals'[id].runs \/ (k \notin CommandKeys /\ terminals'[id].ending),
         asking' \subseteq Clients \X (Keys \ CommandKeys), refused' \subseteq Clients
  PROVE  TermInv' /\ Created' = Created
<1>1. TermShape
  BY DEF TermInv
<1>2. \A id \in Ids : id \in Created' <=> id \in Created
  BY TermIds, CreatedIs, <1>1 DEF SameTerminals, Created
<1>3. Created' = Created
  BY <1>2 DEF Created
<1>4. \A id \in Created : /\ id \in Ids /\ terminals'[id].key = terminals[id].key
                          /\ terminals'[id].runs => terminals[id].runs
                          /\ terminals[id].ending => terminals'[id].ending
                          /\ terminals[id].key \in Keys /\ terminals'[id] \in TermRecord
                          /\ terminals'[id].ending \in BOOLEAN
                          /\ terminals[id].ending \in BOOLEAN
  BY <1>1, CreatedIs DEF SameTerminals, TermRecord
<1>5. \A k \in Keys : registry'[k] # 0 =>
         registry'[k] \in Created' /\ terminals'[registry'[k]].key = k
  BY <1>1, <1>3, <1>4 DEF TermShape
<1>6. TermShape'
  BY <1>1, <1>3, <1>5 DEF TermShape
<1>7. ASSUME NEW id \in Created, terminals'[id].runs, registry[terminals[id].key] = id,
             terminals[id].key \in CommandKeys \/ ~terminals'[id].ending
      PROVE  registry'[terminals'[id].key] = id
  BY <1>4, <1>7
<1>8. CommandsLocked'
  BY <1>3, <1>4, <1>7 DEF TermInv, CommandsLocked, Running
<1>9. SessionsReachable'
  <2> SUFFICES ASSUME NEW id \in Created', Running(id)', ~terminals'[id].ending, ~Overtaken(id)'
               PROVE  registry'[terminals'[id].key] = id
    BY DEF SessionsReachable
  <2>1. Running(id) /\ ~terminals[id].ending
    BY <1>3, <1>4 DEF Running
  <2>2. ~Overtaken(id)
    BY <1>3, <1>4 DEF Overtaken
  <2>3. registry[terminals[id].key] = id
    BY <1>3, <2>1, <2>2 DEF TermInv, SessionsReachable
  <2> QED BY <1>3, <1>7, <2>3 DEF Running
<1> QED BY <1>3, <1>6, <1>8, <1>9 DEF TermInv

\* A new terminal is filed under its key, which is free or a shell's.
LEMMA OpensOK ==
  ASSUME TermInv, NEW k \in Keys, NEW c \in Clients, Opens(k, {c}),
         k \in CommandKeys => registry[k] = 0,
         asking' \subseteq asking, UNCHANGED <<refused, closing>>
  PROVE  TermStepOK
<1> DEFINE new == [key |-> k, runs |-> TRUE, ending |-> FALSE, killed |-> FALSE,
                   interrupted |-> FALSE, clients |-> {c}, answer |-> "none"]
           n == Unused
<1>1. TermShape /\ Room
  BY DEF TermInv, Opens
<1>2. /\ n \in Ids /\ n \notin Created /\ \A id \in Created : id < n
      /\ \A m \in Ids : m < n => m \in Created
  BY <1>1, UnusedIs
<1> HIDE DEF n
<1>3. new \in TermRecord /\ new.key = k /\ new.runs /\ new.answer = "none"
  BY DEF TermRecord
<1>4. terminals' = [terminals EXCEPT ![n] = new] /\ registry' = [registry EXCEPT ![k] = n]
  BY DEF Opens, n
<1> HIDE DEF new
<1>5. /\ registry \in [Keys -> Ids \cup {0}]
      /\ terminals \in [Ids -> TermRecord \cup {NoTerminal}]
  BY <1>1 DEF TermShape
<1>6. /\ terminals' \in [Ids -> TermRecord \cup {NoTerminal}]
      /\ registry' \in [Keys -> Ids \cup {0}]
      /\ terminals'[n] = new /\ \A id \in Ids : id # n => terminals'[id] = terminals[id]
      /\ registry'[k] = n /\ \A j \in Keys : j # k => registry'[j] = registry[j]
  BY <1>2, <1>3, <1>4, <1>5
<1>7. Created' = Created \cup {n}
  <2>1. \A id \in Ids : terminals'[id] # NoTerminal <=> (id \in Created \/ id = n)
    BY <1>3, <1>6, TermIds DEF Created
  <2> QED BY <1>2, <2>1 DEF Created
<1>8. \A id \in Created : id \in Ids /\ id # n /\ terminals'[id] = terminals[id] /\ id \in Nat
  BY <1>1, <1>2, <1>6, CreatedIs, TermIds
<1>9. n \in Nat
  BY <1>2, TermIds
<1>10. TermShape'
  <2>1. \A id, m \in Ids : id \in Created' /\ m < id => m \in Created'
    BY <1>1, <1>2, <1>7 DEF TermShape
  <2>2. \A j \in Keys : registry'[j] # 0 =>
           registry'[j] \in Created' /\ terminals'[registry'[j]].key = j
    <3> SUFFICES ASSUME NEW j \in Keys, registry'[j] # 0
                 PROVE  registry'[j] \in Created' /\ terminals'[registry'[j]].key = j
      OBVIOUS
    <3>1. CASE j = k
      BY <1>3, <1>6, <1>7, <3>1
    <3>2. CASE j # k
      BY <1>1, <1>6, <1>7, <1>8, <3>2 DEF TermShape
    <3> QED BY <3>1, <3>2
  <2> QED BY <1>1, <1>6, <2>1, <2>2 DEF TermShape
<1>11. ASSUME NEW id \in Created, terminals[id].key # k, registry[terminals[id].key] = id
       PROVE  registry'[terminals'[id].key] = id
  <2>1. terminals[id].key \in Keys
    BY <1>1, CreatedIs DEF TermRecord
  <2> QED BY <1>6, <1>8, <1>11, <2>1
<1>12. CommandsLocked'
  <2> SUFFICES ASSUME NEW id \in Created', Running(id)', terminals'[id].key \in CommandKeys
               PROVE  registry'[terminals'[id].key] = id
    BY DEF CommandsLocked
  <2>1. CASE id = n
    BY <1>3, <1>6, <2>1
  <2>2. CASE id # n
    <3>1. id \in Created /\ terminals'[id] = terminals[id]
      BY <1>7, <1>8, <2>2
    <3>2. Running(id) /\ registry[terminals[id].key] = id
      BY <3>1 DEF Running, TermInv, CommandsLocked
    <3>3. terminals[id].key # k
      BY <1>8, <3>1, <3>2, TermIds
    <3> QED BY <1>11, <3>1, <3>2, <3>3
  <2> QED BY <2>1, <2>2
<1>13. SessionsReachable'
  <2> SUFFICES ASSUME NEW id \in Created', Running(id)', ~terminals'[id].ending, ~Overtaken(id)'
               PROVE  registry'[terminals'[id].key] = id
    BY DEF SessionsReachable
  <2>1. CASE id = n
    BY <1>3, <1>6, <2>1
  <2>2. CASE id # n
    <3>1. id \in Created /\ terminals'[id] = terminals[id]
      BY <1>7, <1>8, <2>2
    <3>2. terminals[id].key # k
      BY <1>2, <1>3, <1>6, <1>7, <1>8, <1>9, <3>1 DEF Overtaken
    <3>3. ~Overtaken(id)
      <4>1. \A later \in Created : later \in Created' /\ terminals'[later] = terminals[later]
        BY <1>7, <1>8
      <4> QED BY <3>1, <4>1 DEF Overtaken
    <3>4. registry[terminals[id].key] = id
      BY <3>1, <3>3 DEF TermInv, SessionsReachable, Running
    <3> QED BY <1>11, <3>1, <3>2, <3>4
  <2> QED BY <2>1, <2>2
<1>14. Interrupted
  BY <1>8 DEF Interrupted
<1> QED BY <1>10, <1>12, <1>13, <1>14 DEF TermInv, TermStepOK

LEMMA TermInitInv == TermInit => TermInv
BY TermIds DEF TermInit, TermInv, TermShape, CommandsLocked, SessionsReachable, Created, Running

\* The fields of a terminal.
LEMMA TerminalIs ==
  ASSUME TermShape, NEW id \in Created
  PROVE  /\ id \in Ids /\ terminals[id] \in TermRecord /\ terminals[id].key \in Keys
         /\ terminals[id].runs \in BOOLEAN /\ terminals[id].ending \in BOOLEAN
         /\ terminals[id].clients \subseteq Clients /\ terminals[id].killed \in BOOLEAN
         /\ terminals[id].answer \in {"none", "code", "error"}
BY CreatedIs DEF TermRecord

\* One terminal changes, and goes out of the registry or stays.
LEMMA TerminalChanges ==
  ASSUME TermInv, NEW id \in Created, NEW new \in TermRecord,
         terminals' = [terminals EXCEPT ![id] = new],
         new.key = terminals[id].key, new.runs => terminals[id].runs,
         terminals[id].ending => new.ending,
         \/ registry' = registry
         \/ /\ registry' = Forgotten(id, registry)
            /\ ~new.runs \/ (terminals[id].key \notin CommandKeys /\ new.ending),
         asking' \subseteq asking, refused' \subseteq Clients,
         new.answer = "code" /\ terminals[id].answer = "none" => ~terminals[id].ending
  PROVE  TermStepOK
<1>1. TermShape
  BY DEF TermInv
<1>2. /\ registry \in [Keys -> Ids \cup {0}]
      /\ terminals \in [Ids -> TermRecord \cup {NoTerminal}] /\ id \in Ids
      /\ asking \subseteq Clients \X (Keys \ CommandKeys)
  BY <1>1, TerminalIs DEF TermShape
<1>3. /\ terminals' \in [Ids -> TermRecord \cup {NoTerminal}]
      /\ terminals'[id] = new /\ \A m \in Ids : m # id => terminals'[m] = terminals[m]
  BY <1>2
<1>4. SameTerminals(terminals')
  BY <1>1, <1>3, CreatedIs DEF SameTerminals
<1>5. registry' \in [Keys -> Ids \cup {0}] /\ \A k \in Keys : registry'[k] \in {0, registry[k]}
  BY <1>2 DEF Forgotten
<1>6. ASSUME NEW k \in Keys, registry'[k] # registry[k]
      PROVE  LET m == registry[k] IN
             ~terminals'[m].runs \/ (k \notin CommandKeys /\ terminals'[m].ending)
  <2>1. registry[k] = id /\ (~new.runs \/ (terminals[id].key \notin CommandKeys /\ new.ending))
    BY <1>6 DEF Forgotten
  <2>2. terminals[id].key = k
    BY <1>1, <1>2, <2>1, TermIds DEF TermShape
  <2> QED BY <1>3, <2>1, <2>2
<1>7. asking' \subseteq Clients \X (Keys \ CommandKeys)
  BY <1>2
<1>8. TermInv'
  BY <1>3, <1>4, <1>5, <1>6, <1>7, TerminalsEnd
<1>9. Interrupted
  BY <1>3, <1>1, TerminalIs DEF Interrupted
<1> QED BY <1>8, <1>9 DEF TermStepOK

\* No terminal changes.
LEMMA TerminalsStay ==
  ASSUME TermInv, UNCHANGED <<terminals, registry>>,
         asking' \subseteq Clients \X (Keys \ CommandKeys), refused' \subseteq Clients
  PROVE  TermStepOK
<1>1. TermInv'
  BY DEF TermInv, TermShape, CommandsLocked, SessionsReachable, Created, Running, Overtaken
<1>2. Interrupted
  BY DEF Interrupted
<1> QED BY <1>1, <1>2 DEF TermStepOK

----------------------------------------------------------------------------
(* Steps *)

LEMMA ExecOK ==
  ASSUME TermInv, NEW c \in Clients, NEW k \in Keys, Exec(c, k)
  PROVE  TermStepOK
BY OpensOK DEF Exec

LEMMA JoinOK ==
  ASSUME TermInv, NEW c \in Clients, NEW k \in Keys, Join(c, k)
  PROVE  TermStepOK
<1> DEFINE id == registry[k]
           new == [terminals[id] EXCEPT !.clients = @ \cup {c}]
<1>1. TermShape
  BY DEF TermInv
<1>2. asking \subseteq Clients \X (Keys \ CommandKeys) /\ refused \subseteq Clients
  BY <1>1 DEF TermShape
<1>3. CASE id # 0
  <2>1. id \in Created
    BY <1>1, <1>3 DEF TermShape
  <2>2. terminals[id] \in TermRecord /\ id \in Ids
    BY <1>1, <2>1, TerminalIs
  <2>3. /\ new \in TermRecord /\ new.key = terminals[id].key
        /\ new.runs = terminals[id].runs /\ new.ending = terminals[id].ending
        /\ new.answer = terminals[id].answer
    BY <2>2 DEF TermRecord
  <2>4. /\ terminals' = [terminals EXCEPT ![id] = new]
        /\ UNCHANGED <<asking, registry, refused>>
    BY <1>3 DEF Join
  <2> HIDE DEF id, new
  <2> QED BY <1>2, <2>1, <2>3, <2>4, TerminalChanges
<1>4. CASE id = 0
  <2>1. /\ asking' = asking \cup {<<c, k>>} /\ k \notin CommandKeys
        /\ UNCHANGED <<terminals, registry, refused>>
    BY <1>4 DEF Join
  <2> QED BY <1>2, <2>1, TerminalsStay
<1> QED BY <1>3, <1>4

LEMMA JoinEndsOK ==
  ASSUME TermInv, NEW c \in Clients, NEW k \in Keys, JoinOpens(c, k) \/ JoinRefused(c, k)
  PROVE  TermStepOK
<1>1. asking \subseteq Clients \X (Keys \ CommandKeys) /\ refused \subseteq Clients
  BY DEF TermInv, TermShape
<1>2. <<c, k>> \in asking /\ asking' \subseteq asking
  BY DEF JoinOpens, JoinRefused
<1>3. k \notin CommandKeys
  BY <1>1, <1>2
<1>4. CASE JoinOpens(c, k)
  BY <1>2, <1>3, <1>4, OpensOK DEF JoinOpens
<1>5. CASE JoinRefused(c, k)
  BY <1>1, <1>2, <1>5, TerminalsStay DEF JoinRefused
<1> QED BY <1>4, <1>5

LEMMA DisconnectOK ==
  ASSUME TermInv, NEW c \in Clients, Disconnect(c)
  PROVE  TermStepOK
<1>1. asking \subseteq Clients \X (Keys \ CommandKeys) /\ refused \subseteq Clients
  BY DEF TermInv, TermShape
<1> QED BY <1>1, TerminalsStay DEF Disconnect

LEMMA LeaveOK ==
  ASSUME TermInv, NEW c \in Clients, NEW id \in Ids, Leave(c, id)
  PROVE  TermStepOK
<1> DEFINE left == [terminals[id] EXCEPT !.clients = @ \ {c}]
           latest == [terminals[id] EXCEPT !.clients = @ \ {c}, !.ending = TRUE]
<1>1. /\ TermShape /\ id \in Created /\ refused \subseteq Clients
      /\ terminals[id].key \notin CommandKeys
  BY DEF TermInv, TermShape, Leave
<1>2. /\ terminals[id] \in TermRecord /\ id \in Ids
      /\ terminals \in [Ids -> TermRecord \cup {NoTerminal}]
  BY <1>1, TerminalIs DEF TermShape
<1>3. /\ left \in TermRecord /\ left.key = terminals[id].key
      /\ left.runs = terminals[id].runs /\ left.ending = terminals[id].ending
      /\ left.answer = terminals[id].answer
      /\ latest \in TermRecord /\ latest.key = terminals[id].key
      /\ latest.runs = terminals[id].runs /\ latest.ending
      /\ latest.answer = terminals[id].answer
  BY <1>2 DEF TermRecord
<1>4. UNCHANGED <<asking, refused>>
  BY DEF Leave
<1>5. CASE terminals[id].clients = {c}
  <2>1. terminals' = [Left(id, c) EXCEPT ![id].ending = TRUE]
    BY <1>5 DEF Leave, Ended
  <2>2. terminals' = [terminals EXCEPT ![id] = latest]
    BY <1>2, <2>1 DEF Left, TermRecord
  <2>3. registry' = registry \/ registry' = Forgotten(id, registry)
    BY <1>5 DEF Leave, Ended
  <2> HIDE DEF latest
  <2> QED BY <1>1, <1>3, <1>4, <2>2, <2>3, TerminalChanges
<1>6. CASE terminals[id].clients # {c}
  <2>1. terminals' = [terminals EXCEPT ![id] = left] /\ registry' = registry
    BY <1>2, <1>6 DEF Leave, Left
  <2> HIDE DEF left
  <2> QED BY <1>1, <1>3, <1>4, <2>1, TerminalChanges
<1> QED BY <1>5, <1>6

LEMMA KillOK ==
  ASSUME TermInv, NEW id \in Ids, Kill(id)
  PROVE  TermStepOK
<1> DEFINE new == [terminals[id] EXCEPT !.killed = TRUE,
                     !.interrupted = terminals[id].key \in CommandKeys]
<1>1. /\ TermShape /\ id \in Created /\ refused \subseteq Clients /\ terminals[id].ending
      /\ UNCHANGED <<asking, refused>>
  BY DEF TermInv, TermShape, Kill
<1>2. terminals[id] \in TermRecord /\ terminals \in [Ids -> TermRecord \cup {NoTerminal}]
  BY <1>1, TerminalIs DEF TermShape
<1>3. /\ new \in TermRecord /\ new.key = terminals[id].key
      /\ new.runs = terminals[id].runs /\ new.ending = terminals[id].ending
      /\ new.answer = terminals[id].answer
  <2>1. (terminals[id].key \in CommandKeys) \in BOOLEAN
    OBVIOUS
  <2> QED BY <1>2, <2>1 DEF TermRecord
<1>4. terminals' = [terminals EXCEPT ![id] = new]
  BY <1>2 DEF Kill
<1>5. \/ registry' = registry
      \/ registry' = Forgotten(id, registry) /\ terminals[id].key \notin CommandKeys
  BY DEF Kill
<1> HIDE DEF new
<1> QED BY <1>1, <1>3, <1>4, <1>5, TerminalChanges

LEMMA ProcessExitsOK ==
  ASSUME TermInv, NEW id \in Ids, NEW signal \in BOOLEAN, ProcessExits(id, signal)
  PROVE  TermStepOK
<1> DEFINE told == IF terminals[id].key \in CommandKeys THEN Answer(id, signal) ELSE "none"
           new == [terminals[id] EXCEPT !.runs = FALSE, !.clients = {}, !.answer = told]
<1>1. /\ TermShape /\ id \in Created /\ refused \subseteq Clients
      /\ UNCHANGED <<asking, refused>> /\ registry' = Forgotten(id, registry)
  BY DEF TermInv, TermShape, ProcessExits
<1>2. terminals[id] \in TermRecord /\ terminals \in [Ids -> TermRecord \cup {NoTerminal}]
  BY <1>1, TerminalIs DEF TermShape
<1>3. told \in {"none", "code", "error"} /\ (told = "code" => ~terminals[id].ending)
  BY DEF Answer
<1>4. terminals' = [terminals EXCEPT ![id] = new]
  BY <1>2 DEF ProcessExits
<1> HIDE DEF told
<1>5. /\ new \in TermRecord /\ new.key = terminals[id].key /\ ~new.runs
      /\ new.ending = terminals[id].ending /\ new.answer = told
  BY <1>2, <1>3 DEF TermRecord
<1> HIDE DEF new
<1> QED BY <1>1, <1>3, <1>4, <1>5, TerminalChanges

\* Every session that is found is ended; commands stay registered.
LEMMA EndAllOK ==
  ASSUME TermInv, EndAll
  PROVE  TermStepOK
<1> DEFINE sessions == {registry[k] : k \in Keys} \ {0}
<1>1. TermShape
  BY DEF TermInv
<1>2. /\ terminals' = [id \in Ids |->
            IF id \in sessions THEN [terminals[id] EXCEPT !.ending = TRUE] ELSE terminals[id]]
      /\ registry' = [k \in Keys |-> IF k \in CommandKeys THEN registry[k] ELSE 0]
      /\ UNCHANGED <<asking, refused>>
  BY DEF EndAll
<1>3. /\ registry \in [Keys -> Ids \cup {0}]
      /\ asking \subseteq Clients \X (Keys \ CommandKeys) /\ refused \subseteq Clients
      /\ terminals \in [Ids -> TermRecord \cup {NoTerminal}]
  BY <1>1 DEF TermShape
<1>4. sessions \subseteq Created /\ \A k \in Keys : registry[k] # 0 => registry[k] \in sessions
  BY <1>1 DEF TermShape
<1> HIDE DEF sessions
<1>5. ASSUME NEW id \in Ids
      PROVE  /\ id \notin sessions => terminals'[id] = terminals[id]
             /\ id \in sessions =>
                  /\ terminals'[id] \in TermRecord /\ terminals'[id].ending
                  /\ terminals'[id].key = terminals[id].key
                  /\ terminals'[id].runs = terminals[id].runs
                  /\ terminals'[id].answer = terminals[id].answer
  <2>1. CASE id \in sessions
    <3>1. terminals[id] \in TermRecord
      BY <1>1, <1>4, <2>1, TerminalIs
    <3>2. terminals'[id] = [terminals[id] EXCEPT !.ending = TRUE]
      BY <1>2, <2>1
    <3> QED BY <2>1, <3>1, <3>2 DEF TermRecord
  <2>2. CASE id \notin sessions
    BY <1>2, <2>2
  <2> QED BY <2>1, <2>2
<1>6. terminals' \in [Ids -> TermRecord \cup {NoTerminal}]
  BY <1>2, <1>3, <1>5
<1>7. SameTerminals(terminals')
  BY <1>1, <1>4, <1>5, TerminalIs DEF SameTerminals
<1>8. /\ registry' \in [Keys -> Ids \cup {0}]
      /\ \A k \in Keys : registry'[k] \in {0, registry[k]}
  BY <1>2, <1>3
<1>9. ASSUME NEW k \in Keys, registry'[k] # registry[k]
      PROVE  LET id == registry[k] IN
             ~terminals'[id].runs \/ (k \notin CommandKeys /\ terminals'[id].ending)
  <2>1. k \notin CommandKeys /\ registry[k] # 0
    BY <1>2, <1>9
  <2> QED BY <1>3, <1>4, <1>5, <2>1
<1>10. TermInv'
  BY <1>2, <1>3, <1>6, <1>7, <1>8, <1>9, TerminalsEnd
<1>11. Interrupted
  BY <1>1, <1>5, TerminalIs DEF Interrupted
<1> QED BY <1>10, <1>11 DEF TermStepOK

----------------------------------------------------------------------------
(* Theorems *)

LEMMA TermNextOK ==
  ASSUME TermInv, [TermNext]_termVars
  PROVE  TermInv' /\ [Interrupted]_termVars
<1>1. TermNext => TermStepOK
  BY DisconnectOK, ExecOK, JoinOK, JoinEndsOK, LeaveOK, EndAllOK, KillOK, ProcessExitsOK
     DEF TermNext
<1>2. UNCHANGED termVars => TermInv'
  BY DEF termVars, TermInv, TermShape, CommandsLocked, SessionsReachable, Created, Running,
     Overtaken
<1> QED BY <1>1, <1>2 DEF TermStepOK

LEMMA TermInvImplies == TermInv => TermTypeOK
<1> SUFFICES ASSUME TermInv PROVE TermTypeOK
  OBVIOUS
<1>1. TermShape
  BY DEF TermInv
<1>2. \A id \in Created :
         /\ terminals[id].key \in Keys
         /\ terminals[id].runs \in BOOLEAN /\ terminals[id].ending \in BOOLEAN
         /\ terminals[id].killed \in BOOLEAN /\ terminals[id].interrupted \in BOOLEAN
         /\ terminals[id].clients \subseteq Clients
         /\ terminals[id].answer \in {"none", "code", "error"}
  BY <1>1, CreatedIs DEF TermRecord
<1>3. asking \in SUBSET (Clients \X Keys)
  BY <1>1 DEF TermShape
<1> QED BY <1>1, <1>2, <1>3 DEF TermTypeOK, TermShape

\* A command's terminal stays registered until its process has exited, a session is found
\* while it runs, and what was told to end is not answered with a code, for any number of
\* clients and terminals (terminal.ts:104-391).
THEOREM TerminalsStayKept == TermSpec => TerminalsKept
<1>1. TermInit => TermInv
  BY TermInitInv
<1>2. TermInv /\ [TermNext]_termVars => TermInv' /\ [Interrupted]_termVars
  BY TermNextOK
<1>3. TermInv => TermTypeOK /\ CommandsLocked /\ SessionsReachable
  BY TermInvImplies DEF TermInv
<1> QED BY <1>1, <1>2, <1>3, PTL DEF TermSpec, TerminalsKept, InterruptedReported

----------------------------------------------------------------------------
(* Observations and shutdown *)

ObsRow == [id : Nat \ {0}, stack : Watched, status : Statuses, at : Nat, until : Nat, life : Int]
Interval == [id : Nat \ {0}, status : Statuses, at : Nat]
Round == [step : RoundSteps, now : Nat, seen : [Watched -> Statuses], todo : SUBSET Watched,
          stack : Watched \cup {""}, previous : Interval \cup {Nothing}, aborted : BOOLEAN]
ToStop == {NotAsked, <<"observation", "terminals", "database">>, <<"terminals", "database">>,
           <<"database">>, <<>>}

ObsShape ==
    /\ clock \in 0..MaxClock /\ due \in BOOLEAN /\ starts \in Int
    /\ IsFiniteSet(rows) /\ rows \subseteq ObsRow
    /\ last \in [Watched -> Interval \cup {Nothing}]
    /\ rounds = {} \/ \E w \in Round : rounds = {w}
    /\ stopping \in ToStop /\ database \in {"open", "closed"}
    /\ late \subseteq {"database", "terminals", "observation"}

\* Rows are numbered as they are inserted.
IdsUnique ==
    /\ \A r \in rows : r.id <= Cardinality(rows)
    /\ \A r, other \in rows : r.id = other.id => r = other

\* Nothing is recorded beyond the clock, or beyond the sample of the round that runs.
RowsInPast ==
    /\ \A r \in rows : r.at <= r.until /\ r.until <= clock
    /\ \A w \in rounds : w.now <= clock
    /\ \A w \in rounds, r \in rows : w.step # "list" => r.until <= w.now

\* The row of an interval that is kept is the last of its stack, and of this life.
Latest(s, interval) ==
    \E r \in rows :
        /\ r.id = interval.id /\ r.stack = s /\ interval.at <= r.until
        /\ Up => r.life = starts
        /\ \A other \in RowsOf(s) : ~Follows(r, other)
LastIsLatest == \A s \in Watched : last[s] # Nothing => Latest(s, last[s])
RoundIsLatest ==
    \A w \in rounds :
        /\ w.step \in {"update", "insert"} => w.stack \in Watched
        /\ w.step = "update" => Near(w.previous, w.now) /\ Latest(w.stack, w.previous)

\* What is left to stop, and what is over by then.
StopsInOrder ==
    /\ rounds # {} => Up
    /\ Stopping /\ Len(stopping) # 3 /\ "observation" \notin late => rounds = {}
    /\ database = "closed" => stopping = <<>>

ObsInv ==
    /\ ObsShape /\ IdsUnique /\ RowsInPast /\ LastIsLatest /\ RoundIsLatest
    /\ IntervalsDisjoint /\ StopsInOrder

LEMMA OneRound ==
    ASSUME ObsInv, NEW w \in rounds
    PROVE  rounds = {w} /\ w \in Round
BY DEF ObsInv, ObsShape

LEMMA ObsInvInit == ObsInit => ObsInv
BY FS_EmptySet, ObsBoundsAssumption DEF ObsInit, ObsInv, ObsShape, IdsUnique, RowsInPast,
   LastIsLatest,
   RoundIsLatest, IntervalsDisjoint, StopsInOrder, RowsOf, ToStop, Up, Stopping

\* What has to be right about a round that goes on, when no row is written.
RoundRight(v) ==
    /\ v \in Round /\ v.now <= clock
    /\ v.step # "list" => \A r \in rows : r.until <= v.now
    /\ v.step \in {"update", "insert"} => v.stack \in Watched
    /\ v.step = "update" => Near(v.previous, v.now) /\ Latest(v.stack, v.previous)

LEMMA RoundsRight ==
    ASSUME ObsInv, NEW w \in rounds
    PROVE  RoundRight(w) /\ rounds = {w} /\ Up
BY OneRound DEF ObsInv, RowsInPast, RoundIsLatest, RoundRight, StopsInOrder

LEMMA LatestStays ==
    ASSUME NEW s, NEW interval, Latest(s, interval), rows' = rows, Up' => Up /\ starts' = starts
    PROVE  Latest(s, interval)'
BY DEF Latest, RowsOf, Follows

\* A step that writes no row.
LEMMA QuietKeeps ==
    ASSUME ObsInv, rows' = rows,
           clock' \in 0..MaxClock, clock <= clock', due' \in BOOLEAN, starts' \in Int,
           last' \in [Watched -> Interval \cup {Nothing}],
           \A s \in Watched : last'[s] # Nothing =>
                last'[s] = last[s] /\ (Up' => Up /\ starts' = starts),
           \/ rounds' = {}
           \/ starts' = starts /\ Up /\ \E v \in Round : rounds' = {v} /\ RoundRight(v),
           stopping' \in ToStop, database' \in {"open", "closed"},
           late' \subseteq {"database", "terminals", "observation"}, StopsInOrder'
    PROVE  ObsInv'
<1>1. ObsShape'
  BY DEF ObsInv, ObsShape
<1>2. IdsUnique' /\ IntervalsDisjoint'
  BY DEF ObsInv, IdsUnique, IntervalsDisjoint, RowsOf, Follows
<1>3. ASSUME NEW v \in rounds'
      PROVE  RoundRight(v) /\ starts' = starts
  OBVIOUS
<1>4. RowsInPast'
  <2>1. \A r \in rows : r.at <= r.until /\ r.until <= clock /\ r.until \in Nat
    BY DEF ObsInv, ObsShape, ObsRow, RowsInPast
  <2>2. ASSUME NEW r \in rows PROVE r.until <= clock'
    BY <2>1, ObsBoundsAssumption DEF ObsInv, ObsShape
  <2>3. ASSUME NEW v \in rounds' PROVE v.now <= clock'
    <3>1. v.now \in Nat /\ v.now <= clock
      BY <1>3 DEF RoundRight, Round
    <3>2. QED BY <3>1, ObsBoundsAssumption DEF ObsInv, ObsShape
  <2>4. ASSUME NEW v \in rounds', NEW r \in rows, v.step # "list" PROVE r.until <= v.now
    BY <1>3, <2>4 DEF RoundRight
  <2>5. QED BY <2>1, <2>2, <2>3, <2>4 DEF RowsInPast
<1>5. LastIsLatest'
  <2>1. ASSUME NEW s \in Watched, NEW i, i = last'[s], i # Nothing
        PROVE  Latest(s, i)'
    <3>1. i = last[s] /\ (Up' => Up /\ starts' = starts) /\ Latest(s, last[s])
      BY <2>1 DEF ObsInv, LastIsLatest
    <3>2. QED BY <3>1, LatestStays
  <2>2. QED BY <2>1 DEF LastIsLatest
<1>6. RoundIsLatest'
  <2>1. ASSUME NEW v \in rounds', v.step = "update"
        PROVE  Near(v.previous, v.now) /\ Latest(v.stack, v.previous)'
    BY <1>3, <2>1, LatestStays DEF RoundRight, Up
  <2>2. QED BY <1>3, <2>1 DEF RoundIsLatest, RoundRight, Near, TooOld
<1>7. QED BY <1>1, <1>2, <1>4, <1>5, <1>6 DEF ObsInv

LEMMA ObsTypes ==
    ASSUME ObsInv
    PROVE  /\ clock \in 0..MaxClock /\ clock <= clock /\ due \in BOOLEAN /\ starts \in Int
           /\ last \in [Watched -> Interval \cup {Nothing}]
           /\ stopping \in ToStop /\ database \in {"open", "closed"}
           /\ late \subseteq {"database", "terminals", "observation"} /\ StopsInOrder
BY ObsBoundsAssumption DEF ObsInv, ObsShape

LEMMA RoundBeginsKeeps == ASSUME ObsInv, RoundBegins PROVE ObsInv'
<1>1. NewRound \in Round /\ RoundRight(NewRound)
  <2>1. NewRound \in Round
    BY DEF NewRound, Round, RoundSteps, Statuses
  <2>2. NewRound.step = "list" /\ NewRound.now = 0
    BY DEF NewRound
  <2>3. 0 <= clock
    BY ObsTypes, ObsBoundsAssumption
  <2>4. QED BY <2>1, <2>2, <2>3 DEF RoundRight
<1>2. /\ Up /\ ~Stopping /\ rounds' = {NewRound} /\ due' = FALSE /\ clock' = clock
      /\ rows' = rows /\ last' = last
      /\ stopping' = stopping /\ database' = database /\ late' = late /\ starts' = starts
  BY DEF RoundBegins, history, shutdown
<1>3. StopsInOrder'
  BY <1>2, ObsTypes DEF StopsInOrder, Up, Stopping
<1>4. QED BY <1>1, <1>2, <1>3, ObsTypes, QuietKeeps

LEMMA RoundListsKeeps == ASSUME ObsInv, NEW w \in rounds, RoundLists(w) PROVE ObsInv'
<1>1. RoundRight(w) /\ rounds = {w} /\ Up /\ w \in Round
  BY RoundsRight DEF RoundRight
<1>2. /\ clock' = clock /\ rows' = rows /\ due' = due /\ stopping' = stopping
      /\ database' = database
      /\ late' = late /\ starts' = starts
  BY DEF RoundLists, shutdown
<1>3. \/ rounds' = {} /\ last' = last
      \/ /\ \E seen \in [Watched -> Statuses] :
              rounds' = {[w EXCEPT !.step = "next", !.now = clock, !.seen = seen, !.todo = Watched]}
         /\ last' = [s \in Watched |->
              IF last[s] # Nothing /\ TooOld(last[s], clock) THEN Nothing ELSE last[s]]
  BY <1>1 DEF RoundLists, RoundEnds, Replace
<1>4. rounds' = {} \/ (\E v \in Round : rounds' = {v} /\ RoundRight(v))
  <2>1. ASSUME NEW seen \in [Watched -> Statuses]
        PROVE  RoundRight([w EXCEPT !.step = "next", !.now = clock, !.seen = seen,
                                !.todo = Watched])
    <3> DEFINE v == [w EXCEPT !.step = "next", !.now = clock, !.seen = seen, !.todo = Watched]
    <3>1. v \in Round
      <4>1. clock \in Nat
        BY ObsTypes, ObsBoundsAssumption
      <4>2. QED BY <1>1, <4>1 DEF Round, RoundSteps
    <3>2. v.step = "next" /\ v.now = clock
      BY <1>1 DEF Round
    <3>3. \A r \in rows : r.until <= clock
      BY DEF ObsInv, RowsInPast
    <3>4. QED BY <3>1, <3>2, <3>3, ObsTypes DEF RoundRight
  <2>2. QED BY <1>3, <2>1 DEF RoundRight
<1>5. last' \in [Watched -> Interval \cup {Nothing}]
      /\ \A s \in Watched : last'[s] # Nothing => last'[s] = last[s]
  BY <1>3, ObsTypes
<1>6. StopsInOrder'
  BY <1>1, <1>2, <1>4, ObsTypes DEF StopsInOrder, Up, Stopping
<1>7. QED BY <1>1, <1>2, <1>4, <1>5, <1>6, ObsTypes, QuietKeeps DEF Up

\* A step of the round that leaves the rows and the intervals alone.
LEMMA RoundMoves ==
    ASSUME ObsInv, NEW w \in rounds,
           rounds' = {} \/ (\E v : rounds' = {v} /\ RoundRight(v)),
           UNCHANGED <<clock, due, history, shutdown>>
    PROVE  ObsInv'
<1>1. rounds = {w} /\ Up
  BY RoundsRight
<1>2. clock' = clock /\ rows' = rows /\ last' = last /\ due' = due /\ stopping' = stopping
      /\ database' = database /\ late' = late /\ starts' = starts
  BY DEF history, shutdown
<1>3. StopsInOrder'
  BY <1>1, <1>2, ObsTypes DEF StopsInOrder, Up, Stopping
<1>4. rounds' = {} \/ (\E u \in Round : rounds' = {u} /\ RoundRight(u))
  BY DEF RoundRight
<1>5. QED BY <1>1, <1>2, <1>3, <1>4, ObsTypes, QuietKeeps DEF Up

LEMMA RoundNextKeeps == ASSUME ObsInv, NEW w \in rounds, RoundNext(w) PROVE ObsInv'
<1>1. RoundRight(w) /\ rounds = {w} /\ w \in Round /\ w.step = "next"
  BY RoundsRight DEF RoundRight, RoundNext
<1>2. UNCHANGED <<clock, due, history, shutdown>>
  BY DEF RoundNext
<1>3. \/ rounds' = {}
      \/ rounds' = {[w EXCEPT !.step = "collect"]}
      \/ \E s \in w.todo :
            rounds' = {[w EXCEPT !.stack = s, !.todo = w.todo \ {s}, !.previous = last[s],
                             !.step = IF Near(last[s], w.now) THEN "update" ELSE "insert"]}
  BY <1>1 DEF RoundNext, RoundEnds, Replace
<1>4. RoundRight([w EXCEPT !.step = "collect"])
  BY <1>1 DEF RoundRight, Round, RoundSteps
<1>5. ASSUME NEW s \in w.todo
      PROVE  RoundRight([w EXCEPT !.stack = s, !.todo = w.todo \ {s}, !.previous = last[s],
                             !.step = IF Near(last[s], w.now) THEN "update" ELSE "insert"])
  <2> DEFINE step == IF Near(last[s], w.now) THEN "update" ELSE "insert"
             v == [w EXCEPT !.stack = s, !.todo = w.todo \ {s}, !.previous = last[s], !.step = step]
  <2>1. s \in Watched /\ last[s] \in Interval \cup {Nothing}
    BY <1>1, ObsTypes DEF Round
  <2>2. step \in {"update", "insert"} /\ (step = "update" => Near(last[s], w.now))
    OBVIOUS
  <2>3. Near(last[s], w.now) => Latest(s, last[s])
    BY <2>1 DEF ObsInv, LastIsLatest, Near
  <2> HIDE DEF step
  <2>4. v \in Round
    BY <1>1, <2>1, <2>2 DEF Round, RoundSteps
  <2>5. v.step = step /\ v.stack = s /\ v.now = w.now /\ v.previous = last[s]
    BY <1>1 DEF Round
  <2> HIDE DEF v
  <2>6. RoundRight(v)
    BY <1>1, <2>1, <2>2, <2>3, <2>4, <2>5 DEF RoundRight
  <2>7. QED BY <2>6 DEF v, step
<1>6. QED BY <1>2, <1>3, <1>4, <1>5, RoundMoves

LEMMA RoundCollectsKeeps == ASSUME ObsInv, NEW w \in rounds, RoundCollects(w) PROVE ObsInv'
<1>1. RoundRight(w) /\ rounds = {w} /\ w \in Round /\ w.step = "collect"
  BY RoundsRight DEF RoundRight, RoundCollects
<1>2. rounds' = {} \/ rounds' = {[w EXCEPT !.step = "publish"]}
  BY <1>1 DEF RoundCollects, RoundEnds, Replace
<1>3. RoundRight([w EXCEPT !.step = "publish"])
  BY <1>1 DEF RoundRight, Round, RoundSteps
<1>4. QED BY <1>2, <1>3, RoundMoves DEF RoundCollects

LEMMA RoundPublishesKeeps == ASSUME ObsInv, NEW w \in rounds, RoundPublishes(w) PROVE ObsInv'
<1>1. rounds' = {}
  BY RoundsRight DEF RoundPublishes, RoundEnds
<1>2. QED BY <1>1, RoundMoves DEF RoundPublishes

LEMMA ShorterLists ==
    ASSUME NEW list, list = <<"terminals", "database">> \/ list = <<"database">> \/ list = <<>>
    PROVE  list # NotAsked /\ Len(list) # 3
<1>1. CASE list = <<"terminals", "database">>
  BY <1>1 DEF NotAsked
<1>2. CASE list = <<"database">>
  <2>1. list[1] = "database" /\ Len(list) = 1
    BY <1>2
  <2>2. NotAsked[1] = "unasked"
    BY DEF NotAsked
  <2>3. QED BY <2>1, <2>2
<1>3. CASE list = <<>>
  BY <1>3 DEF NotAsked
<1>4. QED BY <1>1, <1>2, <1>3

\* The list of what is left to stop, from its end.
LEMMA StopLists ==
    ASSUME NEW list \in ToStop, list # NotAsked, list # <<>>
    PROVE  /\ Tail(list) \in ToStop /\ Tail(list) # NotAsked
           /\ Head(list) \in {"database", "terminals", "observation"}
           /\ Len(list) = 3 <=> Head(list) = "observation"
           /\ Len(Tail(list)) # 3
           /\ Head(list) = "database" => Tail(list) = <<>>
<1>1. CASE list = <<"observation", "terminals", "database">>
  <2>1. Tail(list) = <<"terminals", "database">> /\ Head(list) = "observation" /\ Len(list) = 3
    BY <1>1
  <2>2. Tail(list) \in ToStop
    BY <2>1 DEF ToStop
  <2>3. Tail(list) # NotAsked /\ Len(Tail(list)) # 3
    BY <2>1, ShorterLists
  <2>4. Len(list) = 3 <=> Head(list) = "observation"
    BY <2>1
  <2>5. Head(list) = "database" => Tail(list) = <<>>
    BY <2>1
  <2>6. Head(list) \in {"database", "terminals", "observation"}
    BY <2>1
  <2>7. QED BY <2>2, <2>3, <2>4, <2>5, <2>6
<1>2. CASE list = <<"terminals", "database">>
  <2>1. Tail(list) = <<"database">> /\ Head(list) = "terminals" /\ Len(list) = 2
    BY <1>2
  <2>2. Tail(list) \in ToStop
    BY <2>1 DEF ToStop
  <2>3. Tail(list) # NotAsked /\ Len(Tail(list)) # 3
    BY <2>1, ShorterLists
  <2>4. Len(list) = 3 <=> Head(list) = "observation"
    BY <2>1
  <2>5. Head(list) = "database" => Tail(list) = <<>>
    BY <2>1
  <2>6. Head(list) \in {"database", "terminals", "observation"}
    BY <2>1
  <2>7. QED BY <2>2, <2>3, <2>4, <2>5, <2>6
<1>3. CASE list = <<"database">>
  <2>1. Tail(list) = <<>> /\ Head(list) = "database" /\ Len(list) = 1
    BY <1>3
  <2>2. Tail(list) \in ToStop
    BY <2>1 DEF ToStop
  <2>3. Tail(list) # NotAsked /\ Len(Tail(list)) # 3
    BY <2>1, ShorterLists
  <2>4. Len(list) = 3 <=> Head(list) = "observation"
    BY <2>1
  <2>5. Head(list) = "database" => Tail(list) = <<>>
    BY <2>1
  <2>6. Head(list) \in {"database", "terminals", "observation"}
    BY <2>1
  <2>7. QED BY <2>2, <2>3, <2>4, <2>5, <2>6
<1>4. QED BY <1>1, <1>2, <1>3 DEF ToStop

LEMMA StopBegins ==
    StopOrder(Resources) = <<"observation", "terminals", "database">>
<1>1. /\ Len(Resources) = 3 /\ Resources[1] = "database" /\ Resources[2] = "terminals"
      /\ Resources[3] = "observation"
  BY DEF Resources
<1>2. Reversed(Resources) = [i \in 1..3 |-> Resources[4 - i]]
  BY <1>1 DEF Reversed
<1>3. /\ Reversed(Resources) \in Seq({"database", "terminals", "observation"})
      /\ Len(Reversed(Resources)) = 3
  BY <1>1, <1>2
<1>4. /\ Reversed(Resources)[1] = "observation" /\ Reversed(Resources)[2] = "terminals"
      /\ Reversed(Resources)[3] = "database"
  BY <1>1, <1>2
<1>5. QED BY <1>3, <1>4 DEF StopOrder

LEMMA StopKeeps == ASSUME ObsInv, Stop PROVE ObsInv'
<1>1. Up /\ ~Stopping /\ stopping' = <<"observation", "terminals", "database">>
      /\ rounds' = {[w EXCEPT !.aborted = TRUE] : w \in rounds} /\ clock' = clock
      /\ rows' = rows
      /\ due' = due /\ last' = last /\ database' = database /\ late' = late /\ starts' = starts
  BY StopBegins DEF Stop, history
<1>2. rounds' = {} \/ (\E v \in Round : rounds' = {v} /\ RoundRight(v))
  <2>1. CASE rounds = {}
    BY <1>1, <2>1
  <2>2. ASSUME NEW w \in rounds
        PROVE  \E v \in Round : rounds' = {v} /\ RoundRight(v)
    <3>1. RoundRight(w) /\ rounds = {w} /\ w \in Round
      BY RoundsRight DEF RoundRight
    <3>2. RoundRight([w EXCEPT !.aborted = TRUE])
      BY <3>1 DEF RoundRight, Round
    <3>3. QED BY <1>1, <3>1, <3>2 DEF RoundRight
  <2>3. QED BY <2>1, <2>2
<1>3. stopping' \in ToStop /\ Len(stopping') = 3
  BY <1>1 DEF ToStop
<1>4. database # "closed"
  <2>1. NotAsked # <<>>
    BY DEF NotAsked
  <2>2. QED BY <1>1, <2>1, ObsTypes DEF StopsInOrder, Stopping
<1>5. StopsInOrder'
  BY <1>1, <1>3, <1>4 DEF StopsInOrder, Up, Stopping
<1>6. QED BY <1>1, <1>2, <1>3, <1>5, ObsTypes, QuietKeeps DEF Up

\* A step of the shutdown leaves the round as it is.
LEMMA ShutdownMoves ==
    ASSUME ObsInv, UNCHANGED <<clock, due, history, rounds, starts>>, Up,
           stopping' \in ToStop, database' \in {"open", "closed"},
           late' \subseteq {"database", "terminals", "observation"}, StopsInOrder'
    PROVE  ObsInv'
<1>1. /\ clock' = clock /\ rows' = rows /\ due' = due /\ last' = last /\ rounds' = rounds
      /\ starts' = starts
  BY DEF history
<1>2. rounds' = {} \/ (\E v \in Round : rounds' = {v} /\ RoundRight(v))
  BY <1>1, RoundsRight DEF RoundRight
<1>3. QED BY <1>1, <1>2, ObsTypes, QuietKeeps DEF Up

LEMMA StopNextKeeps == ASSUME ObsInv, StopNext PROVE ObsInv'
<1>1. /\ Up /\ stopping # NotAsked /\ stopping # <<>> /\ stopping' = Tail(stopping)
      /\ Head(stopping) = "observation" => rounds = {}
      /\ database' = IF Head(stopping) = "database" THEN "closed" ELSE database
      /\ UNCHANGED <<clock, due, history, rounds, starts>> /\ late' = late
  BY DEF StopNext, Stopping, Stopped
<1>2. /\ stopping' \in ToStop /\ stopping' # NotAsked /\ Len(stopping') # 3
      /\ Len(stopping) = 3 <=> Head(stopping) = "observation"
      /\ Head(stopping) = "database" => stopping' = <<>>
  BY <1>1, ObsTypes, StopLists
<1>3. database' = "closed" => stopping' = <<>>
  BY <1>1, <1>2, ObsTypes DEF StopsInOrder
<1>4. StopsInOrder'
  BY <1>1, <1>2, <1>3, ObsTypes DEF StopsInOrder, Up, Stopping
<1>5. QED BY <1>1, <1>2, <1>4, ObsTypes, ShutdownMoves

LEMMA StopExpiresKeeps == ASSUME ObsInv, StopExpires PROVE ObsInv'
<1>1. /\ Up /\ stopping # NotAsked /\ stopping # <<>> /\ stopping' = Tail(stopping)
      /\ Head(stopping) # "database" /\ late' = late \cup {Head(stopping)}
      /\ UNCHANGED <<clock, due, history, rounds, starts>> /\ database' = database
  BY DEF StopExpires, Stopping
<1>2. /\ stopping' \in ToStop /\ stopping' # NotAsked /\ Len(stopping') # 3
      /\ Head(stopping) \in {"database", "terminals", "observation"}
      /\ Len(stopping) = 3 <=> Head(stopping) = "observation"
  BY <1>1, ObsTypes, StopLists
<1>3. database # "closed"
  BY <1>1, ObsTypes DEF StopsInOrder
<1>4. StopsInOrder'
  BY <1>1, <1>2, <1>3, ObsTypes DEF StopsInOrder, Up, Stopping
<1>5. QED BY <1>1, <1>2, <1>4, ObsTypes, ShutdownMoves

LEMMA LeavesKeeps ==
    ASSUME ObsInv, Up, Leaves, UNCHANGED <<stopping, database, late>> PROVE ObsInv'
<1>1. /\ starts' = -starts /\ rounds' = {} /\ clock' = clock /\ due' = due /\ rows' = rows
      /\ last' = last
  BY DEF Leaves, history
<1>2. starts' \in Int /\ ~Up'
  BY <1>1, ObsTypes DEF Up
<1>3. StopsInOrder'
  BY <1>1, ObsTypes DEF StopsInOrder, Stopping
<1>4. QED BY <1>1, <1>2, <1>3, ObsTypes, QuietKeeps

LEMMA StartKeeps == ASSUME ObsInv, Start PROVE ObsInv'
<1>1. /\ ~Up /\ starts' = 1 - starts /\ last' = [s \in Watched |-> Nothing]
      /\ stopping' = NotAsked /\ database' = "open" /\ late' = {}
      /\ clock' = clock /\ due' = due /\ rows' = rows /\ rounds' = rounds
  BY DEF Start
<1>2. rounds' = {}
  BY <1>1, ObsTypes DEF StopsInOrder
<1>3. StopsInOrder' /\ stopping' \in ToStop
  BY <1>1, <1>2 DEF StopsInOrder, Stopping, ToStop
<1>4. starts' \in Int
  BY <1>1, ObsTypes
<1>5. QED BY <1>1, <1>2, <1>3, <1>4, ObsTypes, QuietKeeps

LEMMA TickKeeps == ASSUME ObsInv, Tick PROVE ObsInv'
<1>1. /\ clock' \in 0..MaxClock /\ clock <= clock' /\ due' = TRUE /\ rows' = rows
      /\ last' = last
      /\ rounds' = rounds /\ starts' = starts
      /\ stopping' = stopping /\ database' = database /\ late' = late
  BY ObsTypes, ObsBoundsAssumption DEF Tick, history, shutdown
<1>2. rounds' = {} \/ (Up /\ \E v \in Round : rounds' = {v} /\ RoundRight(v))
  BY <1>1, RoundsRight DEF RoundRight
<1>3. StopsInOrder'
  BY <1>1, ObsTypes DEF StopsInOrder, Up, Stopping
<1>4. QED BY <1>1, <1>2, <1>3, ObsTypes, QuietKeeps DEF Up

LEMMA ForgetKeeps == ASSUME ObsInv, NEW s \in Watched, Forget(s) PROVE ObsInv'
<1>1. /\ Up /\ last' = [last EXCEPT ![s] = Nothing]
      /\ clock' = clock /\ due' = due /\ rows' = rows /\ rounds' = rounds /\ starts' = starts
      /\ stopping' = stopping /\ database' = database /\ late' = late
  BY DEF Forget, shutdown
<1>2. rounds' = {} \/ (\E v \in Round : rounds' = {v} /\ RoundRight(v))
  BY <1>1, RoundsRight DEF RoundRight
<1>3. StopsInOrder'
  BY <1>1, ObsTypes DEF StopsInOrder, Up, Stopping
<1>4. last' \in [Watched -> Interval \cup {Nothing}]
      /\ \A t \in Watched : last'[t] # Nothing => last'[t] = last[t]
  BY <1>1, ObsTypes
<1>5. QED BY <1>1, <1>2, <1>3, <1>4, ObsTypes, QuietKeeps DEF Up

\* Whether the interval the round extends is in the past of the round.
LEMMA ExtendsLatest ==
    ASSUME ObsInv, NEW w \in rounds, w.step = "update"
    PROVE  \E r \in rows :
             /\ r.id = w.previous.id /\ r.stack = w.stack /\ r.life = starts
             /\ w.stack \in Watched /\ w.now \in Nat /\ w.now <= clock
             /\ r.at <= r.until /\ r.until <= w.now /\ w.now - r.until <= MaxGap
             /\ \A other \in rows : other.stack = w.stack => ~Follows(r, other)
<1>1. RoundRight(w) /\ Up /\ w \in Round
  BY RoundsRight DEF RoundRight
<1>2. Near(w.previous, w.now) /\ Latest(w.stack, w.previous) /\ w.stack \in Watched
  BY <1>1 DEF RoundRight
<1>3. PICK r \in rows :
        /\ r.id = w.previous.id /\ r.stack = w.stack /\ w.previous.at <= r.until
        /\ r.life = starts /\ \A other \in RowsOf(w.stack) : ~Follows(r, other)
  BY <1>1, <1>2 DEF Latest
<1>4. r.until <= w.now /\ r.at <= r.until /\ r.until \in Nat /\ r.at \in Nat
  BY <1>1 DEF RoundRight, ObsInv, RowsInPast, ObsShape, ObsRow
<1>5. w.now \in Nat /\ w.now <= clock /\ w.previous \in Interval
  BY <1>1, <1>2 DEF RoundRight, Round, Near
<1>6. w.previous.at \in Nat /\ w.now - w.previous.at <= MaxGap
  BY <1>2, <1>5, ObsBoundsAssumption DEF Near, TooOld, Interval
<1>7. w.now - r.until <= MaxGap
  BY <1>3, <1>4, <1>5, <1>6, ObsBoundsAssumption
<1>8. QED BY <1>2, <1>3, <1>4, <1>5, <1>7 DEF RowsOf

\* A row that is extended takes the place of the one it was.
Extended(r, now) == [r EXCEPT !.until = now]
LEMMA ExtendedRow ==
    ASSUME NEW r \in ObsRow, NEW now \in Nat
    PROVE  /\ Extended(r, now) \in ObsRow /\ Extended(r, now).id = r.id
           /\ Extended(r, now).stack = r.stack /\ Extended(r, now).at = r.at
           /\ Extended(r, now).until = now /\ Extended(r, now).life = r.life
           /\ Extended(r, now).status = r.status
BY DEF ObsRow, Extended

LEMMA UpdatesRows ==
    ASSUME ObsInv, NEW w \in rounds, RoundUpdates(w), database = "open"
    PROVE  \E old \in rows :
             /\ old.stack = w.stack /\ old.life = starts
             /\ w.stack \in Watched /\ w.now \in Nat /\ w.now <= clock
             /\ old.id = w.previous.id
             /\ old.at <= old.until /\ old.until <= w.now /\ w.now - old.until <= MaxGap
             /\ \A other \in rows : other.stack = w.stack => ~Follows(old, other)
             /\ rows' = (rows \ {old}) \cup {Extended(old, w.now)}
<1>1. w.step = "update"
  BY DEF RoundUpdates
<1>2. PICK old \in rows :
        /\ old.id = w.previous.id /\ old.stack = w.stack /\ old.life = starts
        /\ w.stack \in Watched /\ w.now \in Nat /\ w.now <= clock
        /\ old.at <= old.until /\ old.until <= w.now /\ w.now - old.until <= MaxGap
        /\ \A other \in rows : other.stack = w.stack => ~Follows(old, other)
  BY <1>1, ExtendsLatest
<1>3. rows' = {IF r.id = w.previous.id THEN Extended(r, w.now) ELSE r : r \in rows}
  BY DEF RoundUpdates, Extended
<1>4. \A r \in rows : r.id = w.previous.id <=> r = old
  BY <1>2 DEF ObsInv, IdsUnique
<1>5. rows' = (rows \ {old}) \cup {Extended(old, w.now)}
  BY <1>3, <1>4
<1>6. QED BY <1>2, <1>5

\* A row replaced by itself with a later end: the ids stay, and who follows whom.
LEMMA ExtendsRows ==
    ASSUME ObsInv, NEW old \in rows, NEW now \in Nat, old.until <= now, now <= clock,
           clock' = clock,
           \A other \in rows : other.stack = old.stack => ~Follows(old, other),
           \A r \in rows : r.until <= now,
           rows' = (rows \ {old}) \cup {Extended(old, now)}
    PROVE  /\ IsFiniteSet(rows') /\ rows' \subseteq ObsRow
           /\ IdsUnique' /\ IntervalsDisjoint'
           /\ \A r \in rows' : r.at <= r.until /\ r.until <= now
           /\ \A n \in rows' : n # Extended(old, now) => n \in rows /\ n.id # old.id
<1> DEFINE new == Extended(old, now)
<1>1. /\ new \in ObsRow /\ new.id = old.id /\ new.stack = old.stack /\ new.at = old.at
      /\ new.until = now
  BY ExtendedRow DEF ObsInv, ObsShape
<1> HIDE DEF new
<1>2. rows' = (rows \ {old}) \cup {new}
  BY DEF new
<1>3. rows \subseteq ObsRow /\ IsFiniteSet(rows)
  BY DEF ObsInv, ObsShape
<1>4. \A n \in rows' : n # new => n \in rows /\ n # old /\ n.id # old.id
  BY <1>2 DEF ObsInv, IdsUnique
<1>5. IsFiniteSet(rows') /\ Cardinality(rows') = Cardinality(rows)
  <2>1. CASE new = old
    BY <1>2, <1>3, <2>1
  <2>2. CASE new # old
    <3>1. new \notin rows
      BY <1>1, <2>2 DEF ObsInv, IdsUnique
    <3>2. IsFiniteSet(rows \ {old}) /\ Cardinality(rows \ {old}) = Cardinality(rows) - 1
      BY <1>3, FS_RemoveElement
    <3>3. new \notin rows \ {old}
      BY <3>1
    <3>4. IsFiniteSet(rows') /\ Cardinality(rows') = Cardinality(rows \ {old}) + 1
      <4> DEFINE others == rows \ {old}
      <4>1. IsFiniteSet(others) /\ new \notin others /\ rows' = others \cup {new}
        BY <1>2, <3>2, <3>3
      <4> HIDE DEF others
      <4>2. IsFiniteSet(rows') /\ Cardinality(rows') = Cardinality(others) + 1
        BY <4>1, FS_AddElement
      <4>3. QED BY <4>2 DEF others
    <3>5. Cardinality(rows) \in Nat
      BY <1>3, FS_CardinalityType
    <3>6. QED BY <3>2, <3>4, <3>5
  <2>3. QED BY <2>1, <2>2
<1>6. IdsUnique'
  <2>1. \A r \in rows : r.id <= Cardinality(rows)
    BY DEF ObsInv, IdsUnique
  <2>2. \A n \in rows' : n.id <= Cardinality(rows')
    BY <1>1, <1>4, <1>5, <2>1
  <2>3. \A n, other \in rows' : n.id = other.id => n = other
    BY <1>1, <1>4 DEF ObsInv, IdsUnique
  <2>4. QED BY <2>2, <2>3 DEF IdsUnique
<1>7. IntervalsDisjoint'
  <2>1. ASSUME NEW a \in rows', NEW b \in rows', a.stack = b.stack, a.stack \in Watched,
               Follows(a, b)
        PROVE  a.until <= b.at
    <3>1. CASE a = new
      <4>1. CASE b = new
        BY <1>1, <2>1, <3>1, <4>1 DEF Follows, ObsRow
      <4>2. CASE b # new
        BY <1>1, <1>4, <2>1, <3>1, <4>2 DEF Follows
      <4>3. QED BY <4>1, <4>2
    <3>2. CASE a # new /\ b = new
      <4>1. a \in rows /\ Follows(a, old)
        BY <1>1, <1>4, <2>1, <3>2 DEF Follows
      <4>2. a.until <= old.at
        BY <1>1, <2>1, <3>2, <4>1 DEF ObsInv, IntervalsDisjoint, RowsOf
      <4>3. QED BY <1>1, <3>2, <4>2
    <3>3. CASE a # new /\ b # new
      BY <1>4, <2>1, <3>3 DEF ObsInv, IntervalsDisjoint, RowsOf
    <3>4. QED BY <3>1, <3>2, <3>3
  <2>2. QED BY <2>1 DEF IntervalsDisjoint, RowsOf
<1>8. \A r \in rows' : r.at <= r.until /\ r.until <= now
  <2>1. \A r \in rows : r.at <= r.until
    BY DEF ObsInv, RowsInPast
  <2>2. old.at \in Nat /\ old.until \in Nat /\ old.at <= old.until
    BY <1>3, <2>1 DEF ObsRow
  <2>3. new.at <= new.until /\ new.until <= now
    BY <1>1, <2>2
  <2>4. QED BY <1>4, <2>1, <2>3
<1>9. rows' \subseteq ObsRow
  BY <1>1, <1>2, <1>3
<1>10. QED BY <1>4, <1>5, <1>6, <1>7, <1>8, <1>9 DEF new

LEMMA LatestExtends ==
    ASSUME ObsInv, NEW old \in rows, NEW now \in Nat, old.until <= now, NEW s, NEW interval,
           interval.at \in Nat, Latest(s, interval), starts' = starts,
           rows' = (rows \ {old}) \cup {Extended(old, now)}
    PROVE  Latest(s, interval)'
<1> DEFINE new == Extended(old, now)
<1>1. /\ new.id = old.id /\ new.stack = old.stack /\ new.at = old.at
      /\ new.until = now /\ new.life = old.life
  BY ExtendedRow DEF ObsInv, ObsShape
<1>2. rows' = (rows \ {old}) \cup {new}
  OBVIOUS
<1> HIDE DEF new
<1>3. PICK r \in rows :
        /\ r.id = interval.id /\ r.stack = s /\ interval.at <= r.until
        /\ Up => r.life = starts
        /\ \A other \in RowsOf(s) : ~Follows(r, other)
  BY DEF Latest
<1> DEFINE now1 == IF r = old THEN new ELSE r
<1>4. /\ now1 \in rows' /\ now1.id = r.id /\ now1.stack = r.stack /\ now1.at = r.at
      /\ now1.life = r.life
  BY <1>1, <1>2, <1>3
<1>5. interval.at <= now1.until
  <2>1. r.until \in Nat
    BY DEF ObsInv, ObsShape, ObsRow
  <2>2. QED BY <1>1, <1>3, <2>1
<1> HIDE DEF now1
<1>6. ASSUME NEW other \in rows', other.stack = s PROVE ~Follows(now1, other)
  <2>1. CASE other = new
    BY <1>1, <1>3, <1>4, <1>6, <2>1 DEF Follows, RowsOf
  <2>2. CASE other # new
    BY <1>2, <1>3, <1>4, <1>6, <2>2 DEF Follows, RowsOf
  <2>3. QED BY <2>1, <2>2
<1>7. QED BY <1>3, <1>4, <1>5, <1>6 DEF Latest, RowsOf, Up

LEMMA RoundUpdatesKeeps == ASSUME ObsInv, NEW w \in rounds, RoundUpdates(w) PROVE ObsInv'
<1>1. RoundRight(w) /\ rounds = {w} /\ Up /\ w \in Round /\ w.step = "update"
  BY RoundsRight DEF RoundRight, RoundUpdates
<1>2. UNCHANGED <<clock, due, shutdown>> /\ clock' = clock /\ due' = due /\ stopping' = stopping
      /\ database' = database /\ late' = late /\ starts' = starts
  BY DEF RoundUpdates, shutdown
<1>3. PICK step \in {"next", "insert"} : rounds' = {[w EXCEPT !.step = step]}
                                         /\ (database = "closed" => step = "next")
  BY <1>1 DEF RoundUpdates, Replace
<1> DEFINE v == [w EXCEPT !.step = step]
<1>4. v \in Round /\ v.step = step /\ v.now = w.now /\ v.stack = w.stack
  BY <1>1 DEF Round, RoundSteps
<1>5. rounds' = {v}
  BY <1>3
<1> HIDE DEF v
<1>6. CASE database # "open"
  <2>1. database = "closed"
    BY <1>6, ObsTypes
  <2>2. rows' = rows /\ last' = last
    BY <2>1 DEF RoundUpdates
  <2>3. RoundRight(v)
    BY <1>1, <1>3, <1>4, <2>1 DEF RoundRight
  <2>4. QED BY <1>2, <1>5, <2>2, <2>3, RoundMoves DEF history
<1>7. CASE database = "open"
  <2>1. PICK old \in rows :
          /\ old.stack = w.stack /\ old.life = starts
          /\ w.stack \in Watched /\ w.now \in Nat /\ w.now <= clock
          /\ old.id = w.previous.id
          /\ old.at <= old.until /\ old.until <= w.now /\ w.now - old.until <= MaxGap
          /\ \A other \in rows : other.stack = w.stack => ~Follows(old, other)
          /\ rows' = (rows \ {old}) \cup {Extended(old, w.now)}
    BY <1>7, UpdatesRows
  <2> DEFINE new == Extended(old, w.now)
  <2>2. \A r \in rows : r.until <= w.now
    BY <1>1 DEF RoundRight
  <2>3. /\ IsFiniteSet(rows') /\ rows' \subseteq ObsRow /\ IdsUnique' /\ IntervalsDisjoint'
        /\ \A r \in rows' : r.at <= r.until /\ r.until <= w.now
    BY <1>2, <2>1, <2>2, ExtendsRows
  <2>4. /\ new.id = old.id /\ new.stack = old.stack /\ new.at = old.at
        /\ new.until = w.now /\ new.life = old.life
    BY <2>1, ExtendedRow DEF ObsInv, ObsShape
  <2>5. rows' = (rows \ {old}) \cup {new}
    BY <2>1
  <2> HIDE DEF new
  <2>6. PICK s \in Watched : s = w.stack
    BY <2>1
  <2>7. \/ last' = last
        \/ last[s] = w.previous /\ last' = [last EXCEPT ![s].at = w.now]
    BY <2>6 DEF RoundUpdates
  <2>8. w.previous \in Interval
    BY <1>1 DEF RoundRight, Round, Near
  <2>9. last' \in [Watched -> Interval \cup {Nothing}]
        /\ \A t \in Watched : \/ last'[t] = last[t]
                              \/ /\ t = s /\ last'[t] \in Interval /\ last'[t].id = old.id
                                 /\ last'[t].at = w.now
    <3>1. CASE last' = last
      BY <3>1, ObsTypes
    <3>2. CASE last[s] = w.previous /\ last' = [last EXCEPT ![s].at = w.now]
      <4>1. /\ [w.previous EXCEPT !.at = w.now] \in Interval
            /\ [w.previous EXCEPT !.at = w.now].id = old.id
            /\ [w.previous EXCEPT !.at = w.now].at = w.now
        BY <2>1, <2>8 DEF Interval
      <4>2. last' = [last EXCEPT ![s] = [w.previous EXCEPT !.at = w.now]]
        BY <3>2, ObsTypes
      <4>3. QED BY <4>1, <4>2, ObsTypes
    <3>3. QED BY <2>7, <3>1, <3>2
  <2>10. ObsShape'
    BY <1>2, <1>4, <1>5, <2>3, <2>9, ObsTypes DEF ObsShape
  <2>11. RowsInPast'
    <3>1. \A r \in rows' : r.until \in Nat
      BY <2>3 DEF ObsRow
    <3>2. clock \in Nat /\ w.now <= clock
      BY <2>1, ObsTypes, ObsBoundsAssumption
    <3>3. QED BY <1>2, <1>4, <1>5, <2>1, <2>3, <3>1, <3>2 DEF RowsInPast
  <2>12. LastIsLatest'
    <3>1. ASSUME NEW t \in Watched, NEW i, i = last'[t], i # Nothing
          PROVE  Latest(t, i)'
      <4>1. CASE i = last[t]
        <5>1. Latest(t, i) /\ i \in Interval
          BY <3>1, <4>1, ObsTypes DEF ObsInv, LastIsLatest
        <5>2. i.at \in Nat
          BY <5>1 DEF Interval
        <5>3. QED BY <1>2, <2>1, <5>1, <5>2, LatestExtends
      <4>2. CASE t = s /\ i.id = old.id /\ i.at = w.now
        <5>1. new \in rows' /\ new.id = i.id /\ new.stack = t /\ i.at <= new.until
          BY <2>1, <2>4, <2>5, <2>6, <4>2
        <5>2. ASSUME NEW other \in rows', other.stack = t PROVE ~Follows(new, other)
          <6>1. CASE other = new
            <7>1. new \in ObsRow
              BY <2>3, <5>1
            <7>2. QED BY <6>1, <7>1 DEF Follows, ObsRow
          <6>2. CASE other # new
            BY <2>1, <2>4, <2>5, <2>6, <4>2, <5>2, <6>2 DEF Follows
          <6>3. QED BY <6>1, <6>2
        <5>3. QED BY <1>2, <2>1, <2>4, <5>1, <5>2 DEF Latest, RowsOf
      <4>3. QED BY <2>9, <3>1, <4>1, <4>2
    <3>2. QED BY <3>1 DEF LastIsLatest
  <2>13. RoundIsLatest'
    BY <1>3, <1>4, <1>5, <2>1 DEF RoundIsLatest
  <2>14. StopsInOrder'
    BY <1>1, <1>2, <1>5, ObsTypes DEF StopsInOrder, Up, Stopping
  <2>15. QED BY <2>3, <2>10, <2>11, <2>12, <2>13, <2>14 DEF ObsInv
<1>8. QED BY <1>6, <1>7

\* The row of a new interval.
Inserted(w) ==
    [id |-> NewId, stack |-> w.stack, status |-> w.seen[w.stack], at |-> w.now, until |-> w.now,
     life |-> starts]
LEMMA InsertsRow ==
    ASSUME ObsInv, NEW w \in rounds, w.step = "insert"
    PROVE  /\ Inserted(w) \in ObsRow /\ w.stack \in Watched /\ w.now \in Nat /\ w.now <= clock
           /\ \A r \in rows : r.id < NewId /\ r.at <= r.until /\ r.until <= w.now
           /\ NewId \in Nat \ {0} /\ NewId = Cardinality(rows) + 1
           /\ w.seen[w.stack] \in Statuses
<1>1. RoundRight(w) /\ w \in Round /\ w.stack \in Watched
  BY RoundsRight DEF RoundRight
<1>2. w.now \in Nat /\ w.now <= clock /\ w.seen[w.stack] \in Statuses
  BY <1>1 DEF RoundRight, Round
<1>3. Cardinality(rows) \in Nat
  BY FS_CardinalityType DEF ObsInv, ObsShape
<1>4. NewId \in Nat \ {0} /\ NewId = Cardinality(rows) + 1
  BY <1>3 DEF NewId
<1>5. starts \in Int
  BY ObsTypes
<1>6. Inserted(w) \in ObsRow
  BY <1>1, <1>2, <1>4, <1>5 DEF Inserted, ObsRow
<1>7. ASSUME NEW r \in rows PROVE r.id < NewId /\ r.at <= r.until /\ r.until <= w.now
  <2>1. r.id <= Cardinality(rows) /\ r.id \in Nat
    BY DEF ObsInv, IdsUnique, ObsShape, ObsRow
  <2>2. r.until <= w.now /\ r.at <= r.until
    BY <1>1, w.step # "list" DEF RoundRight, ObsInv, RowsInPast
  <2>3. QED BY <1>3, <1>4, <2>1, <2>2
<1>8. QED BY <1>1, <1>2, <1>4, <1>6, <1>7

LEMMA RoundInsertsKeeps == ASSUME ObsInv, NEW w \in rounds, RoundInserts(w) PROVE ObsInv'
<1>1. RoundRight(w) /\ rounds = {w} /\ Up /\ w \in Round /\ w.step = "insert"
  BY RoundsRight DEF RoundRight, RoundInserts
<1>2. UNCHANGED <<clock, due, shutdown>> /\ clock' = clock /\ due' = due /\ stopping' = stopping
      /\ database' = database /\ late' = late /\ starts' = starts
  BY DEF RoundInserts, shutdown
<1> DEFINE v == [w EXCEPT !.step = "next"]
<1>3. v \in Round /\ v.step = "next" /\ v.now = w.now
  BY <1>1 DEF Round, RoundSteps
<1>4. rounds' = {v}
  BY <1>1 DEF RoundInserts, Replace
<1> HIDE DEF v
<1>5. CASE database = "closed"
  <2>1. rows' = rows /\ last' = last
    BY <1>5 DEF RoundInserts
  <2>2. RoundRight(v)
    BY <1>1, <1>3 DEF RoundRight
  <2>3. QED BY <1>2, <1>4, <2>1, <2>2, RoundMoves DEF history
<1>6. CASE database # "closed"
  <2> DEFINE new == Inserted(w)
  <2>1. /\ new \in ObsRow /\ w.stack \in Watched /\ w.now \in Nat /\ w.now <= clock
        /\ \A r \in rows : r.id < NewId /\ r.at <= r.until /\ r.until <= w.now
        /\ NewId \in Nat \ {0} /\ NewId = Cardinality(rows) + 1 /\ w.seen[w.stack] \in Statuses
    BY <1>1, InsertsRow
  <2>2. rows' = rows \cup {new}
        /\ last' = [last EXCEPT ![w.stack] =
                       [id |-> NewId, status |-> w.seen[w.stack], at |-> w.now]]
    BY <1>6 DEF RoundInserts, Inserted
  <2>3. /\ new.id = NewId /\ new.stack = w.stack /\ new.at = w.now /\ new.until = w.now
        /\ new.life = starts
    BY DEF Inserted
  <2> HIDE DEF new
  <2>4. rows \subseteq ObsRow /\ IsFiniteSet(rows)
    BY DEF ObsInv, ObsShape
  <2>5. IsFiniteSet(rows') /\ Cardinality(rows') = NewId /\ new \notin rows
    <3>1. new \notin rows
      BY <2>1, <2>3
    <3>2. QED BY <2>1, <2>2, <2>4, <3>1, FS_AddElement
  <2>6. IdsUnique'
    <3>1. \A r \in rows' : r.id <= NewId
      BY <2>1, <2>2, <2>3, <2>4 DEF ObsRow
    <3>2. \A r, other \in rows' : r.id = other.id => r = other
      <4>1. ASSUME NEW r \in rows PROVE r.id # NewId
        BY <2>1, <2>4 DEF ObsRow
      <4>2. QED BY <2>2, <2>3, <4>1 DEF ObsInv, IdsUnique
    <3>3. QED BY <2>5, <3>1, <3>2 DEF IdsUnique
  <2>7. ASSUME NEW r \in rows
        PROVE  ~Follows(new, r) /\ ~Follows(new, new)
    <3>1. r.id \in Nat /\ r.at \in Nat /\ r.until \in Nat
      BY <2>4 DEF ObsRow
    <3>2. QED BY <2>1, <2>3, <3>1 DEF Follows
  <2>8. IntervalsDisjoint'
    <3>1. ASSUME NEW a \in rows', NEW b \in rows', a.stack = b.stack, a.stack \in Watched,
                 Follows(a, b)
          PROVE  a.until <= b.at
      <4>1. CASE a \in rows /\ b \in rows
        BY <3>1, <4>1 DEF ObsInv, IntervalsDisjoint, RowsOf
      <4>2. CASE a \in rows /\ b = new
        BY <2>1, <2>3, <4>2
      <4>3. CASE a = new /\ b \in rows
        BY <2>7, <3>1, <4>3
      <4>4. CASE a = new /\ b = new
        BY <2>1, <2>3, <3>1, <4>4 DEF Follows
      <4>5. QED BY <2>2, <4>1, <4>2, <4>3, <4>4
    <3>2. QED BY <3>1 DEF IntervalsDisjoint, RowsOf
  <2>9. last' \in [Watched -> Interval \cup {Nothing}]
        /\ \A t \in Watched : \/ t # w.stack /\ last'[t] = last[t]
                              \/ /\ t = w.stack
                                 /\ last'[t] = [id |-> NewId, status |-> w.seen[w.stack], at |-> w.now]
    <3>1. [id |-> NewId, status |-> w.seen[w.stack], at |-> w.now] \in Interval
      BY <2>1 DEF Interval
    <3>2. QED BY <2>2, <3>1, ObsTypes
  <2>10. ObsShape'
    BY <1>2, <1>3, <1>4, <2>1, <2>2, <2>4, <2>5, <2>9, ObsTypes DEF ObsShape
  <2>11. RowsInPast'
    <3>1. \A r \in rows' : r.at <= r.until /\ r.until <= w.now /\ r.until \in Nat
      BY <2>1, <2>2, <2>3, <2>4 DEF ObsRow
    <3>2. clock \in Nat
      BY ObsTypes, ObsBoundsAssumption
    <3>3. QED BY <1>2, <1>3, <1>4, <2>1, <3>1, <3>2 DEF RowsInPast
  <2>12. LastIsLatest'
    <3>1. ASSUME NEW t \in Watched, NEW i, i = last'[t], i # Nothing
          PROVE  Latest(t, i)'
      <4>1. CASE t # w.stack
        <5>1. Latest(t, i)
          BY <2>9, <3>1, <4>1 DEF ObsInv, LastIsLatest
        <5>2. QED BY <1>2, <2>2, <2>3, <4>1, <5>1 DEF Latest, RowsOf, Follows, Up
      <4>2. CASE t = w.stack
        <5>1. new \in rows' /\ new.id = i.id /\ new.stack = t /\ i.at = new.until
          BY <2>2, <2>3, <2>9, <3>1, <4>2
        <5>2. \A other \in rows' : ~Follows(new, other)
          <6>1. ~Follows(new, new)
            BY <2>1, <2>3 DEF Follows
          <6>2. QED BY <2>2, <2>7, <6>1
        <5>3. QED BY <1>2, <2>1, <2>3, <5>1, <5>2 DEF Latest, RowsOf, Follows
      <4>3. QED BY <4>1, <4>2
    <3>2. QED BY <3>1 DEF LastIsLatest
  <2>13. RoundIsLatest'
    BY <1>3, <1>4 DEF RoundIsLatest
  <2>14. StopsInOrder'
    BY <1>1, <1>2, <1>4, ObsTypes DEF StopsInOrder, Up, Stopping
  <2>15. QED BY <2>6, <2>8, <2>10, <2>11, <2>12, <2>13, <2>14 DEF ObsInv
<1>7. QED BY <1>5, <1>6

LEMMA ObsStuttersKeep == ASSUME ObsInv, UNCHANGED obsVars PROVE ObsInv'
BY DEF ObsInv, ObsShape, IdsUnique, RowsInPast, LastIsLatest, RoundIsLatest, Latest, Near,
   TooOld,
   IntervalsDisjoint, StopsInOrder, RowsOf, Follows, Up, Stopping, obsVars, history, shutdown

\* A step extends at most the row of the round that runs, from one sample to the next.
LEMMA StepConfirms == ASSUME ObsInv, [ObsNext]_obsVars PROVE Confirmed
<1>1. CASE rows' = rows
  BY <1>1 DEF Confirmed, ObsInv, IdsUnique
<1>2. ASSUME NEW w \in rounds, RoundUpdates(w), rows' # rows PROVE Confirmed
  <2>1. database = "open"
    BY <1>2, ObsTypes DEF RoundUpdates
  <2>2. PICK old \in rows :
          /\ old.stack = w.stack /\ old.life = starts
          /\ w.stack \in Watched /\ w.now \in Nat /\ w.now <= clock
          /\ old.id = w.previous.id
          /\ old.at <= old.until /\ old.until <= w.now /\ w.now - old.until <= MaxGap
          /\ \A other \in rows : other.stack = w.stack => ~Follows(old, other)
          /\ rows' = (rows \ {old}) \cup {Extended(old, w.now)}
    BY <1>2, <2>1, UpdatesRows
  <2> DEFINE new == Extended(old, w.now)
  <2>3. /\ new.id = old.id /\ new.at = old.at /\ new.status = old.status
        /\ new.until = w.now /\ new.life = old.life
    BY <2>2, ExtendedRow DEF ObsInv, ObsShape
  <2>4. rows' = (rows \ {old}) \cup {new}
    BY <2>2
  <2> HIDE DEF new
  <2>5. ASSUME NEW r \in rows, NEW n \in rows', n.id = r.id, n.until # r.until
        PROVE  /\ n.until - r.until \in 1..MaxGap /\ r.life = starts
               /\ n.at = r.at /\ n.status = r.status
    <3>1. n = new /\ r = old
      BY <2>3, <2>4, <2>5 DEF ObsInv, IdsUnique
    <3>2. old.until \in Nat
      BY DEF ObsInv, ObsShape, ObsRow
    <3>3. QED BY <2>2, <2>3, <2>5, <3>1, <3>2, ObsBoundsAssumption
  <2>6. QED BY <2>5 DEF Confirmed
<1>3. ASSUME NEW w \in rounds, RoundInserts(w), rows' # rows PROVE Confirmed
  <2>1. rows' = rows \cup {Inserted(w)} /\ w.step = "insert"
    BY <1>3 DEF RoundInserts, Inserted
  <2>2. \A r \in rows : r.id < NewId /\ r.id \in Nat /\ NewId \in Nat
    BY <2>1, InsertsRow DEF ObsInv, ObsShape, ObsRow
  <2>3. Inserted(w).id = NewId
    BY DEF Inserted
  <2>4. \A r \in rows, n \in rows' : n.id = r.id => n = r
    BY <2>1, <2>2, <2>3 DEF ObsInv, IdsUnique
  <2>5. QED BY <2>4 DEF Confirmed
<1>4. CASE ObsNext
  <2>1. \/ rows' = rows
        \/ \E w \in rounds : RoundUpdates(w) \/ RoundInserts(w)
    BY <1>4 DEF ObsNext, RoundStep, RoundBegins, RoundLists, RoundNext, RoundCollects,
       RoundPublishes,
       Stop, StopNext, StopExpires, Exit, Killed, Leaves, Start, Tick, Forget, history
  <2>2. QED BY <1>1, <1>2, <1>3, <2>1
<1>5. CASE UNCHANGED obsVars
  BY <1>1, <1>5 DEF obsVars, history
<1>6. QED BY <1>4, <1>5

LEMMA ObsStepKeeps == ASSUME ObsInv, [ObsNext]_obsVars PROVE ObsInv'
BY RoundBeginsKeeps, RoundListsKeeps, RoundNextKeeps, RoundUpdatesKeeps, RoundInsertsKeeps,
   RoundCollectsKeeps, RoundPublishesKeeps, StopKeeps, StopNextKeeps, StopExpiresKeeps, LeavesKeeps,
   StartKeeps, TickKeeps, ForgetKeeps, ObsStuttersKeep DEF ObsNext, RoundStep, Exit, Killed

LEMMA ObsInvSays == ASSUME ObsInv PROVE ObsTypeOK /\ IntervalsDisjoint /\ RoundOverBeforeClose
<1>1. IntervalsDisjoint
  BY DEF ObsInv
<1>2. RoundOverBeforeClose
  <2>1. Len(<<>>) # 3 /\ <<>> # NotAsked
    BY DEF NotAsked
  <2>2. QED BY <2>1 DEF ObsInv, StopsInOrder, RoundOverBeforeClose, Stopping
<1>3. \A r \in rows : /\ r.stack \in Watched /\ r.status \in Statuses
                      /\ r.at <= r.until /\ r.until <= clock
  BY DEF ObsInv, ObsShape, ObsRow, RowsInPast
<1>4. \A s \in Watched : last[s] # Nothing => \E r \in rows : r.id = last[s].id
  BY DEF ObsInv, LastIsLatest, Latest
<1>5. ASSUME NEW w \in rounds
      PROVE  /\ w.step \in RoundSteps /\ w.now \in 0..clock
             /\ w.todo \subseteq Watched /\ w.aborted \in BOOLEAN
  <2>1. w \in Round /\ w.now <= clock
    BY OneRound DEF ObsInv, RowsInPast
  <2>2. /\ w.step \in RoundSteps /\ w.now \in Nat /\ w.todo \subseteq Watched
        /\ w.aborted \in BOOLEAN
    BY <2>1 DEF Round
  <2>3. clock \in Nat
    BY ObsTypes, ObsBoundsAssumption
  <2>4. QED BY <2>1, <2>2, <2>3
<1>6. {Resources[i] : i \in 1..Len(Resources)} = {"database", "terminals", "observation"}
  <2>1. /\ Len(Resources) = 3 /\ Resources[1] = "database" /\ Resources[2] = "terminals"
        /\ Resources[3] = "observation"
    BY DEF Resources
  <2>2. 1..Len(Resources) = {1, 2, 3}
    BY <2>1
  <2>3. QED BY <2>1, <2>2
<1>7. ObsTypeOK
  BY <1>3, <1>4, <1>5, <1>6, ObsTypes DEF ObsTypeOK
<1>8. QED BY <1>1, <1>2, <1>7

\* Ids are given once, a stack's last interval is the one kept in memory, and a round
\* works on it alone, through every restart (observations.ts:30-140).
THEOREM ObservingInvariance == ObsSpec => []ObsInv
<1>1. QED BY ObsInvInit, ObsStepKeeps, PTL DEF ObsSpec

\* The history claims only time that was watched, no two intervals of a stack the same,
\* and the database is closed after the round that writes to it, for any number of stacks,
\* rounds and restarts (observations.ts:46-78, dockge-server.ts:661).
THEOREM HistoryIsTrue == ObsSpec => HistoryTrue
<1>1. ObsInv /\ [ObsNext]_obsVars => [Confirmed]_obsVars
  BY StepConfirms
<1>2. QED BY <1>1, ObsInvSays, ObservingInvariance, PTL
         DEF ObsSpec, HistoryTrue, IntervalsConfirmed

\* An interval is over before the next one of its stack begins: what it contributes to a
\* window ends where it ends itself (common/availability.ts:68).
LEMMA DurationIs ==
    ASSUME ObsInv, NEW s \in Watched, NEW r \in RowsOf(s), NEW from \in 0..clock
    PROVE  LET start == IF r.at < from THEN from ELSE r.at
               length == Duration(r, RowsOf(s), from, clock)
           IN /\ start \in Nat /\ from <= start /\ r.at <= start
              /\ r.at \in Nat /\ r.until \in Nat /\ r.until <= clock
              /\ length = IF r.status = "unknown" \/ r.until <= start THEN 0 ELSE r.until - start
<1> DEFINE start == IF r.at < from THEN from ELSE r.at
           later == {o \in RowsOf(s) : Follows(r, o)}
           ats == {o.at : o \in later}
<1>1. /\ r.at \in Nat /\ r.until \in Nat /\ r.until <= clock /\ clock \in Nat /\ from \in Nat
      /\ \A o \in RowsOf(s) : o.at \in Nat
  BY DEF ObsInv, ObsShape, ObsRow, RowsInPast, RowsOf
<1>2. start \in Nat /\ from <= start /\ r.at <= start
  BY <1>1
<1>3. \A o \in later : r.until <= o.at
  BY DEF ObsInv, IntervalsDisjoint
<1>4. r.until <= NextAt(r, RowsOf(s), clock) /\ NextAt(r, RowsOf(s), clock) \in Nat
  <2>1. CASE later = {}
    BY <1>1, <2>1 DEF NextAt
  <2>2. CASE later # {}
    <3>1. ats \in SUBSET Nat /\ ats # {} /\ \A a \in ats : r.until <= a
      BY <1>1, <1>3, <2>2
    <3>2. NextAt(r, RowsOf(s), clock) = Min(ats)
      BY <2>2 DEF NextAt
    <3> HIDE DEF ats
    <3>3. Min(ats) \in ats
      BY <3>1, LeastIs
    <3>4. QED BY <3>1, <3>2, <3>3
  <2>3. QED BY <2>1, <2>2
<1>5. Lower(r.until, Lower(NextAt(r, RowsOf(s), clock), clock)) = r.until
  <2> DEFINE next == NextAt(r, RowsOf(s), clock)
  <2>1. next \in Nat /\ r.until <= next
    BY <1>4
  <2> HIDE DEF next
  <2>2. Lower(r.until, Lower(next, clock)) = r.until
    BY <1>1, <2>1 DEF Lower
  <2>3. QED BY <2>2 DEF next
<1>6. Duration(r, RowsOf(s), from, clock) =
        IF r.status = "unknown" \/ r.until <= start THEN 0 ELSE r.until - start
  BY <1>5 DEF Duration
<1>7. QED BY <1>1, <1>2, <1>6

\* Each moment of the window inside a known interval is counted once: by its number in the
\* interval it is in.
LEMMA MomentsCounted ==
    ASSUME ObsInv, NEW s \in Watched, NEW from \in 0..clock
    PROVE  Measured(RowsOf(s), from, clock) =
             Cardinality({t \in from..(clock - 1) :
                \E r \in RowsOf(s) : r.status # "unknown" /\ r.at <= t /\ t < r.until})
<1> DEFINE of == RowsOf(s)
           start(r) == IF r.at < from THEN from ELSE r.at
           length(r) == Duration(r, of, from, clock)
           pairs == {m \in of \X (1..clock) : m[2] <= length(m[1])}
           moments == {t \in from..(clock - 1) :
                         \E r \in of : r.status # "unknown" /\ r.at <= t /\ t < r.until}
           moment == [m \in pairs |-> start(m[1]) + m[2] - 1]
<1>1. clock \in Nat /\ from \in Nat /\ from <= clock /\ IsFiniteSet(of)
  BY FS_Subset DEF ObsInv, ObsShape, RowsOf
<1>2. \A r \in of :
        /\ start(r) \in Nat /\ from <= start(r) /\ r.at <= start(r)
        /\ r.at \in Nat /\ r.until \in Nat /\ r.until <= clock
        /\ start(r) = from \/ start(r) = r.at
        /\ length(r) = IF r.status = "unknown" \/ r.until <= start(r) THEN 0
                       ELSE r.until - start(r)
  BY DurationIs
<1>3. \A a, b \in of : Follows(a, b) => a.until <= b.at
  BY DEF ObsInv, IntervalsDisjoint
<1>4. \A a, b \in of : a # b => Follows(a, b) \/ Follows(b, a)
  <2> SUFFICES ASSUME NEW a \in of, NEW b \in of, a # b PROVE Follows(a, b) \/ Follows(b, a)
    OBVIOUS
  <2>1. a.id # b.id
    BY DEF ObsInv, IdsUnique, RowsOf
  <2>2. a.id \in Nat /\ b.id \in Nat /\ a.at \in Nat /\ b.at \in Nat
    BY DEF ObsInv, ObsShape, ObsRow, RowsOf
  <2>3. QED BY <2>1, <2>2 DEF Follows
<1>5. IsFiniteSet(pairs)
  <2>1. IsFiniteSet(1..clock)
    BY <1>1, FS_Interval
  <2>2. IsFiniteSet(of \X (1..clock))
    <3> HIDE DEF of
    <3>1. QED BY <1>1, <2>1, FS_Product
  <2>3. pairs \subseteq of \X (1..clock)
    OBVIOUS
  <2> HIDE DEF pairs
  <2>4. QED BY <2>2, <2>3, FS_Subset
<1> HIDE DEF of, length, start
<1>6. ASSUME NEW m \in pairs
      PROVE  /\ m = <<m[1], m[2]>> /\ m[1] \in of /\ m[2] \in 1..clock
             /\ m[1].status # "unknown" /\ m[1].until > start(m[1])
             /\ m[2] <= m[1].until - start(m[1])
             /\ moment[m] = start(m[1]) + m[2] - 1
  BY <1>1, <1>2
<1>7. ASSUME NEW m \in pairs
      PROVE  /\ moment[m] \in Int /\ start(m[1]) <= moment[m] /\ moment[m] < m[1].until
             /\ moment[m] \in moments
  <2> DEFINE r == m[1]
             n == m[2]
             t == moment[m]
  <2>1. r \in of /\ n \in 1..clock /\ r.status # "unknown" /\ n <= r.until - start(r)
        /\ t = start(r) + n - 1
    BY <1>6
  <2> HIDE DEF r, n, t
  <2>2. start(r) \in Nat /\ from <= start(r) /\ r.at <= start(r) /\ r.at \in Nat
        /\ r.until \in Nat /\ r.until <= clock
    BY <1>2, <2>1
  <2>3. t \in Int /\ start(r) <= t /\ t < r.until /\ t \in from..(clock - 1) /\ r.at <= t
    BY <1>1, <2>1, <2>2
  <2>4. t \in moments
    BY <2>1, <2>3
  <2>5. QED BY <2>3, <2>4 DEF r, t
<1>8. ASSUME NEW a \in pairs, NEW b \in pairs, moment[a] = moment[b] PROVE a = b
  <2>1. CASE a[1] = b[1]
    <3>1. start(a[1]) \in Nat /\ a[2] \in Nat /\ b[2] \in Nat
      BY <1>1, <1>2, <1>6
    <3>2. start(a[1]) + a[2] - 1 = start(a[1]) + b[2] - 1
      BY <1>6, <1>8, <2>1
    <3>3. a[2] = b[2]
      BY <3>1, <3>2
    <3>4. QED BY <1>6, <2>1, <3>3
  <2>2. ASSUME NEW c \in pairs, NEW d \in pairs, Follows(c[1], d[1]) PROVE moment[c] < moment[d]
    <3>1. c[1].until <= d[1].at
      BY <1>3, <1>6, <2>2
    <3>2. moment[c] < c[1].until /\ start(d[1]) <= moment[d] /\ moment[c] \in Int
          /\ moment[d] \in Int
      BY <1>7
    <3>3. d[1].at <= start(d[1]) /\ start(d[1]) \in Nat /\ d[1].at \in Nat /\ c[1].until \in Nat
      BY <1>2, <1>6
    <3> HIDE DEF moment
    <3>4. QED BY <3>1, <3>2, <3>3
  <2>3. CASE a[1] # b[1]
    <3>1. Follows(a[1], b[1]) \/ Follows(b[1], a[1])
      BY <1>4, <1>6, <2>3
    <3>2. moment[a] < moment[b] \/ moment[b] < moment[a]
      BY <2>2, <3>1
    <3>3. moment[a] \in Int /\ moment[b] \in Int
      BY <1>7
    <3> HIDE DEF moment
    <3>4. QED BY <1>8, <3>2, <3>3
  <2>4. QED BY <2>1, <2>3
<1>9. ASSUME NEW t \in moments PROVE \E m \in pairs : moment[m] = t
  <2>1. PICK r \in of : r.status # "unknown" /\ r.at <= t /\ t < r.until
    OBVIOUS
  <2> DEFINE n == t - start(r) + 1
             m == <<r, n>>
  <2>2. t \in from..(clock - 1)
    OBVIOUS
  <2>3. start(r) \in Nat /\ start(r) <= t /\ r.until \in Nat /\ r.until <= clock
    BY <1>1, <1>2, <2>1, <2>2
  <2>4. n \in 1..clock /\ n <= r.until - start(r) /\ start(r) + n - 1 = t /\ ~(r.until <= start(r))
    BY <1>1, <2>1, <2>2, <2>3
  <2>5. length(r) = r.until - start(r)
    BY <1>2, <2>1, <2>4
  <2> HIDE DEF n
  <2>6. m \in pairs
    BY <2>1, <2>4, <2>5
  <2>7. moment[m] = t
    BY <2>4, <2>6
  <2> HIDE DEF m
  <2>8. QED BY <2>6, <2>7
<1>10. moment \in Bijection(pairs, moments)
  <2>1. moment \in [pairs -> moments]
    BY <1>7
  <2> HIDE DEF pairs, moments, moment
  <2>2. moment \in Injection(pairs, moments)
    BY <1>8, <2>1 DEF Injection, IsInjective
  <2>3. moment \in Surjection(pairs, moments)
    BY <1>9, <2>1 DEF Surjection
  <2>4. QED BY <2>2, <2>3 DEF Bijection
<1>11. Cardinality(pairs) = Cardinality(moments)
  <2> HIDE DEF pairs, moments, moment
  <2>1. ExistsBijection(pairs, moments)
    BY <1>10 DEF ExistsBijection
  <2>2. QED BY <1>5, <2>1, FS_Bijection
<1>12. Measured(of, from, clock) = Cardinality(pairs)
  BY DEF Measured, length
<1>13. QED BY <1>11, <1>12 DEF of

\* The availability of a window counts each moment once, and only what was watched, for
\* any history (common/availability.ts:63-95).
THEOREM AvailabilityIsMeasured == ObsSpec => []AvailabilityMeasured
<1>1. ObsInv => AvailabilityMeasured
  BY MomentsCounted DEF AvailabilityMeasured
<1>2. QED BY <1>1, ObservingInvariance, PTL
=============================================================================
