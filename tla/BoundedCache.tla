---------------------------- MODULE BoundedCache ----------------------------
(***************************************************************************)
(* The cache of comparisons and sources (bounded-cache.ts): least recently *)
(* used first out, bounded in bytes and entries, with one timer for all    *)
(* deadlines.                                                              *)
(***************************************************************************)
EXTENDS Naturals, FiniteSets, SequencesExt, FiniteSetsExt

CONSTANTS
    CacheKeys,     \* keys callers use
    MaxBytes, MaxEntries, Ttl,   \* arguments of the constructor
    MaxTime        \* bound on the clock

ASSUME CacheAssumption ==
    MaxBytes \in Nat /\ MaxEntries \in Nat \ {0} /\ Ttl \in Nat \ {0} /\ MaxTime \in Nat \ {0}

VARIABLES
    items,    \* entries in the order of their last use
    used,     \* the bytes counted
    timer,    \* when it fires, 0 when there is none
    time      \* the clock

cacheVars == <<items, used, timer, time>>

Sizes == 0..(MaxBytes + 1)
Entry == [key : CacheKeys, bytes : Sizes, expires : 0..(MaxTime + Ttl)]
CacheTypeOK ==
    /\ items \in Seq(Entry) /\ used \in Nat /\ timer \in 0..(MaxTime + Ttl)
    /\ time \in 1..MaxTime
    /\ \A i, j \in 1..Len(items) : i # j => items[i].key # items[j].key

CacheInit == items = <<>> /\ used = 0 /\ timer = 0 /\ time = 1

Owns(state, k) == \E i \in 1..Len(state.items) : state.items[i].key = k
Place(state, k) == CHOOSE i \in 1..Len(state.items) : state.items[i].key = k
EntryOf(state, k) == state.items[Place(state, k)]

\* delete: the bytes are given back, and the timer with the last entry.
DeletedMutant(state, k) ==
    IF ~Owns(state, k) THEN state
    ELSE [items |-> RemoveAt(state.items, Place(state, k)),
          used |-> state.used - EntryOf(state, k).bytes, timer |-> 0]
Deleted(state, k) ==
    IF ~Owns(state, k) THEN state
    ELSE LET rest == RemoveAt(state.items, Place(state, k)) IN
         [items |-> rest, used |-> state.used - EntryOf(state, k).bytes,
          timer |-> IF rest = <<>> THEN 0 ELSE state.timer]

\* The bytes of a set of entries, as pairs of a key and a number.
Parts(entries) ==
    {b \in CacheKeys \X (1..MaxBytes) : \E e \in entries : b[1] = e.key /\ b[2] <= e.bytes}
Bytes(entries) == Cardinality(Parts(entries))

\* The oldest entries go until the new one fits.
Evicted(state, bytes) ==
    LET left(n) == SubSeq(state.items, n + 1, Len(state.items))
        size(n) == state.used - Bytes(ToSet(SubSeq(state.items, 1, n)))
        fits(n) == Len(left(n)) < MaxEntries /\ size(n) + bytes <= MaxBytes
        out == Min({n \in 0..Len(state.items) : fits(n)})
    IN [items |-> left(out), used |-> size(out),
        timer |-> IF left(out) = <<>> THEN 0 ELSE state.timer]

\* schedule: the timer of the earliest deadline.
Scheduled(state) ==
    [state EXCEPT !.timer = IF state.items = <<>> THEN 0
                            ELSE Min({e.expires : e \in ToSet(state.items)})]

State == [items |-> items, used |-> used, timer |-> timer]
Becomes(state) == items' = state.items /\ used' = state.used /\ timer' = state.timer

\* set: what was under the key goes first, also when the new value is too large.
StoredMutant(k, bytes) ==
    LET room == Evicted(State, bytes)
    IN IF bytes > MaxBytes THEN Deleted(State, k)
       ELSE Scheduled([items |-> Append(SelectSeq(room.items, LAMBDA e : e.key # k),
                            [key |-> k, bytes |-> bytes, expires |-> time + Ttl]),
                       used |-> room.used + bytes, timer |-> room.timer])
Stored(k, bytes) ==
    LET before == Deleted(State, k)
        room == Evicted(before, bytes)
    IN IF bytes > MaxBytes THEN before
       ELSE Scheduled([items |-> Append(room.items,
                            [key |-> k, bytes |-> bytes, expires |-> time + Ttl]),
                       used |-> room.used + bytes, timer |-> room.timer])
CacheSet(k, bytes) == Becomes(Stored(k, bytes)) /\ UNCHANGED time

\* get: an entry past its deadline is deleted, a live one is used last.
CacheGet(k) ==
    /\ Owns(State, k)
    /\ LET e == EntryOf(State, k) IN
       IF e.expires <= time THEN Becomes(Deleted(State, k))
       ELSE Becomes([State EXCEPT !.items = Append(RemoveAt(items, Place(State, k)), e)])
    /\ UNCHANGED time

CacheDelete(k) == Owns(State, k) /\ Becomes(Deleted(State, k)) /\ UNCHANGED time

\* clear: all entries and the timer.
Cleared == [items |-> <<>>, used |-> 0, timer |-> 0]
CacheClear == Becomes(Cleared) /\ UNCHANGED time

\* Some of the entries in their order, as a sequence of their places.
InOrder(places) ==
    {order \in [1..Cardinality(places) -> places] :
        \A i, j \in 1..Cardinality(places) : i < j => order[i] < order[j]}

\* The timer drops what is past its deadline and is set again.
TimerFires ==
    /\ timer # 0 /\ timer <= time
    /\ LET live == {i \in 1..Len(items) : items[i].expires > time}
           dropped == {items[i] : i \in (1..Len(items)) \ live}
       IN \E order \in InOrder(live) :
             Becomes(Scheduled([items |-> [i \in 1..Cardinality(live) |-> items[order[i]]],
                                used |-> used - Bytes(dropped), timer |-> timer]))
    /\ UNCHANGED time

CacheTick == time < MaxTime /\ time' = time + 1 /\ UNCHANGED <<items, used, timer>>

CacheNext ==
    \/ \E k \in CacheKeys : CacheGet(k) \/ CacheDelete(k) \/ \E b \in Sizes : CacheSet(k, b)
    \/ CacheClear \/ TimerFires \/ CacheTick
CacheSpec == CacheInit /\ [][CacheNext]_cacheVars

----------------------------------------------------------------------------
(* Properties *)

\* The bytes counted are those of the entries held, through replacement, eviction,
\* deadlines and values too large to keep, and the limits hold (bounded-cache.ts:42).
CacheBounded ==
    /\ used = Bytes(ToSet(items))
    /\ used <= MaxBytes /\ Len(items) <= MaxEntries

\* No entry outlives its deadline for want of a timer: one is set, and not after the
\* earliest deadline, also after the entry it was set for is gone
\* (bounded-cache.ts:90).
DeadlinesWatched ==
    items # <<>> => timer # 0 /\ \A e \in ToSet(items) : timer <= e.expires

\* The cache holds no more than it may and nothing longer than it may.
CacheKept == CacheBounded /\ DeadlinesWatched
=============================================================================
