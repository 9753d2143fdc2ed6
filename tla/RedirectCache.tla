----------------------------- MODULE RedirectCache -----------------------------
(***************************************************************************)
(* The map of RedirectCache.ts from devices to the endpoint last           *)
(* recommended for them.  A JavaScript Map iterates in insertion order, so *)
(* a cache is a sequence of entries, the oldest first.  Time is abstracted *)
(* to a flag: an entry is `old` when ttl has passed since it was set.      *)
(***************************************************************************)
EXTENDS Integers, Sequences, SequencesExt

CONSTANTS
    Devices,     \* device ids and table names
    Endpoints,   \* nodes of the cluster
    NoEndpoint,  \* null
    EmptyDevice, \* "", which a table or device id may be
    CacheSize    \* maxSize

ASSUME CacheSizeAssumption == CacheSize \in Nat \ {0}

VARIABLE cache   \* this.deviceToEndpoint

Entries == [device : Devices, endpoint : Endpoints, old : BOOLEAN]

\* Where the entry of a device is, if it has one.
Has(d)   == \E i \in DOMAIN cache : cache[i].device = d
Place(d) == CHOOSE i \in DOMAIN cache : cache[i].device = d

\* Map.delete(d)
Without(d) == IF Has(d) THEN RemoveAt(cache, Place(d)) ELSE cache

\* get(d): what it returns, and the cache it leaves; an old entry is deleted.
Found(d) == IF Has(d) /\ ~ cache[Place(d)].old THEN cache[Place(d)].endpoint ELSE NoEndpoint
Get(d)   == cache' = IF Has(d) /\ cache[Place(d)].old THEN Without(d) ELSE cache

\* What is left when a new entry of d is made: the old entry of d goes, or, if there
\* is none and the cache is full, the first one; but the test `if (firstKey)` takes
\* the empty id for no key, and nothing goes.
Full == Len(cache) >= CacheSize /\ cache # <<>>
RoomFor(d) ==
    IF Has(d) THEN Without(d)
    ELSE IF Full /\ Head(cache).device # EmptyDevice THEN Tail(cache)
    ELSE cache

\* set(d, e): the new entry is the last one.
NewEntry(d, e) == [device |-> d, endpoint |-> e, old |-> FALSE]
SetInPlace(d, e) ==                                     \* mutant: Map.set keeps the place
    cache' = IF Has(d) THEN [cache EXCEPT ![Place(d)] = NewEntry(d, e)]
                       ELSE Append(RoomFor(d), NewEntry(d, e))
Set(d, e) == cache' = Append(RoomFor(d), NewEntry(d, e))

\* remove(d) and clear()
Delete(d) == cache' = Without(d)
Clear     == cache' = <<>>

\* Time passes: the entry set longest ago of those not old yet gets old.
Young == {i \in DOMAIN cache : ~ cache[i].old}
Age ==
    \E i \in Young :
        /\ \A j \in Young : i <= j
        /\ cache' = [cache EXCEPT ![i].old = TRUE]

CacheInit == cache = <<>>

CacheNext ==
    \/ \E d \in Devices : Get(d) \/ Delete(d) \/ \E e \in Endpoints : Set(d, e)
    \/ Age
    \/ Clear

CacheSpec == CacheInit /\ [][CacheNext]_cache

-----------------------------------------------------------------------------
\* A device has one entry, the entries fit unless an id is empty, and they stand in
\* the order in which they were set, so the one evicted is the one set longest ago,
\* whatever calls are made (RedirectCache.ts:46-91).
CacheSound ==
    /\ EmptyDevice \notin Devices => Len(cache) <= CacheSize
    /\ \A i, j \in DOMAIN cache : cache[i].device = cache[j].device => i = j
    /\ \A i, j \in DOMAIN cache : i < j /\ cache[j].old => cache[i].old
=============================================================================
