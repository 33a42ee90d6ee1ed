------------------------------- MODULE HashMap -------------------------------
(***************************************************************************)
(* The hash map every object keeps its members in (hash_map_ in mario.c):  *)
(* chained buckets, doubled when they are more than three quarters full,   *)
(* the buckets of the first size drawn from, and given back to, a pool of  *)
(* the machine.                                                            *)
(*                                                                         *)
(* A map is [cap, size, buckets, owned]: buckets[h] is the chain of the    *)
(* entries <<key, value>> whose hash falls on h, and cap = 0 stands for a  *)
(* map that has no buckets yet, or none any more.                          *)
(***************************************************************************)
EXTENDS Integers, Sequences, SequencesExt

CONSTANTS
    Hash,              \* Hash[key]: hash_string(key)
    InitialCapacity,   \* HASH_MAP_INITIAL_CAPACITY
    PoolMax,           \* BUCKETS_POOL_MAX
    NoValue            \* what a lookup answers for a key that is not there

NoBuckets == [cap |-> 0, size |-> 0, buckets |-> <<>>, owned |-> TRUE]

EmptyBuckets(cap) == [h \in 0 .. cap - 1 |-> <<>>]
HashMapInit == [cap |-> InitialCapacity, size |-> 0,
                buckets |-> EmptyBuckets(InitialCapacity), owned |-> FALSE]

\* The first insertion brings the buckets, from the pool if it has any.
EnsureBuckets(map) ==
    IF map.cap # 0 THEN map ELSE [HashMapInit EXCEPT !.owned = map.owned]
TakesFromPool(map, pool) == map.cap = 0 /\ map.owned /\ pool > 0

\* Buckets of the first size go back to the pool of the map's owner.
Released(map, pool) ==
    IF map.owned /\ map.cap = InitialCapacity /\ pool < PoolMax THEN pool + 1 ELSE pool

Full(map) == map.size * 4 > map.cap * 3

\* All entries in the order of a walk over the buckets.
Entries(map) == FlattenSeq([h \in 1 .. map.cap |-> map.buckets[h - 1]])

\* Mutant: growing doubles the buckets and leaves the chains where they are.
Grown_Unhashed(map) ==
    [map EXCEPT !.cap = map.cap * 2,
                !.buckets = [h \in 0 .. map.cap * 2 - 1 |-> IF h < map.cap THEN map.buckets[h] ELSE <<>>]]

\* Every entry is put at the head of the chain it hashes to now.
Grown(map) ==
    LET cap == map.cap * 2
        Rehash(buckets, entry) ==
            [buckets EXCEPT ![Hash[entry[1]] % cap] = <<entry>> \o @]
    IN  [map EXCEPT !.cap = cap, !.buckets = FoldLeft(Rehash, EmptyBuckets(cap), Entries(map))]

Chain(map, key) == map.buckets[Hash[key] % map.cap]
Places(chain, key) == {i \in 1 .. Len(chain) : chain[i][1] = key}
First(S) == CHOOSE i \in S : \A j \in S : i <= j

Prepared(map) == LET m == EnsureBuckets(map) IN IF Full(m) THEN Grown(m) ELSE m

Prepended(m, key, value) ==
    [m EXCEPT !.buckets[Hash[key] % m.cap] = <<<<key, value>>>> \o @, !.size = @ + 1]

\* Grows first, even when the key is there and only its value changes.
HashMapAdd(map, key, value) ==
    LET m == Prepared(map)
        at == Places(Chain(m, key), key)
    IN  IF at = {} THEN Prepended(m, key, value)
        ELSE [m EXCEPT !.buckets[Hash[key] % m.cap][First(at)] = <<key, value>>]

\* The caller vouches that the key is new.
HashMapAddFresh(map, key, value) == Prepended(Prepared(map), key, value)

PoolAfterAdd(map, pool) ==
    LET drawn == IF TakesFromPool(map, pool) THEN pool - 1 ELSE pool
        m == EnsureBuckets(map)
    IN  IF Full(m) THEN Released(m, drawn) ELSE drawn

HashMapGet(map, key) ==
    IF map.cap = 0 \/ Places(Chain(map, key), key) = {} THEN NoValue
    ELSE Chain(map, key)[First(Places(Chain(map, key), key))][2]

HashMapRemove(map, key) ==
    IF map.cap = 0 \/ Places(Chain(map, key), key) = {} THEN map
    ELSE [map EXCEPT !.buckets[Hash[key] % map.cap] = RemoveAt(@, First(Places(@, key))),
                     !.size = @ - 1]

HashMapClean(map) == [NoBuckets EXCEPT !.owned = map.owned]

HashMapIterate(map) == Entries(map)
==============================================================================
