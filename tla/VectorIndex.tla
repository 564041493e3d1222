----------------------------- MODULE VectorIndex -----------------------------
(***************************************************************************)
(* The in-memory vectors of sealed embeddings (crates/core/crypto/src/     *)
(* vector_index.rs): several indexes share one memory budget, and evict    *)
(* each other's partitions.  Every call holds the budget's lock; building  *)
(* a partition from the sealed store, before hydrating it, does not.       *)
(* The callers, and the stores they read, are not under src/.              *)
(***************************************************************************)
EXTENDS Naturals, SequencesExt

CONSTANTS
    Keys,         \* the partitions, each <<its index, its name>>
    Ids,          \* the vectors a partition may have
    Sizes,        \* their sizes in bytes
    Damaged,      \* <<partition, vector>> whose rows, as they are at first, do not open
    Limit,        \* RYU_VECTOR_CACHE_MB
    MaxTotal,     \* bound: the count drifts up with each vector deleted while evicted
    MaxBuilding   \* bound: partitions built at once

ASSUME VecAssumption ==
    IsFiniteSet(Keys) /\ IsFiniteSet(Ids) /\ Sizes \subseteq Nat \ {0} /\ Limit \in Nat

VARIABLES
    store,    \* external: the vectors each partition has, and their sizes, 0 if damaged
    parts,    \* the hydrated partitions: vectors in order, and their bytes
    older,    \* <<a, b>>: of two hydrated partitions, a was used before b
    totals,   \* how many vectors a partition is known to have, 0 if it has no entry
    evicted,  \* partitions dropped or refused, not hydrated since
    used,     \* bytes held by every index
    building, \* partitions read from the store, not yet hydrated
    uncounted \* history: partitions with a vector no call has counted, nor read since

vecVars == <<store, parts, older, totals, evicted, used, building, uncounted>>

Indexes == {key[1] : key \in Keys}
KeysOf(index) == {key \in Keys : key[1] = index}
Empty == [vectors |-> <<>>, bytes |-> 0]

IdsOf(p) == {p.vectors[i].id : i \in DOMAIN p.vectors}
PlaceOf(p, id) == CHOOSE i \in DOMAIN p.vectors : p.vectors[i].id = id

\* Partition::upsert.
\* Mutant: a replaced vector is counted as a new one.
AddedInFull(p, id, size) == p.bytes + size
Added(p, id, size) ==
    IF id \in IdsOf(p) THEN p.bytes + size - p.vectors[PlaceOf(p, id)].size ELSE p.bytes + size
Upserted(p, id, size) ==
    [vectors |-> IF id \in IdsOf(p)
                 THEN [p.vectors EXCEPT ![PlaceOf(p, id)].size = size]
                 ELSE Append(p.vectors, [id |-> id, size |-> size]),
     bytes |-> Added(p, id, size)]

\* Partition::remove: swap_remove puts the last vector in the hole.
Removed(p, id) ==
    IF id \notin IdsOf(p) THEN p
    ELSE [vectors |-> Front([p.vectors EXCEPT ![PlaceOf(p, id)] = Last(p.vectors)]),
          bytes |-> p.bytes - p.vectors[PlaceOf(p, id)].size]

---------------------------------------------------------------------------
Hydrated == DOMAIN parts
Among(keys) == {pair \in older : pair[1] \in keys /\ pair[2] \in keys}
\* Mutant: the tick stands still, and whoever is used gets no place of its own in the order.
TouchedWithoutTick(keys, key) == Among(keys)
Touched(keys, key) == Among(keys \ {key}) \cup ((keys \ {key}) \X {key})
Without(key) == [k \in Hydrated \ {key} |-> parts[k]]

\* make_room: the shortest run of other partitions, oldest first, whose going makes the
\* rest fit; every other partition if none does.
BytesOf(ps, keys) == SumFunction([k \in keys |-> ps[k].bytes])
Others(ps, keep) == DOMAIN ps \ {keep}
UpTo(ps, keep, last) == {k \in Others(ps, keep) : k = last \/ <<k, last>> \in older}
Victims(ps, held, keep) ==
    LET runs == {UpTo(ps, keep, last) : last \in Others(ps, keep)} \cup {{}, Others(ps, keep)}
        enough == {run \in runs : held - BytesOf(ps, run) <= Limit}
    IN IF enough = {} THEN Others(ps, keep)
       ELSE CHOOSE run \in enough : \A more \in enough : Cardinality(run) <= Cardinality(more)

\* `ps` is held, `key` its newest, and the victims go.
Trimmed(ps, held, key, flags) ==
    LET gone == Victims(ps, held, key)
        kept == DOMAIN ps \ gone
    IN /\ parts' = [k \in kept |-> ps[k]]
       /\ used' = held - BytesOf(ps, gone)
       /\ evicted' = flags \cup gone
       /\ older' = Touched(kept, key)

---------------------------------------------------------------------------
\* upsert, after the caller saved the vector: a no-op on a partition not hydrated, and no
\* count of a vector the partition holds though it was deleted.
CountsNew(key, id) == key \in Hydrated /\ id \notin IdsOf(parts[key])
Upsert(key, id, size) ==
    /\ CountsNew(key, id) => totals[key] < MaxTotal
    /\ store' = [store EXCEPT ![key] = [i \in DOMAIN @ \cup {id} |-> IF i = id THEN size ELSE @[i]]]
    /\ IF key \in Hydrated
       THEN LET ps == [parts EXCEPT ![key] = Upserted(@, id, size)]
            IN Trimmed(ps, used + ps[key].bytes - parts[key].bytes, key, evicted)
       ELSE UNCHANGED <<parts, older, evicted, used>>
    /\ totals' = IF CountsNew(key, id) THEN [totals EXCEPT ![key] = @ + 1] ELSE totals
    /\ uncounted' = IF id \in DOMAIN store[key] \/ CountsNew(key, id) THEN uncounted
                    ELSE uncounted \cup {key}
    /\ UNCHANGED building

\* remove, after the caller deleted the vector.
RemoveVector(key, id) ==
    /\ id \in DOMAIN store[key]
    /\ store' = [store EXCEPT ![key] = [i \in DOMAIN @ \ {id} |-> @[i]]]
    /\ IF key \in Hydrated /\ id \in IdsOf(parts[key])
       THEN /\ parts' = [parts EXCEPT ![key] = Removed(@, id)]
            /\ used' = used - (parts[key].bytes - parts'[key].bytes)
            /\ totals' = [totals EXCEPT ![key] = IF @ = 0 THEN 0 ELSE @ - 1]
       ELSE UNCHANGED <<parts, used, totals>>
    /\ UNCHANGED <<older, evicted, building, uncounted>>

\* drop_partition: a deleted Space.
DropPartition(key) ==
    /\ DOMAIN store[key] # {}
    /\ store' = [store EXCEPT ![key] = [i \in {} |-> 0]]
    /\ parts' = Without(key)
    /\ used' = IF key \in Hydrated THEN used - parts[key].bytes ELSE used
    /\ older' = Among(Hydrated \ {key})
    /\ totals' = [totals EXCEPT ![key] = 0]
    /\ evicted' = evicted \ {key}
    /\ uncounted' = uncounted \ {key}
    /\ UNCHANGED building

SetPartitionTotal(key) ==
    /\ totals' = [totals EXCEPT ![key] = Cardinality(DOMAIN store[key])]
    /\ uncounted' = uncounted \ {key}
    /\ UNCHANGED <<store, parts, older, evicted, used, building>>

Search(key) ==
    /\ key \in Hydrated
    /\ older' = Touched(Hydrated, key)
    /\ UNCHANGED <<store, parts, totals, evicted, used, building, uncounted>>

\* The caller reads the rows that open.
Build(key) ==
    /\ key \notin DOMAIN building /\ Cardinality(DOMAIN building) < MaxBuilding
    /\ LET ids == SetToSeq({id \in DOMAIN store[key] : store[key][id] > 0})
           built == FoldLeft(LAMBDA p, id : Upserted(p, id, store[key][id]), Empty, ids)
       IN building' = [k \in DOMAIN building \cup {key} |-> IF k = key THEN built ELSE building[k]]
    /\ UNCHANGED <<store, parts, older, totals, evicted, used, uncounted>>

\* Mutant: the partition has as many vectors as opened.
KnownIsOpened(total, count) == count
Known(total, count) == IF total > count THEN total ELSE count

\* hydrate_partition: the old copy goes first, whether or not the new one fits.
Hydrate(key) ==
    /\ key \in DOMAIN building
    /\ LET built == building[key]
           held == IF key \in Hydrated THEN used - parts[key].bytes ELSE used
       IN IF built.bytes > Limit
          THEN /\ parts' = Without(key)
               /\ used' = held
               /\ older' = Among(Hydrated \ {key})
               /\ evicted' = evicted \cup {key}
          ELSE Trimmed([k \in Hydrated \cup {key} |-> IF k = key THEN built ELSE parts[k]],
                        held + built.bytes, key, evicted \ {key})
    /\ totals' = [totals EXCEPT ![key] = Known(@, Len(building[key].vectors))]
    /\ uncounted' = IF DOMAIN store[key] \subseteq IdsOf(building[key])
                    THEN uncounted \ {key} ELSE uncounted
    /\ building' = [k \in DOMAIN building \ {key} |-> building[k]]
    /\ UNCHANGED store

---------------------------------------------------------------------------
VecInit ==
    /\ store = [key \in Keys |-> [id \in {i \in Ids : <<key, i>> \in Damaged} |-> 0]]
    /\ parts = [k \in {} |-> Empty]
    /\ older = {}
    /\ totals = [key \in Keys |-> 0]
    /\ evicted = {} /\ used = 0
    /\ building = [k \in {} |-> Empty]
    /\ uncounted = {key \in Keys : DOMAIN store[key] # {}}

VecNext ==
    \E key \in Keys :
        \/ \E id \in Ids, size \in Sizes : Upsert(key, id, size)
        \/ \E id \in Ids : RemoveVector(key, id)
        \/ DropPartition(key) \/ SetPartitionTotal(key) \/ Search(key)
        \/ Build(key) \/ Hydrate(key)

VecSpec == VecInit /\ [][VecNext]_vecVars

---------------------------------------------------------------------------
\* coverage.
HeldOf(index) == {key \in Hydrated : key[1] = index}
CoverageHydrated(index) == SumFunction([key \in HeldOf(index) |-> Len(parts[key].vectors)])
CoverageTotal(index) ==
    LET known == SumFunctionOnSet(totals, KeysOf(index))
    IN IF known > CoverageHydrated(index) THEN known ELSE CoverageHydrated(index)

\* Every state the variables may be in.
VecTypeOK ==
    /\ Hydrated \subseteq Keys /\ older \subseteq Hydrated \X Hydrated
    /\ \A a, b \in Hydrated : <<a, b>> \in older <=> a # b /\ <<b, a>> \notin older
    /\ evicted \subseteq Keys \ Hydrated
    /\ used \in Nat
    /\ \A key \in Keys : totals[key] \in 0..MaxTotal

\* The budget counts what is held, no more and no less, partition by partition and vector
\* by vector, and holds within the limit unless a single partition grew past it on its own.
WithinBudget ==
    /\ used = BytesOf(parts, Hydrated)
    /\ \A key \in Hydrated :
           LET vectors == parts[key].vectors
           IN parts[key].bytes = SumFunction([i \in DOMAIN vectors |-> vectors[i].size])
    /\ used <= Limit \/ Cardinality(Hydrated) = 1

Misses(key) == \E id \in DOMAIN store[key] : key \in Hydrated => id \notin IdsOf(parts[key])
Visible(index) == CoverageHydrated(index) < CoverageTotal(index)

\* The partition holds a vector that was deleted after the partition had been read.
HoldsDeleted(key) == key \in Hydrated /\ ~(IdsOf(parts[key]) \subseteq DOMAIN store[key])

\* An index that misses a stored vector says so in its coverage, unless one of its
\* partitions has a vector nobody counted (it was stored while the partition was not in
\* memory, and neither a count nor a hydration that read every vector followed), or holds
\* one deleted between the reading of the partition and its hydration.
MissesCounted ==
    \A index \in Indexes :
        /\ \A key \in KeysOf(index) : key \notin uncounted /\ ~HoldsDeleted(key)
        /\ \E key \in KeysOf(index) : Misses(key)
        => Visible(index)

\* vector_index.rs: "[`VectorIndex::coverage`] reports `{hydrated, total,
\* evicted_partitions}` so degraded semantic recall is visible in the recall API and
\* health, never silent."
NeverSilent ==
    \A key \in Hydrated :
        Misses(key) => Visible(key[1]) \/ \E other \in evicted : other[1] = key[1]
===============================================================================
