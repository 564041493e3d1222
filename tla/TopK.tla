-------------------------------- MODULE TopK --------------------------------
(***************************************************************************)
(* The two ways to find the best k vectors (crates/core/crypto/src/        *)
(* vector_index.rs): top_k ranks a partition in memory, the TopK collector *)
(* is offered the scores one by one, as rows of the sealed store open.     *)
(* Scores are ordered by total_cmp, here as numbers.                       *)
(***************************************************************************)
EXTENDS Naturals, FiniteSets, FiniteSetsExt

CONSTANTS
    Scores,      \* the scores a vector may have
    MaxK,        \* bound: vectors asked for
    MaxOffered   \* bound: vectors scored

ASSUME TopAssumption == Scores \subseteq Nat /\ MaxK \in Nat

VARIABLES
    wanted,   \* vectors asked for: k
    offered,  \* every vector scored so far: <<its number, its score>>
    heap      \* those the collector keeps

topVars == <<wanted, offered, heap>>

Lowest(set) == {v \in set : \A w \in set : v[2] <= w[2]}

\* Mutant: a collector with room for one more takes only better scores.
AcceptsBetter(score) == wanted > 0 /\ (heap = {} \/ \E v \in Lowest(heap) : score > v[2])

\* TopK::accepts.
AcceptsScore(score) ==
    /\ wanted > 0
    /\ Cardinality(heap) < wanted \/ \E v \in Lowest(heap) : score > v[2]

\* TopK::push: a full heap gives up one of its lowest.
Push(v) ==
    IF Cardinality(heap) = wanted
    THEN \E out \in Lowest(heap) : heap' = (heap \ {out}) \cup {v}
    ELSE heap' = heap \cup {v}

Offer ==
    /\ Cardinality(offered) < MaxOffered
    /\ \E score \in Scores :
           LET v == <<Cardinality(offered) + 1, score>>
           IN /\ offered' = offered \cup {v}
              /\ IF AcceptsScore(score) THEN Push(v) ELSE UNCHANGED heap
    /\ UNCHANGED wanted

\* top_k: the choices select_nth_unstable_by leaves open are those between equal scores.
Best(set, n) ==
    {best \in kSubset(IF n < Cardinality(set) THEN n ELSE Cardinality(set), set) :
        \A v \in best, w \in set \ best : v[2] >= w[2]}

TopInit == wanted \in 0..MaxK /\ offered = {} /\ heap = {}
TopNext == Offer
TopSpec == TopInit /\ [][TopNext]_topVars

\* However many vectors were offered, and in whatever order, the collector holds what
\* top_k would return for them.
KeepsTheBest == heap \in Best(offered, wanted)
=============================================================================
