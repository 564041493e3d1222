---- MODULE RequestLedger ----
(***************************************************************************)
(* What the board promises about a request, whatever its calls interleave: *)
(* an edit applies to the row as it stands and moves the revision on, only *)
(* a public request takes a vote, and the demand shown is the number of    *)
(* distinct voters, across merges too.                                     *)
(***************************************************************************)
EXTENDS RequestRow, Integers, FiniteSets

CONSTANTS
    Voters,   \* voter identities
    Patches,  \* edits that administrators make
    Opening   \* requests there from the start

VARIABLES
    created,  \* requests that exist
    row,      \* their columns
    revision, \* edits and merges so far, for a client to compare
    backers,  \* the voters behind each request
    demand    \* the count a visitor is shown

ledger == <<created, row, revision, backers, demand>>

LedgerInit ==
    /\ created = Opening
    /\ row = [r \in Requests |-> InsertedRow(r \notin Opening)]
    /\ revision = [r \in Requests |-> 0]
    /\ backers = [r \in Requests |-> {}]
    /\ demand = [r \in Requests |-> 0]

Create(r) ==
    /\ r \notin created
    /\ created' = created \cup {r}
    /\ \E moderated \in BOOLEAN :
          row' = [row EXCEPT ![r] = InsertedRow(moderated)]
    /\ UNCHANGED <<revision, backers, demand>>

MovesOn(r) == revision' = [revision EXCEPT ![r] = @ + 1]

Edit(r, patch) ==
    /\ r \in created
    /\ row' = [row EXCEPT ![r] = Patched(@, patch)]
    /\ MovesOn(r)
    /\ UNCHANGED <<created, backers, demand>>

\* A review of a comment: the row stays, clients must look again.
Touch(r) == MovesOn(r) /\ UNCHANGED <<created, row, backers, demand>>

Gains(r, voters) ==
    /\ backers' = [backers EXCEPT ![r] = @ \cup voters]
    /\ demand' = [demand EXCEPT ![r] = Cardinality(backers[r] \cup voters)]

Back(r, v) ==
    /\ r \in created
    /\ Public(row[r])
    /\ Gains(r, {v})
    /\ UNCHANGED <<created, row, revision>>

Merge(s, d) ==
    /\ s # d
    /\ {s, d} \subseteq created
    /\ Gains(s, backers[d])
    /\ row' = [row EXCEPT ![d] = Closed(@, s)]
    /\ revision' = [revision EXCEPT ![s] = @ + 1, ![d] = @ + 1]
    /\ UNCHANGED created

LedgerNext ==
    \/ \E r \in Requests : Create(r) \/ Touch(r)
    \/ \E r \in Requests, patch \in Patches : Edit(r, patch)
    \/ \E r \in Requests, v \in Voters : Back(r, v)
    \/ \E s, d \in Requests : Merge(s, d)

LedgerSpec == LedgerInit /\ [][LedgerNext]_ledger
====
