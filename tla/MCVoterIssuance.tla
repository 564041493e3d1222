---- MODULE MCVoterIssuance ----
(***************************************************************************)
(* VoterIssuance on small instances: windows of a few clock units, limits  *)
(* small enough to be spent several times over.                            *)
(***************************************************************************)
EXTENDS VoterIssuance, TLC

IdSymmetry == Permutations(RowIds) \cup Permutations(Handlers)
                  \cup Permutations(Subjects)
====
