----------------------------- MODULE MCVectorIndex -----------------------------
(***************************************************************************)
(* VectorIndex on two indexes of one partition each.                       *)
(***************************************************************************)
EXTENDS VectorIndex

PartitionKeys == {<<1, 3>>, <<2, 3>>}
DamagedRows == {<<<<1, 3>>, 6>>}
NoneDamaged == {}
================================================================================
