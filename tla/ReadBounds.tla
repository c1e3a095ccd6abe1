----------------------------- MODULE ReadBounds -----------------------------
(* The ids and the bounds of a read by id (Reads).                          *)
EXTENDS Naturals

CONSTANTS
  Ids,           \* ids of vectors
  MaxBatchSize,  \* bound: ids per request, and the default
  MaxPicked,     \* bound: documents an MMR search is asked for
  MaxChanges     \* bound: vectors written or deleted by others meanwhile

ASSUME ReadsByIdAssumption ==
  MaxBatchSize \in Nat \ {0} /\ MaxPicked \in Nat \ {0} /\ MaxChanges \in Nat

=============================================================================
