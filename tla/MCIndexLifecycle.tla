-------------------------- MODULE MCIndexLifecycle --------------------------
(* IndexLifecycle on a few calls.                                           *)
EXTENDS IndexLifecycle, TLC

(* Calls of a kind that carry no signal are interchangeable.                *)
UnsignalledSymmetry ==
  Permutations(Writes \ Signalled) \cup Permutations(Deletes \ Signalled)

=============================================================================
