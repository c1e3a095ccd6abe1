------------------------------- MODULE Objects -------------------------------
(***************************************************************************)
(* JavaScript values as a caller holds them: plain objects and arrays by   *)
(* reference, so that they may be shared, contain themselves, and change   *)
(* while a call that was given them awaits something; everything else is   *)
(* its kind, one of "string", "number", "boolean", "null", "nan", "date"   *)
(* and "lone" (a string with half a surrogate pair).                       *)
(***************************************************************************)
EXTENDS SequencesExt

CONSTANTS
  Refs,    \* references to plain objects and arrays
  NoKey,   \* the key of an array's element
  Heaps,   \* what they may hold when a call is made
  Shapes   \* what the caller may then make one of them hold

VARIABLE heap

(* What one holds, in order: pairs of a key and a value.                   *)
Object(entries) == [t |-> "object", of |-> entries]
Array(elements) == [t |-> "array", of |-> [i \in DOMAIN elements |-> <<NoKey, elements[i]>>]]

Kind(h, v) == IF v \in Refs THEN h[v].t ELSE v
Values(h, v) == [i \in DOMAIN h[v].of |-> h[v].of[i][2]]

(* A value with everything in it, rebuilt: none of it is the caller's.     *)
RECURSIVE Tree(_, _)
Tree(h, v) ==
  [t |-> Kind(h, v),
   of |-> IF v \notin Refs THEN <<>>
          ELSE [i \in DOMAIN h[v].of |-> <<h[v].of[i][1], Tree(h, h[v].of[i][2])>>]]

CallerChanges ==
  \E r \in Refs, shape \in Shapes :
    heap[r].t = shape.t /\ heap' = [heap EXCEPT ![r] = shape]

=============================================================================
