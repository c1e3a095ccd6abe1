------------------------------- MODULE Flatten -------------------------------
(***************************************************************************)
(* flattenMetadata (src/shared/flatten-metadata.ts): nested metadata as    *)
(* dotted keys, over any graph of objects a caller may hold.  A key is the *)
(* sequence of its parts between dots; the empty string is one empty part. *)
(***************************************************************************)
EXTENDS Naturals, Objects

CONSTANTS Root, MAX_DEPTH, MAX_NODES

VARIABLES
  asked,  \* the caller's objects when it called
  kept,   \* the flattened metadata, and the code of the error if it failed
  pc      \* "begin", "over"

vars == <<heap, asked, kept, pc>>

Init == heap \in Heaps /\ asked = heap /\ kept = <<>> /\ pc = "begin"

EmptyString == <<"">>
Join(prefix, key) == IF prefix = EmptyString THEN key ELSE prefix \o key

(* What is written under a flat key: a copy of an array, or the value.     *)
Passed(h, v) == <<Kind(h, v), IF v \in Refs THEN h[v].of ELSE <<>>>>

Skipped(h, v) == v = "null" \/ (Kind(h, v) = "array" /\ h[v].of = <<>>)

Fails(walked, code) == [walked EXCEPT !.failed = code]

(* Backtracking out of an object: it may be met again elsewhere.           *)
Leave_Never(walked, o) == walked

Leave(walked, o) == [walked EXCEPT !.ancestors = @ \ {o}]

RECURSIVE Walk(_, _, _, _)
Visit(walked, entry, prefix, depth) ==
  LET path == Join(prefix, entry[1])
      value == entry[2]
  IN IF walked.failed # "no" \/ Skipped(heap, value) THEN walked
     ELSE IF Kind(heap, value) \in {"object", "throwing"}
            THEN IF value \in walked.ancestors THEN Fails(walked, "VALIDATION")
                 ELSE Walk(walked, value, path, depth + 1)
     ELSE IF path \in DOMAIN walked.flat THEN Fails(walked, "VALIDATION")
     ELSE [walked EXCEPT !.flat = @ @@ (path :> Passed(heap, value))]

Walk(walked, o, prefix, depth) ==
  IF depth > MAX_DEPTH \/ walked.nodes = MAX_NODES THEN Fails(walked, "VALIDATION")
  ELSE IF heap[o].t = "throwing" THEN Fails(walked, "UNEXPECTED_ERROR")
  ELSE Leave(FoldLeft(LAMBDA w, entry : Visit(w, entry, prefix, depth),
                      [walked EXCEPT !.nodes = @ + 1, !.ancestors = @ \cup {o}],
                      heap[o].of),
             o)

FlattenMetadata ==
  /\ pc = "begin" /\ pc' = "over"
  /\ LET walked == Walk([flat |-> <<>>, ancestors |-> {}, nodes |-> 0, failed |-> "no"],
                        Root, EmptyString, 0)
         refused == [failed |-> "VALIDATION", flat |-> <<>>]
     IN kept' = IF heap[Root].t = "array" THEN refused
                ELSE [failed |-> walked.failed, flat |-> walked.flat]
  /\ UNCHANGED <<heap, asked>>

(* Bound: the caller changes one of its objects, once.                     *)
Changes ==
  /\ pc = "over" /\ heap = asked /\ CallerChanges
  /\ UNCHANGED <<asked, kept, pc>>

Next == FlattenMetadata \/ Changes

Spec == Init /\ [][Next]_vars

-----------------------------------------------------------------------------
(* Properties *)

(* The ways into the metadata: sequences of entries, each of the object    *)
(* the one before leads to.                                                *)
Holds(v) == IF Kind(asked, v) = "object" THEN ToSet(asked[v].of) ELSE {}
Ways[n \in Nat] ==
  IF n = 0 THEN {<<>>}
  ELSE UNION {{Append(way, entry) : entry \in Holds(IF way = <<>> THEN Root ELSE Last(way)[2])} :
                way \in Ways[n - 1]}
End(way) == IF way = <<>> THEN Root ELSE Last(way)[2]
AllWays == UNION {Ways[n] : n \in 0..(MAX_DEPTH + 1)}

Entered == {way \in AllWays : Kind(asked, End(way)) \in {"object", "throwing"}}
Leaves == {way \in AllWays \ Entered : ~Skipped(asked, End(way))}
PathOf(way) == FoldLeft(LAMBDA prefix, entry : Join(prefix, entry[1]), EmptyString, way)

(* Every value is kept under its own path, and nothing else is; what has   *)
(* two values for a path, or contains itself, is nested too deep or        *)
(* expands too far, is refused, and nothing but that is; and what is       *)
(* returned stays as it is when the caller goes on using its objects.      *)
Storable ==
  /\ Kind(asked, Root) = "object"
  /\ \A way \in Entered : Len(way) <= MAX_DEPTH
  /\ Cardinality(Entered) <= MAX_NODES
  /\ \A one, other \in Leaves : PathOf(one) = PathOf(other) => one = other

Readable == \A way \in Entered : Kind(asked, End(way)) = "object"

FlattenAgrees ==
  pc = "over" =>
    /\ kept.failed = "VALIDATION" => ~Storable
    /\ kept.failed = "UNEXPECTED_ERROR" => ~Readable
    /\ kept.failed = "no" =>
         /\ Storable /\ Readable
         /\ kept.flat = [path \in {PathOf(way) : way \in Leaves} |->
                           Passed(asked, End(CHOOSE way \in Leaves : PathOf(way) = path))]

=============================================================================
