------------------------------- MODULE Filters -------------------------------
(***************************************************************************)
(* The filter of a search (src/internal/filter.ts): checked and copied     *)
(* when the call begins, and sent with every page, after the query has     *)
(* been embedded, while the caller goes on using its own objects.          *)
(***************************************************************************)
EXTENDS Naturals, Objects

CONSTANTS
  Root,  \* the filter
  MAX_FILTER_DEPTH

VARIABLES
  asked,  \* the caller's objects when the search was called
  kept,   \* the ParsedFilter, once there is one
  pc,     \* "begin", "refused", "searching"
  sent    \* the filter of the last request, if one was sent

vars == <<heap, asked, kept, pc, sent>>

Init ==
  /\ heap \in Heaps /\ asked = heap
  /\ kept = <<>> /\ pc = "begin" /\ sent = <<>>

-----------------------------------------------------------------------------
(* The vocabulary *)

ScalarAccepted(v) == v \in {"string", "boolean", "number"}
FiniteNumberAccepted(v) == v = "number"
BooleanAccepted(v) == v = "boolean"

ScalarArrayAccepted(v) ==
  /\ Kind(heap, v) = "array" /\ heap[v].of # <<>>
  /\ \A e \in ToSet(Values(heap, v)) : ScalarAccepted(e)

OPERAND_RULES ==
  [scalar |-> {"$eq", "$ne"}, number |-> {"$gt", "$gte", "$lt", "$lte"},
   array |-> {"$in", "$nin"}, boolean |-> {"$exists"}]

LOGICAL_OPERATORS == {"$and", "$or"}

OperandAccepted(operator, v) ==
  \/ operator \in OPERAND_RULES.scalar /\ ScalarAccepted(v)
  \/ operator \in OPERAND_RULES.number /\ FiniteNumberAccepted(v)
  \/ operator \in OPERAND_RULES.array /\ ScalarArrayAccepted(v)
  \/ operator \in OPERAND_RULES.boolean /\ BooleanAccepted(v)

OperatorObject(conditions) ==
  /\ conditions # <<>>
  /\ \A i \in DOMAIN conditions : OperandAccepted(conditions[i][1], conditions[i][2])

FieldCondition(v) ==
  IF Kind(heap, v) = "object" THEN OperatorObject(heap[v].of) ELSE ScalarAccepted(v)

(* A field's name: no operator, known or unknown, and sendable.            *)
FieldName(key) ==
  /\ \A rule \in DOMAIN OPERAND_RULES : key \notin OPERAND_RULES[rule]
  /\ key \notin {"$unknown", "lone"}

(* assertConditions and assertLogicalBranch                                *)
RECURSIVE Conditions(_, _)
LogicalBranch(v, depth) ==
  /\ Kind(heap, v) = "array" /\ heap[v].of # <<>>
  /\ \A e \in ToSet(Values(heap, v)) : Conditions(e, depth + 1)

Conditions(v, depth) ==
  /\ depth <= MAX_FILTER_DEPTH
  /\ Kind(heap, v) = "object" /\ Len(heap[v].of) = 1
  /\ LET key == heap[v].of[1][1]
         entry == heap[v].of[1][2]
     IN IF key \in LOGICAL_OPERATORS THEN LogicalBranch(entry, depth)
        ELSE FieldName(key) /\ FieldCondition(entry)

-----------------------------------------------------------------------------
(* The call *)

CopyOf_Shared(v) == v

CopyOf(v) == Tree(heap, v)

ParseFilter ==
  /\ pc = "begin"
  /\ IF Conditions(Root, 0) THEN pc' = "searching" /\ kept' = <<CopyOf(Root)>>
                            ELSE pc' = "refused" /\ UNCHANGED kept
  /\ UNCHANGED <<heap, asked, sent>>

(* The query is embedded, and a page after another asked for.              *)
RequestPage ==
  /\ pc = "searching"
  /\ sent' = IF kept[1] \in Refs THEN <<Tree(heap, kept[1])>> ELSE kept
  /\ UNCHANGED <<heap, asked, kept, pc>>

(* Bound: the caller changes one of its objects, once.                     *)
Changes ==
  /\ pc = "searching" /\ heap = asked /\ CallerChanges
  /\ UNCHANGED <<asked, kept, pc, sent>>

Next == ParseFilter \/ RequestPage \/ Changes

Spec == Init /\ [][Next]_vars

-----------------------------------------------------------------------------
(* Properties *)

(* What S3 Vectors takes, level by level: the conditions of a level are    *)
(* those the logical operators of the level above combine.                 *)
Elements(v) == IF Kind(asked, v) = "array" THEN ToSet(Values(asked, v)) ELSE {}
Combined(v) ==
  IF Kind(asked, v) = "object"
    THEN UNION {Elements(e[2]) : e \in {p \in ToSet(asked[v].of) : p[1] \in LOGICAL_OPERATORS}}
    ELSE {}
Level[n \in Nat] ==
  IF n = 0 THEN {Root} ELSE UNION {Combined(v) : v \in Level[n - 1]}

Operands ==
  [string |-> {"$eq", "$ne"}, number |-> {"$eq", "$ne", "$gt", "$gte", "$lt", "$lte"},
   boolean |-> {"$eq", "$ne", "$exists"}]

Takes(operator, v) ==
  \/ v \in DOMAIN Operands /\ operator \in Operands[v]
  \/ operator \in {"$in", "$nin"} /\ Elements(v) # {} /\ Elements(v) \subseteq DOMAIN Operands

Taken(v) ==
  /\ Kind(asked, v) = "object"
  /\ \E key, entry \in {asked[v].of[i][j] : i \in DOMAIN asked[v].of, j \in 1..2} :
       /\ asked[v].of = <<<<key, entry>>>>
       /\ \/ key \in LOGICAL_OPERATORS /\ Elements(entry) # {}
          \/ /\ key = "field"
             /\ \/ entry \in DOMAIN Operands
                \/ /\ Kind(asked, entry) = "object" /\ asked[entry].of # <<>>
                   /\ \A p \in ToSet(asked[entry].of) : Takes(p[1], p[2])

WellFormed ==
  /\ Level[MAX_FILTER_DEPTH + 1] = {}
  /\ \A n \in 0..MAX_FILTER_DEPTH : \A v \in Level[n] : Taken(v)

(* A filter is refused only if the service would not take it; and every    *)
(* page is asked for with the filter that was checked, whatever the caller *)
(* has done to its objects since.                                          *)
FilterAgrees ==
  /\ pc = "refused" => ~WellFormed
  /\ sent # <<>> => WellFormed /\ sent = <<Tree(asked, Root)>>

=============================================================================
