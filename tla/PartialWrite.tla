---------------------------- MODULE PartialWrite ----------------------------
(***************************************************************************)
(* What a batched write or delete owes its caller, whichever path it takes *)
(* (runBatches, embedAndWrite): it starts nothing once something failed,   *)
(* it returns only when nothing it started is still under way, and the     *)
(* error it throws is the first failure, with every confirmed request in   *)
(* the caller's order.                                                     *)
(***************************************************************************)
EXTENDS Naturals, Sequences

VARIABLES
  total,      \* the requests the whole input becomes: 1..total
  underWay,   \* those started and not yet answered
  confirmed,  \* those whose success was answered
  cause,      \* the failure to report: empty, or the set of one
  outcome,
  report      \* the confirmed requests, as the error lists them

write == <<total, underWay, confirmed, cause, outcome, report>>

Init ==
  /\ total \in Nat
  /\ underWay = {} /\ confirmed = {} /\ cause = {}
  /\ outcome = "running" /\ report = <<>>

Start ==
  /\ outcome = "running" /\ cause = {}
  /\ \E r \in 1..total \ (underWay \cup confirmed) : underWay' = underWay \cup {r}
  /\ UNCHANGED <<total, confirmed, cause, outcome, report>>

Confirm ==
  /\ \E r \in underWay : underWay' = underWay \ {r} /\ confirmed' = confirmed \cup {r}
  /\ UNCHANGED <<total, cause, outcome, report>>

(* A request's failure, or another one: 0 is the embedding model's, and    *)
(* the signal's between two requests.  The first one is kept.              *)
Fail ==
  /\ outcome = "running"
  /\ \E r \in underWay \cup {0} :
       /\ underWay' = underWay \ {r}
       /\ cause' = IF cause = {} THEN {r} ELSE cause
  /\ UNCHANGED <<total, confirmed, outcome, report>>

Ascending(s) == \A i, j \in DOMAIN s : i < j => s[i] < s[j]

Return ==
  /\ outcome = "running" /\ underWay = {}
  /\ \/ cause = {} /\ confirmed = 1..total /\ outcome' = "resolved" /\ UNCHANGED report
     \/ /\ cause # {} /\ outcome' = "thrown"
        /\ Ascending(report') /\ {report'[i] : i \in DOMAIN report'} = confirmed
  /\ UNCHANGED <<total, underWay, confirmed, cause>>

(* A call that fails before its first request has nothing to report.       *)
Refuse ==
  /\ outcome = "running" /\ underWay = {} /\ confirmed = {} /\ cause = {}
  /\ cause' = {0} /\ outcome' = "thrown"
  /\ UNCHANGED <<total, underWay, confirmed, report>>

Next == Start \/ Confirm \/ Fail \/ Return \/ Refuse

Spec == Init /\ [][Next]_write

=============================================================================
