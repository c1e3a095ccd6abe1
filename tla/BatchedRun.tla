----------------------------- MODULE BatchedRun -----------------------------
(***************************************************************************)
(* runBatches (src/internal/concurrency.ts), which addVectors and delete   *)
(* run their batches through: the first batch of a write alone, then all   *)
(* the others in the window.  One batch is one request.                    *)
(***************************************************************************)
EXTENDS Window

VARIABLES
  serializeFirst,  \* serializeFirstBatch: a write, not a delete
  pc,              \* where the call is
  next,            \* the next batch to launch
  report           \* the ids of the error thrown, as their batches

callVars == <<serializeFirst, pc, next, report>>
vars == <<total, status, windowVars, failure, fired, callVars>>

Ended == {"resolved", "thrown"}

TypeOK ==
  /\ WindowTypeOK
  /\ serializeFirst \in BOOLEAN
  /\ pc \in {"begin", "first", "feeding", "settling"} \cup Ended
  /\ next \in 1..(MaxTotal + 1) /\ report \in Seq(Requests)

Init ==
  /\ WindowInit
  /\ total \in 0..MaxTotal /\ serializeFirst \in BOOLEAN
  /\ pc = "begin" /\ next = 1 /\ report = <<>>

Begin ==
  /\ pc = "begin"
  /\ IF serializeFirst /\ total > 0
       THEN pc' = "first" /\ Becomes(1, "launched") /\ next' = 2
       ELSE pc' = "feeding" /\ UNCHANGED <<status, next>>
  /\ UNCHANGED <<total, windowVars, failure, fired, serializeFirst, report>>

FirstSettles ==
  /\ pc = "first"
  /\ \/ status[1] = "ok" /\ pc' = "feeding"
     \/ status[1] = "failed" /\ pc' = "thrown"
  /\ UNCHANGED <<total, status, windowVars, failure, fired, serializeFirst, next, report>>

(* One turn of the loop over the rest.                                     *)
Feed ==
  /\ pc = "feeding" /\ ~waiting
  /\ IF next <= total /\ failure = {}
       THEN Launch(next) /\ next' = next + 1 /\ UNCHANGED pc
       ELSE pc' = "settling" /\ UNCHANGED <<status, windowVars, next>>
  /\ UNCHANGED <<total, failure, fired, serializeFirst, report>>

Committed == (IF serializeFirst /\ total > 0 THEN <<1>> ELSE <<>>) \o Results

Settle ==
  /\ pc = "settling" /\ AllFinished
  /\ IF failure = {}
       THEN pc' = "resolved" /\ UNCHANGED report
       ELSE pc' = "thrown" /\ report' = Committed
  /\ UNCHANGED <<total, status, windowVars, failure, fired, serializeFirst, next>>

CallStep == Begin \/ FirstSettles \/ Feed \/ Settle

Answer(r) == Request(r) \/ (r = 1 /\ serializeFirst /\ EnsureFails(r)) \/ Finish(r)

Next ==
  \/ CallStep
  \/ \E r \in Requests : Answer(r) /\ UNCHANGED <<total, callVars>>
  \/ pc \notin Ended /\ Fire /\ UNCHANGED <<total, callVars>>

Spec == Init /\ [][Next]_vars

(* The event loop runs what is ready; a request is let through by the rate *)
(* limiter and answered.                                                   *)
FairSpec ==
  /\ Spec /\ WF_vars(CallStep)
  /\ \A r \in Requests : WF_vars(Answer(r) /\ UNCHANGED <<total, callVars>>)

-----------------------------------------------------------------------------
(* Properties *)

(* The request that may create the index is over, and went well, before    *)
(* any other batch of a write is launched.                                 *)
FirstAlone ==
  serializeFirst => \A r \in Requests \ {1} : status[r] # "new" => status[1] = "ok"

(* The call ends, whatever fails and in whatever order: a caller waiting   *)
(* for a slot is always woken.                                             *)
Ends == pc = "begin" ~> pc \in Ended

(* The call is a partial write: nothing starts after a failure, nothing is *)
(* under way when it returns, the first failure and every confirmed batch  *)
(* are reported, in the caller's order.                                    *)
Promise == INSTANCE PartialWrite
             WITH underWay <- UnderWay, confirmed <- Confirmed, cause <- failure,
                  outcome <- IF pc \in Ended THEN pc ELSE "running"

IsPartialWrite == Promise!Spec

=============================================================================
