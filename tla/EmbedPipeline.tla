--------------------------- MODULE EmbedPipeline ---------------------------
(***************************************************************************)
(* embedAndWrite (src/internal/embed-pipeline.ts), which addDocuments runs *)
(* its batches through: each batch is embedded, and written while the next *)
(* one is embedded.  An embedded batch that does not fit one request body  *)
(* becomes several requests.                                               *)
(***************************************************************************)
EXTENDS Window

CONSTANTS
  MaxBatches,  \* bound: batches of an input
  MaxRuns      \* bound: requests one batch becomes

ASSUME PipelineAssumption ==
  MaxBatches \in Nat \ {0} /\ MaxRuns \in Nat \ {0} /\ MaxTotal = MaxBatches * MaxRuns

VARIABLES
  last,    \* the last request of each batch
  pc,      \* where the call is
  batch,   \* the batch embedded or written now
  next,    \* the next request to launch
  report   \* writtenIds of the error thrown, as their requests

callVars == <<last, pc, batch, next, report>>
vars == <<total, status, windowVars, failure, fired, callVars>>

Ended == {"resolved", "thrown"}

TypeOK ==
  /\ WindowTypeOK
  /\ last \in Seq(Requests) /\ batch \in 1..MaxBatches
  /\ pc \in {"begin", "embeddingFirst", "first", "feeding", "embedding", "settling"}
              \cup Ended
  /\ next \in 1..(MaxTotal + 1) /\ report \in Seq(Requests)

(* The inputs: up to MaxBatches batches of 1..MaxRuns requests each.       *)
Inputs ==
  {ends \in UNION {[1..n -> Requests] : n \in 1..MaxBatches} :
     \A b \in DOMAIN ends : ends[b] - (IF b = 1 THEN 0 ELSE ends[b - 1]) \in 1..MaxRuns}

Init ==
  /\ WindowInit
  /\ last \in Inputs /\ total = last[Len(last)]
  /\ pc = "begin" /\ batch = 1 /\ next = 1 /\ report = <<>>

(* The check before the try: an abort that has started nothing.            *)
Begin ==
  /\ pc = "begin"
  /\ IF fired
       THEN pc' = "thrown" /\ Record(NotARequest)
       ELSE pc' = "embeddingFirst" /\ UNCHANGED failure
  /\ UNCHANGED <<total, status, windowVars, fired, last, batch, next, report>>

(* The model answers or throws; what it answered is refused when it is not *)
(* one storable vector per document.                                       *)
EmbedFirst ==
  /\ pc = "embeddingFirst"
  /\ \/ pc' = "first" /\ Becomes(1, "launched") /\ next' = 2 /\ UNCHANGED failure
     \/ pc' = "thrown" /\ Record(NotARequest) /\ UNCHANGED <<status, next>>
  /\ UNCHANGED <<total, windowVars, fired, last, batch, report>>

Written(r) == [i \in 1..r |-> i]

(* The requests of the first batch, one after the other.                   *)
FirstSettles_OnlyOne ==
  /\ pc = "first"
  /\ \/ /\ status[next - 1] = "ok"
        /\ pc' = "feeding" /\ UNCHANGED <<status, next, report>>
     \/ /\ status[next - 1] = "failed"
        /\ pc' = "thrown" /\ report' = Written(next - 2) /\ UNCHANGED <<status, next>>
  /\ UNCHANGED <<total, windowVars, failure, fired, last, batch>>

FirstSettles ==
  /\ pc = "first"
  /\ \/ /\ status[next - 1] = "ok" /\ next <= last[1]
        /\ Becomes(next, "launched") /\ next' = next + 1 /\ UNCHANGED <<pc, report>>
     \/ /\ status[next - 1] = "ok" /\ next > last[1]
        /\ pc' = "feeding" /\ UNCHANGED <<status, next, report>>
     \/ /\ status[next - 1] = "failed"
        /\ pc' = "thrown" /\ report' = Written(next - 2) /\ UNCHANGED <<status, next>>
  /\ UNCHANGED <<total, windowVars, failure, fired, last, batch>>

(* The loop, from one await to the next: the rest of this batch's requests, *)
(* then the next batch's embedding, unless something failed or the signal  *)
(* has fired.                                                              *)
Feed ==
  /\ pc = "feeding" /\ ~waiting
  /\ \/ /\ failure = {} /\ next <= last[batch]
        /\ Launch(next) /\ next' = next + 1
        /\ UNCHANGED <<pc, batch, failure>>
     \/ /\ failure = {} /\ next > last[batch] /\ next <= total
        /\ batch' = batch + 1
        /\ IF fired
             THEN pc' = "settling" /\ Record(NotARequest)
             ELSE pc' = "embedding" /\ UNCHANGED failure
        /\ UNCHANGED <<status, windowVars, next>>
     \/ /\ failure # {} \/ next > total
        /\ pc' = "settling"
        /\ UNCHANGED <<status, windowVars, next, batch, failure>>
  /\ UNCHANGED <<total, fired, last, report>>

(* The embedding is back: the signal and the puts made meanwhile are       *)
(* looked at before anything is written.                                   *)
Embed_SignalUnread ==
  /\ pc = "embedding"
  /\ \/ /\ failure = {}
        /\ Launch(next) /\ next' = next + 1 /\ pc' = "feeding" /\ UNCHANGED failure
     \/ pc' = "settling" /\ Record(NotARequest) /\ UNCHANGED <<status, windowVars, next>>
  /\ UNCHANGED <<total, fired, last, batch, report>>

Embed_FailureUnread ==
  /\ pc = "embedding"
  /\ \/ /\ ~fired
        /\ Launch(next) /\ next' = next + 1 /\ pc' = "feeding" /\ UNCHANGED failure
     \/ pc' = "settling" /\ Record(NotARequest) /\ UNCHANGED <<status, windowVars, next>>
  /\ UNCHANGED <<total, fired, last, batch, report>>

Embed ==
  /\ pc = "embedding"
  /\ \/ /\ ~fired /\ failure = {}
        /\ Launch(next) /\ next' = next + 1 /\ pc' = "feeding" /\ UNCHANGED failure
     \/ /\ ~fired /\ failure # {}
        /\ pc' = "settling" /\ UNCHANGED <<status, windowVars, next, failure>>
     \/ pc' = "settling" /\ Record(NotARequest) /\ UNCHANGED <<status, windowVars, next>>
  /\ UNCHANGED <<total, fired, last, batch, report>>

Settle ==
  /\ pc = "settling" /\ AllFinished
  /\ IF failure = {}
       THEN pc' = "resolved" /\ UNCHANGED report
       ELSE pc' = "thrown" /\ report' = Written(last[1]) \o Results
  /\ UNCHANGED <<total, status, windowVars, failure, fired, last, batch, next>>

CallStep == Begin \/ FirstSettles \/ Feed \/ Settle
ModelStep == EmbedFirst \/ Embed

Answer(r) == Request(r) \/ (r = 1 /\ EnsureFails(r)) \/ Finish(r)

Next ==
  \/ CallStep
  \/ ModelStep
  \/ \E r \in Requests : Answer(r) /\ UNCHANGED <<total, callVars>>
  \/ pc \notin Ended /\ Fire /\ UNCHANGED <<total, callVars>>

Spec == Init /\ [][Next]_vars

(* The event loop runs what is ready; the model and the service answer.    *)
FairSpec ==
  /\ Spec /\ WF_vars(CallStep) /\ WF_vars(ModelStep)
  /\ \A r \in Requests : WF_vars(Answer(r) /\ UNCHANGED <<total, callVars>>)

-----------------------------------------------------------------------------
(* Properties *)

(* The first batch is written whole, one request at a time, before a later *)
(* one is embedded or written: later batches need its index.               *)
FirstBatchAlone ==
  /\ Cardinality({r \in UnderWay : r <= last[1]}) <= 1
  /\ batch > 1 => \A r \in 1..last[1] : status[r] = "ok"

(* A batch is embedded only while a slot is free for its first request:    *)
(* that request never makes more than the caller allowed.                  *)
EmbeddingPauses ==
  /\ pc = "embedding" => Cardinality(inFlight) < MaxConcurrent
  /\ Cardinality(UnderWay) <= MaxConcurrent

(* A signal that fires while a batch is embedded stops that batch's write. *)
AbortStopsWrite ==
  [][pc = "embedding" /\ fired => status' = status \/ pc' = "embedding"]_vars

(* The call ends, whatever fails and in whatever order.                    *)
Ends == pc = "begin" ~> pc \in Ended

(* The call is a partial write, its embeddings included.                   *)
Promise == INSTANCE PartialWrite
             WITH underWay <- UnderWay, confirmed <- Confirmed, cause <- failure,
                  outcome <- IF pc \in Ended THEN pc ELSE "running"

IsPartialWrite == Promise!Spec

=============================================================================
