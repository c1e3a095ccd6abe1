------------------------------- MODULE Calls -------------------------------
(***************************************************************************)
(* One call of a public method (src/s3-vectors.ts, src/retriever.ts): its  *)
(* program run on its arguments, from one await to the next; what it asks  *)
(* of the model and the service may fail in every way, the signals may     *)
(* fire at every await, and a failure passes out through its layers.       *)
(***************************************************************************)
EXTENDS Errors, Programs

CONSTANT Calls  \* the calls looked at: a name, a retriever's searchType, the fields' values

(* A value a method works out for itself is no field of its call; and a    *)
(* retriever's fields were looked at when it was constructed.              *)
ASSUME CallsAssumption ==
  \A c \in Calls :
    /\ <<c.name, c.type>> \in PublicMethods
    /\ "queryVector" \in DOMAIN c.value => c.name = "similaritySearchVectorWithScore"
    /\ c.name = "maxMarginalRelevanceSearch" => {"batchSize", "items"} \cap DOMAIN c.value = {}
    /\ c.name = "retriever.invoke" =>
         /\ DOMAIN c.value \subseteq {"input", "timeout", "runSignal", "signal", "model"}
         /\ "signal" \in DOMAIN c.value => c.value.signal \notin NotASignal

VARIABLES
  call,       \* the call
  fired,      \* the signal given with it has fired
  runFired,   \* the signal of retriever.invoke's config has fired
  pc,         \* "running" between two awaits, "awaiting", "unwinding", "over"
  at,         \* the stage it is at
  spent,      \* embedding calls and requests were made
  thrown,     \* the failure under way
  ahead,      \* what it has still to pass through, innermost first
  origin,     \* what failed first, and the ids it is reported with
  outcome     \* what the caller has been given

failure == <<thrown, ahead, origin>>
vars == <<call, fired, runFired, pc, at, spent, failure, outcome>>

NoError == [none |-> TRUE]
Pending == [pending |-> TRUE]
Resolved == [resolved |-> TRUE]

(* The options a call without an options bag is read with, and the value   *)
(* of a field the method does not have.                                    *)
Value(field) ==
  IF "options" \in DOMAIN call.value /\ call.value.options \in {"absent", "null"}
       /\ field \in {"ids", "keys", "batchSize", "pageSize", "signal", "deleteAll"}
    THEN "absent"
  ELSE IF field \in DOMAIN call.value THEN call.value[field] ELSE "fine"

Codes == [method \in {<<c.name, c.type>> : c \in Calls} |-> Program(method[1], method[2])]

Code == Codes[<<call.name, call.type>>]
Now == Code[at]
Kind == Now.stage.kind
Context == At(Now.operation)

Init ==
  /\ call \in Calls
  /\ fired = FALSE /\ runFired = FALSE
  /\ pc = "running" /\ at = 1 /\ spent = FALSE
  /\ thrown = NoError /\ ahead = <<>> /\ origin = NoError
  /\ outcome = Pending

-----------------------------------------------------------------------------
(* The synchronous stages *)

SignalFired == Value("signal") = "fired" \/ fired

Resolve ==
  /\ pc' = "over" /\ outcome' = (IF outcome = Pending THEN Resolved ELSE outcome)
  /\ UNCHANGED <<failure, at>>

Advance ==
  IF at = Len(Code) THEN Resolve
  ELSE at' = at + 1 /\ pc' = "running" /\ UNCHANGED <<failure, outcome>>

Throw(e, source) ==
  /\ thrown' = e /\ ahead' = Now.layers /\ origin' = source
  /\ pc' = "unwinding" /\ UNCHANGED <<at, outcome>>

(* An error the package raises itself.                                     *)
Own(code, lead) == S3VectorsError(code, lead, Context, NoError)
Raise(code, lead) == Throw(Own(code, lead), [from |-> "package", code |-> code])

CheckArgument ==
  /\ Kind = "check"
  /\ LET value == Value(Now.stage.field)
     IN IF value \notin Now.stage.refuses THEN Advance
        ELSE IF value = "throwing"
               THEN Throw(Plain(<<"TypeError">>),
                          [from |-> "caller", raw |-> Plain(<<"TypeError">>)])
        ELSE Raise(IF value = "mixed" /\ Now.stage.field = "vectors"
                     THEN "INDEX_CONFIG_MISMATCH" ELSE "VALIDATION", "")

CheckAborted ==
  /\ Kind = "signal"
  /\ IF Value("signal") \in NotASignal THEN Raise("VALIDATION", Now.operation)
     ELSE IF SignalFired THEN Raise("ABORTED", Now.operation)
     ELSE Advance

ReturnEmpty ==
  /\ Kind = "empty"
  /\ IF Value("items") = "none" THEN Resolve ELSE Advance

NeedModel ==
  /\ Kind = "model"
  /\ IF Value("model") = "stub" THEN Raise("EMBEDDINGS_MISSING", "") ELSE Advance

(* The race of an invocation with its run signal begins.                   *)
BeginRace ==
  /\ Kind = "race"
  /\ IF Value("runSignal") = "fired" THEN Raise("ABORTED", Now.operation) ELSE Advance

Spend ==
  /\ Kind \in {"embed", "embedAndWrite", "write", "query", "fetch", "list", "delete",
               "deleteIndex", "score"}
  /\ pc' = "awaiting" /\ UNCHANGED <<at, failure, outcome>>

Run ==
  /\ pc = "running"
  /\ \/ CheckArgument \/ CheckAborted \/ ReturnEmpty \/ NeedModel \/ BeginRace
     \/ Spend
  /\ spent' = (spent \/ pc' = "awaiting")
  /\ UNCHANGED <<call, fired, runFired>>

-----------------------------------------------------------------------------
(* What the model, the service and the caller's own functions answer *)

Response(name, status) ==
  [Plain(<<name>>) EXCEPT !.metadata = TRUE, !.status = status]

Responses ==
  {Response(r[1], r[2]) : r \in
     {<<"TooManyRequestsException", 429>>, <<"InternalServerException", 500>>,
      <<"RequestTimeoutException", 408>>, <<"AccessDeniedException", 403>>,
      <<"NotFoundException", 404>>, <<"UnknownException", 403>>, <<"UnknownException", 503>>}}

(* No answer: the SDK's timeouts, a broken connection.                     *)
Unanswered ==
  {[Plain(<<"TimeoutError">>) EXCEPT !.marked = TRUE], [Plain(<<"Error">>) EXCEPT !.network = TRUE]}

Nested(depth) == [d \in 1..(depth + 1) |-> IF d = depth + 1 THEN "AbortError" ELSE "Error"]

(* A request cancelled by the signal, as the SDK or a handler reports it.  *)
Cancelled == {Plain(Nested(0)), Plain(Nested(2))}

RequestFailures == Responses \cup Unanswered \cup (IF SignalFired THEN Cancelled ELSE {})

(* The model may be this package's own store behind a cache, too.          *)
ForeignError ==
  S3VectorsError("THROTTLED", "similaritySearch",
    [operation |-> "similaritySearch", awsCommand |-> "QueryVectors", retryable |-> TRUE],
    Response("TooManyRequestsException", 429))

CallersFailures ==
  Responses \cup Unanswered
    \cup {Plain(<<>>), Plain(Nested(0)), [Plain(<<"TimeoutError">>) EXCEPT !.dom = TRUE]}

Requests == [write |-> {"PutVectors", "GetIndex", "CreateIndex"},
             embedAndWrite |-> {"PutVectors", "GetIndex", "CreateIndex"},
             delete |-> {"DeleteVectors"}, query |-> {"QueryVectors"}, fetch |-> {"GetVectors"},
             list |-> {"ListVectors"}, deleteIndex |-> {"DeleteIndex", "GetVectorBucket"}]

(* The ids a failed batched run or fetch is reported with: how many        *)
(* batches were confirmed.                                                 *)
PartialIds(batches) ==
  CASE Kind \in {"write", "embedAndWrite"} -> [writtenIds |-> batches]
    [] Kind = "delete" -> [deletedIds |-> batches]
    [] Kind = "fetch" -> [foundIds |-> batches]
    [] OTHER -> <<>>

ExplainListing(e, pages) == RebuildSpread(e, [pagesScanned |-> pages, yielded |-> pages])

ExplainPagination(e, pages) ==
  IF pages = 0 \/ e.code = "ABORTED" THEN e
  ELSE RebuildSpread(e, [pagesScanned |-> pages, resultsCollected |-> pages])

WithFoundIds(e, batches) == RebuildSpread(e, PartialIds(batches))

(* The size of a refused PutVectors travels with its failure.              *)
PutFails(e, command) ==
  IF command = "PutVectors" THEN AttachContext(e, Context, [batchSize |-> 1]) ELSE e

(* What the action that made a request adds to its failure.                *)
Reported(e, command, batches) ==
  CASE Kind \in {"write", "embedAndWrite", "delete"} ->
         AttachPartialIds(PutFails(e, command), Context, PartialIds(batches))
    [] Kind = "fetch" -> WithFoundIds(e, batches)
    [] Kind = "list" -> ExplainListing(e, batches)
    [] Kind = "query" -> ExplainPagination(e, batches)
    [] Kind \in {"embed", "deleteIndex"} -> e

(* A request failed, after so many batches or pages that went well.        *)
RequestFails ==
  /\ Kind \in DOMAIN Requests
  /\ \E raw \in RequestFailures, command \in Requests[Kind], batches \in 0..1 :
       Throw(Reported(AwsFailure(raw, command, Context), command, batches),
             [from |-> "aws", raw |-> raw, command |-> command, partial |-> PartialIds(batches)])

AbortSeen == IF SignalFired THEN {Own("ABORTED", Now.operation)} ELSE {}
Mismatch == Own("INDEX_CONFIG_MISMATCH", "")
InvalidResponse == Own("AWS_INVALID_RESPONSE", "")

(* Only a page already read names the request; the ceiling does not.       *)
RepeatedToken(command) ==
  [Own("PAGE_LIMIT_EXCEEDED", "") EXCEPT !.context = Merge(@, [awsCommand |-> command])]

(* What the package itself throws once it has begun to spend: a response   *)
(* that is no answer, an index of another configuration, an unusable       *)
(* vector, the signal seen between two requests.                           *)
OwnErrors ==
  CASE Kind = "write" -> {Mismatch} \cup AbortSeen
    [] Kind = "embedAndWrite" -> {Mismatch, Own("VALIDATION", "")} \cup AbortSeen
    [] Kind \in {"delete", "deleteIndex"} -> AbortSeen
    [] Kind = "query" ->
         {Mismatch, InvalidResponse, Own("PAGE_LIMIT_EXCEEDED", ""), RepeatedToken("QueryVectors")}
    [] Kind = "fetch" -> {InvalidResponse}
    [] Kind = "list" -> {InvalidResponse, RepeatedToken("ListVectors")} \cup AbortSeen
    [] Kind = "embed" -> {Own("VALIDATION", "")}
    [] Kind = "score" -> {}

AnswerRefused ==
  \E own \in OwnErrors, batches \in 0..1 :
    Throw(IF Kind \in {"query", "list"} THEN own ELSE Reported(own, "none", batches),
          [from |-> "package", code |-> own.code, partial |-> PartialIds(batches)])

ModelFails ==
  /\ Kind \in {"embed", "embedAndWrite"}
  /\ \E raw \in CallersFailures \cup {ForeignError}, batches \in 0..1 :
       Throw(Reported(WrapEmbeddingsError(raw, Context), "none", batches),
             [from |-> IF raw = ForeignError THEN "foreign" ELSE "model", raw |-> raw,
              partial |-> PartialIds(batches)])

ScoreFails ==
  /\ Kind = "score"
  /\ \E raw \in CallersFailures :
       Throw(WrapCallerError(raw, Context), [from |-> "caller", raw |-> raw])

Answers ==
  \/ Advance
  \/ Kind = "query" /\ Resolve

Answer ==
  /\ pc = "awaiting"
  /\ \/ Answers \/ RequestFails \/ AnswerRefused \/ ModelFails \/ ScoreFails
  /\ UNCHANGED <<call, fired, runFired, spent>>

-----------------------------------------------------------------------------
(* The way out *)

Passed(e, layer) ==
  IF layer.kind = "instance" THEN AttachInstance(e, layer.name)
  ELSE AttachOperation(e, layer.name)

(* The failure passes out through one layer, then the next.                *)
PassLayer ==
  /\ pc = "unwinding" /\ ahead # <<>>
  /\ thrown' = Passed(thrown, Head(ahead)) /\ ahead' = Tail(ahead)
  /\ UNCHANGED <<call, fired, runFired, pc, at, spent, origin, outcome>>

Reject ==
  /\ pc = "unwinding" /\ ahead = <<>>
  /\ pc' = "over"
  /\ outcome' = (IF outcome = Pending THEN thrown ELSE outcome)
  /\ UNCHANGED <<call, fired, runFired, at, spent, failure>>

Fire ==
  /\ pc \in {"awaiting", "unwinding"} /\ Value("signal") = "live" /\ ~fired
  /\ fired' = TRUE
  /\ UNCHANGED <<call, runFired, pc, at, spent, failure, outcome>>

RunFires ==
  /\ pc \in {"awaiting", "unwinding"} /\ Value("runSignal") = "live" /\ ~runFired
  /\ runFired' = TRUE
  /\ UNCHANGED <<call, fired, pc, at, spent, failure, outcome>>

Racing == \E i \in 1..(at - 1) : Code[i].stage.kind = "race"

RaceAborts_WhileNothingAwaited ==
  /\ Racing /\ runFired /\ outcome = Pending /\ pc = "unwinding"
  /\ outcome' = S3VectorsError("ABORTED", call.name, At(call.name), NoError)
  /\ UNCHANGED <<call, fired, runFired, pc, at, spent, failure>>

(* The invocation ends; the search it began goes on, and is not reported.  *)
RaceAborts ==
  /\ Racing /\ runFired /\ outcome = Pending
  /\ outcome' = S3VectorsError("ABORTED", call.name, At(call.name), NoError)
  /\ UNCHANGED <<call, fired, runFired, pc, at, spent, failure>>

EventLoop == Run \/ PassLayer \/ Reject \/ RaceAborts

Next == EventLoop \/ Answer \/ Fire \/ RunFires

(* The event loop runs what is ready.  Nothing is assumed of the model and *)
(* of the service.                                                         *)
Spec == Init /\ [][Next]_vars /\ WF_vars(EventLoop)

-----------------------------------------------------------------------------
(* Properties *)

IsError(result) == "code" \in DOMAIN result
Over(result) == pc = "over" => result
Has(kind) == \E i \in DOMAIN Code : Code[i].stage.kind = kind

Unusable ==
  \/ \E i \in DOMAIN Code :
       LET stage == Code[i].stage
       IN stage.kind = "check" /\ Value(stage.field) \in stage.refuses
  \/ Has("signal") /\ Value("signal") \in NotASignal

AlreadyFired ==
  \/ Has("signal") /\ Value("signal") = "fired"
  \/ Has("race") /\ Value("runSignal") = "fired"

Fails(codes) == ~spent /\ Over(IsError(outcome) /\ outcome.code \in codes)
Raced == IF runFired THEN {"ABORTED"} ELSE {}

(* When several things are wrong at once, one order decides, on every      *)
(* public method: what the arguments alone decide, a signal that had       *)
(* fired, an empty input, a missing model; none of them costs anything.    *)
OneOrder ==
  IF Unusable THEN Fails({"VALIDATION", "INDEX_CONFIG_MISMATCH", "UNEXPECTED_ERROR"})
  ELSE IF AlreadyFired THEN Fails({"ABORTED"})
  ELSE IF Has("empty") /\ Value("items") = "none" THEN ~spent /\ Over(outcome = Resolved)
  ELSE IF Has("model") /\ Value("model") = "stub" THEN Fails({"EMBEDDINGS_MISSING"} \cup Raced)
  ELSE TRUE

(* The failure of the call itself, not the end of a race it lost.          *)
Reports == pc = "over" /\ IsError(outcome) /\ ~(runFired /\ outcome.code = "ABORTED")

(* Whatever layers a failure passes through, the caller gets the class and *)
(* the cause of what failed first, under the name of the method called,    *)
(* with the request that failed if one did.                                *)
ErrorFaithful ==
  Reports =>
    /\ outcome.context.operation = call.name /\ outcome.lead \in {"", call.name}
    /\ CASE origin.from = "aws" ->
              /\ outcome.code = ClassifyAwsError(origin.raw) /\ outcome.cause = origin.raw
              /\ outcome.context.awsCommand = origin.command
         [] origin.from = "model" ->
              /\ outcome.code = "EMBEDDINGS_FAILED" /\ outcome.cause = origin.raw
              /\ "awsCommand" \notin DOMAIN outcome.context
         [] origin.from = "caller" ->
              /\ outcome.code = "UNEXPECTED_ERROR" /\ outcome.cause = origin.raw
              /\ "awsCommand" \notin DOMAIN outcome.context
         [] origin.from = "foreign" ->
              outcome.code = origin.raw.code /\ outcome.cause = origin.raw.cause
         [] origin.from = "package" -> outcome.code = origin.code

(* The ids confirmed before a failure, and the store a factory had built,  *)
(* reach the caller through every layer; the store stays out of logs.      *)
RecoveryKept ==
  Reports =>
    /\ "partial" \in DOMAIN origin =>
         \A key \in DOMAIN origin.partial : outcome.context[key] = origin.partial[key]
    /\ ("instance" \in DOMAIN outcome.context)
         <=> (call.name \in {"fromTexts", "fromDocuments"} /\ Now.operation = "addDocuments")
    /\ "instance" \in DOMAIN outcome.context => outcome.hidden = {"instance"}

(* Transient classes say so; and a verdict is given on a service's answer  *)
(* whoever asked it, but never on a connection of the caller's own code.   *)
VerdictsAgree ==
  Reports =>
    /\ outcome.code \in {"THROTTLED", "SERVICE_UNAVAILABLE"} => outcome.context.retryable
    /\ origin.from \in {"model", "caller"} =>
         (("retryable" \in DOMAIN outcome.context)
            <=> (origin.raw.metadata \/ origin.raw.marked))

(* An invocation whose run signal or timeout fires is answered, although   *)
(* the model or the service never is.                                      *)
InvokeEnds == Racing /\ runFired ~> outcome # Pending

=============================================================================
