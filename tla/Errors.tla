------------------------------- MODULE Errors -------------------------------
(***************************************************************************)
(* What src/shared/errors makes of a thrown value: how it is classified,   *)
(* what an S3VectorsError keeps of it, and what each layer it passes       *)
(* through on its way to the caller adds.  A thrown value is the names     *)
(* along its chain of causes (none: it is no object) and what the code     *)
(* reads of it; of a message, only the operation it begins with is kept.   *)
(***************************************************************************)
EXTENDS Naturals, Sequences

MAX_CAUSE_DEPTH == 5
NoStatus == 0

(* A thrown value that carries nothing but its names.                      *)
Plain(names) ==
  [names |-> names, status |-> NoStatus, metadata |-> FALSE, network |-> FALSE,
   marked |-> FALSE, dom |-> FALSE]

(* Its message is kept as the operation it begins with, or none.           *)
S3VectorsError(code, lead, context, cause) ==
  [code |-> code, lead |-> lead, context |-> context, hidden |-> {}, cause |-> cause]

IsS3VectorsError(e) == "code" \in DOMAIN e

(* An object literal's spread: the keys of one, then the other's.          *)
Merge(one, other) ==
  [key \in DOMAIN one \cup DOMAIN other |-> IF key \in DOMAIN one THEN one[key] ELSE other[key]]

NameOf(e) == IF e.names = <<>> THEN "none" ELSE Head(e.names)

-----------------------------------------------------------------------------
(* Classification *)

IsAbortError(e) ==
  \E depth \in 0..MAX_CAUSE_DEPTH :
    depth < Len(e.names) /\ e.names[depth + 1] = "AbortError"

BY_NAME ==
  [TooManyRequestsException |-> "THROTTLED",
   InternalServerException |-> "SERVICE_UNAVAILABLE",
   RequestTimeoutException |-> "SERVICE_UNAVAILABLE",
   ServiceUnavailableException |-> "SERVICE_UNAVAILABLE",
   ServiceQuotaExceededException |-> "QUOTA_EXCEEDED",
   AccessDeniedException |-> "ACCESS_DENIED",
   ConflictException |-> "CONFLICT",
   NotFoundException |-> "NOT_FOUND",
   ValidationException |-> "AWS_REJECTED",
   KmsDisabledException |-> "KMS_ERROR",
   KmsInvalidKeyUsageException |-> "KMS_ERROR",
   KmsInvalidStateException |-> "KMS_ERROR",
   KmsNotFoundException |-> "KMS_ERROR"]

Declared(name) == name \in DOMAIN BY_NAME

(* ECONNRESET and its like, unless the name already says what happened.    *)
IsTransientNetworkFailure(e) ==
  /\ ~IsAbortError(e)
  /\ NameOf(e) # "TimeoutError" /\ ~Declared(NameOf(e))
  /\ e.network

ClassifyAwsError(e) ==
  IF IsAbortError(e) THEN "ABORTED"
  ELSE IF e.names = <<>> THEN "AWS_REQUEST_FAILED"
  ELSE IF NameOf(e) = "TimeoutError" THEN "SERVICE_UNAVAILABLE"
  ELSE IF Declared(NameOf(e)) THEN BY_NAME[NameOf(e)]
  ELSE IF e.status = 403 THEN "ACCESS_DENIED"
  ELSE IF IsTransientNetworkFailure(e) THEN "SERVICE_UNAVAILABLE"
  ELSE "AWS_REQUEST_FAILED"

-----------------------------------------------------------------------------
(* What is kept of an AWS-shaped cause *)

IsException(name) == Declared(name) \/ name = "UnknownException"

RETRYABLE_AWS_ERROR_NAMES ==
  {"TimeoutError", "TooManyRequestsException", "ServiceUnavailableException",
   "InternalServerException", "RequestTimeoutException"}

IsRetryable(e, transient) ==
  \/ e.marked \/ NameOf(e) \in RETRYABLE_AWS_ERROR_NAMES
  \/ e.status = 429 \/ e.status >= 500
  \/ transient

AwsShaped(e, transient, ofAws) ==
  \/ e.metadata \/ IsException(NameOf(e)) \/ transient
  \/ NameOf(e) = "TimeoutError" /\ (ofAws \/ ~e.dom)

(* A bare network code counts on a request of this package's own only.     *)
AwsDiagnostics_AnyCode(e, ofAws) ==
  LET transient == IsTransientNetworkFailure(e)
  IN IF e.names = <<>> \/ ~AwsShaped(e, transient, ofAws) THEN <<>>
     ELSE [awsErrorName |-> NameOf(e), httpStatusCode |-> e.status,
           retryable |-> IsRetryable(e, transient)]

AwsDiagnostics(e, ofAws) ==
  LET transient == ofAws /\ IsTransientNetworkFailure(e)
  IN IF e.names = <<>> \/ ~AwsShaped(e, transient, ofAws) THEN <<>>
     ELSE [awsErrorName |-> NameOf(e), httpStatusCode |-> e.status,
           retryable |-> IsRetryable(e, transient)]

At(operation) == [operation |-> operation]

Wrapped_Again(e, code, context, command) ==
  S3VectorsError(code, context.operation, Merge(context, command), e)

(* An error of this package passes unchanged, whoever threw it.            *)
Wrapped(e, code, context, command) ==
  IF IsS3VectorsError(e) THEN e
  ELSE S3VectorsError(code, context.operation,
         Merge(Merge(context, command), AwsDiagnostics(e, DOMAIN command # {})), e)

AwsFailure(e, command, context) ==
  Wrapped(e, IF IsS3VectorsError(e) THEN e.code ELSE ClassifyAwsError(e), context,
          [awsCommand |-> command])

WrapCallerError(e, context) == Wrapped(e, "UNEXPECTED_ERROR", context, <<>>)

WrapEmbeddingsError(e, context) == Wrapped(e, "EMBEDDINGS_FAILED", context, <<>>)

-----------------------------------------------------------------------------
(* What a layer adds *)

NormalizeToS3VectorsError(e, context) == WrapCallerError(e, context)

(* extendContext keeps what is hidden hidden; an object literal drops it.  *)
RebuildSpread(e, extra) ==
  [e EXCEPT !.context = Merge(extra, [key \in DOMAIN e.context \ e.hidden |-> e.context[key]]),
            !.hidden = {}]

RebuildExtended(e, extra) ==
  [e EXCEPT !.context = Merge(extra, e.context)]

AttachContext(e, context, extra) ==
  RebuildExtended(NormalizeToS3VectorsError(e, context), extra)

AttachOperation_Spread(e, operation) ==
  LET base == NormalizeToS3VectorsError(e, At(operation))
  IN IF base.context.operation = operation THEN base
     ELSE [RebuildSpread(base, [operation |-> operation]) EXCEPT
             !.lead = IF base.lead = base.context.operation THEN operation ELSE base.lead]

(* The operation named becomes the one the caller called, also where the   *)
(* message begins with it.                                                 *)
AttachOperation(e, operation) ==
  LET base == NormalizeToS3VectorsError(e, At(operation))
  IN IF base.context.operation = operation THEN base
     ELSE [RebuildExtended(base, [operation |-> operation]) EXCEPT
             !.lead = IF base.lead = base.context.operation THEN operation ELSE base.lead]

AttachPartialIds(e, context, ids) ==
  RebuildExtended(NormalizeToS3VectorsError(e, context), ids)

(* The store a failed factory built, kept out of every log.                *)
AttachInstance(e, operation) ==
  LET base == AttachOperation(e, operation)
  IN [RebuildSpread(base, [instance |-> "store"]) EXCEPT !.hidden = {"instance"}]

=============================================================================
