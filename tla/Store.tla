------------------------------- MODULE Store -------------------------------
(***************************************************************************)
(* The calls of one store together (src/s3-vectors.ts, with putBatch,      *)
(* runBatches, the rate limiter and the index lifecycle under it): what    *)
(* they share is the memory that the index exists, one lookup of it at a   *)
(* time, and the line of the rate limiter.                                 *)
(*                                                                         *)
(* The index lifecycle, the limiter and the window have modules of their   *)
(* own with all they do; here each is what another call sees of it.        *)
(* createIndexIfNotExist is on, and a call that is over may be made again. *)
(***************************************************************************)
EXTENDS Naturals, FiniteSets, SequencesExt

CONSTANTS
  Calls,         \* calls the application makes, over and over
  MaxBatches,    \* bound: requests of a write or of a delete
  MaxConcurrent  \* maxConcurrentBatchCalls

ASSUME StoreAssumption ==
  IsFiniteSet(Calls) /\ MaxBatches \in Nat \ {0} /\ MaxConcurrent \in Nat \ {0}

VARIABLES
  known,    \* knownToExist
  lookup,   \* what the pending lookup (memo) asks next or has come to
  stale,    \* generation has moved since that lookup started
  line,     \* the requests in the rate limiter's line
  kind,     \* what each call is, "none" when it is not being made
  stage,    \* of each request of each call
  failure,  \* the first failure of each call
  fired,    \* its signal has fired
  exists    \* the service has the index

memory == <<known, lookup, stale>>
calls == <<kind, stage, failure, fired>>
vars == <<memory, line, calls, exists>>

Batches == 1..MaxBatches
Unmade == [b \in Batches |-> "new"]

Init ==
  /\ known = FALSE /\ lookup = "none" /\ stale = FALSE /\ line = <<>>
  /\ kind = [c \in Calls |-> "none"] /\ stage = [c \in Calls |-> Unmade]
  /\ failure = [c \in Calls |-> "none"] /\ fired = [c \in Calls |-> FALSE]
  /\ exists \in BOOLEAN

Becomes(c, b, to) == stage' = [stage EXCEPT ![c][b] = to]

UnderWay(c) == {b \in Batches : stage[c][b] \in {"ensuring", "line", "sent"}}
Unlaunched(c) == {b \in Batches : stage[c][b] = "new" /\ (kind[c] = "read" => b = 1)}

Begin(c) ==
  /\ kind[c] = "none"
  /\ \E k \in {"write", "delete", "read"} : kind' = [kind EXCEPT ![c] = k]
  /\ UNCHANGED <<memory, line, stage, failure, fired, exists>>

(* The next request: a write's first is alone.                             *)
NextBatch(c, b) ==
  /\ kind[c] # "none" /\ failure[c] = "none"
  /\ b \in Unlaunched(c) /\ \A a \in Unlaunched(c) : b <= a
  /\ Cardinality(UnderWay(c)) < MaxConcurrent
  /\ kind[c] = "write" /\ b > 1 => stage[c][1] = "ok"

(* putBatch, up to its place in the line; a search or a read has none.     *)
Launch(c, b) ==
  /\ NextBatch(c, b) /\ ~fired[c]
  /\ CASE kind[c] = "read" ->
            Becomes(c, b, "sent") /\ UNCHANGED <<memory, line>>
       [] kind[c] = "write" /\ b = 1 /\ ~known ->
            /\ Becomes(c, b, "ensuring")
            /\ IF lookup = "none" THEN lookup' = "describe" /\ stale' = FALSE
                                  ELSE UNCHANGED <<lookup, stale>>
            /\ UNCHANGED <<known, line>>
       [] OTHER ->
            Becomes(c, b, "line") /\ line' = Append(line, <<c, b>>) /\ UNCHANGED memory
  /\ UNCHANGED <<kind, failure, fired, exists>>

(* ensureExists: GetIndex, CreateIndex when it is absent, and GetIndex     *)
(* again when another process created it first.                            *)
LookupServed ==
  /\ \/ /\ lookup = "describe"
        /\ lookup' = (IF exists THEN "found" ELSE "create") /\ UNCHANGED exists
     \/ /\ lookup = "create"
        /\ lookup' = (IF exists THEN "recheck" ELSE "found") /\ exists' = TRUE
     \/ /\ lookup = "recheck"
        /\ lookup' = (IF exists THEN "found" ELSE "gone") /\ UNCHANGED exists
     \/ /\ lookup \in {"describe", "create", "recheck"}
        /\ lookup' = "failed" /\ UNCHANGED exists
  /\ UNCHANGED <<known, stale, line, calls>>

Ensuring == {c \in Calls : \E b \in Batches : stage[c][b] = "ensuring"}

(* Everyone who waited for it goes on, or fails with it.                   *)
LookupArrives ==
  /\ lookup \in {"found", "gone", "failed"}
  /\ known' = (known \/ (lookup = "found" /\ ~stale))
  /\ lookup' = "none" /\ stale' = FALSE
  /\ IF lookup = "failed"
       THEN /\ stage' = [c \in Calls |-> IF c \in Ensuring
                           THEN [stage[c] EXCEPT ![1] = "failed"] ELSE stage[c]]
            /\ failure' = [c \in Calls |-> IF c \in Ensuring THEN "OTHER" ELSE failure[c]]
            /\ UNCHANGED line
       ELSE /\ stage' = [c \in Calls |-> IF c \in Ensuring
                           THEN [stage[c] EXCEPT ![1] = "line"] ELSE stage[c]]
            /\ \E s \in SetToSeqs({<<c, 1>> : c \in Ensuring}) : line' = line \o s
            /\ UNCHANGED failure
  /\ UNCHANGED <<kind, fired, exists>>

(* The front of the line is let through.                                   *)
Admit ==
  /\ line # <<>> /\ stage[Head(line)[1]][Head(line)[2]] = "line"
  /\ Becomes(Head(line)[1], Head(line)[2], "sent") /\ line' = Tail(line)
  /\ UNCHANGED <<memory, kind, failure, fired, exists>>

FailsWith(c, b, code) ==
  /\ Becomes(c, b, "failed")
  /\ failure' = [failure EXCEPT ![c] = IF @ = "none" THEN code ELSE @]

Answered(c, b) ==
  /\ stage[c][b] = "sent"
  /\ \/ exists /\ Becomes(c, b, "ok") /\ UNCHANGED failure
     \/ ~exists /\ FailsWith(c, b, "NOT_FOUND")
     \/ FailsWith(c, b, "OTHER")
  /\ UNCHANGED <<memory, line, kind, fired, exists>>

LeaveLine_Never(c, b) == UNCHANGED line

LeaveLine(c, b) ==
  \/ stage[c][b] # "line" /\ UNCHANGED line
  \/ \E i \in DOMAIN line : line[i] = <<c, b>> /\ line' = RemoveAt(line, i)

(* The signal ends whatever the request waits for, but not the lookup.     *)
Abort(c, b) ==
  /\ fired[c] /\ (b \in UnderWay(c) \/ NextBatch(c, b))
  /\ FailsWith(c, b, "OTHER") /\ LeaveLine(c, b)
  /\ UNCHANGED <<memory, kind, fired, exists>>

MarkAbsent_GenerationKept == known' = FALSE /\ UNCHANGED <<lookup, stale>>

(* markAbsent: a lookup that had started before may not say it exists.     *)
MarkAbsent == known' = FALSE /\ stale' = (lookup # "none") /\ UNCHANGED lookup

(* The call is over once nothing of it is under way; #failed forgets the   *)
(* index when the failure it reports is a vector request's NOT_FOUND.      *)
Settle(c) ==
  /\ kind[c] # "none" /\ UnderWay(c) = {}
  /\ failure[c] # "none" \/ Unlaunched(c) = {}
  /\ IF failure[c] = "NOT_FOUND" THEN MarkAbsent ELSE UNCHANGED memory
  /\ kind' = [kind EXCEPT ![c] = "none"] /\ stage' = [stage EXCEPT ![c] = Unmade]
  /\ failure' = [failure EXCEPT ![c] = "none"] /\ fired' = [fired EXCEPT ![c] = FALSE]
  /\ UNCHANGED <<line, exists>>

Fire(c) ==
  /\ kind[c] # "none" /\ ~fired[c]
  /\ fired' = [fired EXCEPT ![c] = TRUE]
  /\ UNCHANGED <<memory, line, kind, stage, failure, exists>>

(* Another process.                                                        *)
OthersDelete ==
  /\ exists /\ exists' = FALSE
  /\ UNCHANGED <<memory, line, calls>>

OthersCreate ==
  /\ ~exists /\ exists' = TRUE
  /\ UNCHANGED <<memory, line, calls>>

CallStep(c) == Settle(c) \/ \E b \in Batches : Launch(c, b) \/ Answered(c, b) \/ Abort(c, b)

Lookup == LookupServed \/ LookupArrives

Next ==
  \/ \E c \in Calls : Begin(c) \/ CallStep(c) \/ Fire(c)
  \/ Lookup \/ Admit
  \/ OthersDelete \/ OthersCreate

(* The event loop runs what is ready, budgets refill, and the client's own *)
(* timeouts end a request the service leaves unanswered.                   *)
Fairness == WF_vars(Lookup) /\ WF_vars(Admit) /\ \A c \in Calls : WF_vars(CallStep(c))

Spec == Init /\ [][Next]_vars /\ Fairness

-----------------------------------------------------------------------------
(* Every call ends: its place in the line comes, and no lookup, aborted    *)
(* neighbour or failed sibling keeps it waiting.                           *)
EveryCallEnds == \A c \in Calls : kind[c] # "none" ~> kind[c] = "none"

=============================================================================
