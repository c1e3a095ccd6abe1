------------------------------- MODULE Window -------------------------------
(***************************************************************************)
(* The concurrency window (openWindow, src/internal/concurrency.ts) and    *)
(* the requests launched into it, numbered in the caller's order.  Three   *)
(* modules extend it: BatchedRun (runBatches), EmbedPipeline               *)
(* (embedAndWrite) and Reads (fetchVectorsByIds), each the one caller that *)
(* launches.                                                               *)
(*                                                                         *)
(* A request waits for its rate limit first (launched), is then sent, and  *)
(* is answered.  Its settling takes two steps of the event loop: `then`    *)
(* records what it came to, `finally` frees its slot.                      *)
(***************************************************************************)
EXTENDS Naturals, FiniteSets, SequencesExt

CONSTANTS
  MaxTotal,       \* bound: requests the input becomes
  MaxConcurrent   \* maxConcurrentBatchCalls

ASSUME WindowAssumption == MaxTotal \in Nat /\ MaxConcurrent \in Nat \ {0}

VARIABLES
  total,      \* how many requests this input becomes
  status,     \* of each request
  launched,   \* the requests launched into the window, in order: its slots
  inFlight,   \* those whose slot is not free yet
  failure,    \* the first failure, latched: empty, or the set of one
  waiting,    \* the caller waits for a free slot
  fired       \* the caller's signal has fired

windowVars == <<launched, inFlight, waiting>>

Requests == 1..MaxTotal

(* A failure that is no request's: the embedding model's, or the signal's  *)
(* between two requests.                                                   *)
NotARequest == 0

UnderWay == {r \in Requests : status[r] \in {"launched", "sent"}}
Confirmed == {r \in Requests : status[r] = "ok"}

WindowTypeOK ==
  /\ total \in 0..MaxTotal
  /\ status \in [Requests -> {"new", "launched", "sent", "ok", "failed"}]
  /\ launched \in Seq(Requests) /\ inFlight \subseteq Requests
  /\ failure \subseteq Requests \cup {NotARequest} /\ Cardinality(failure) <= 1
  /\ waiting \in BOOLEAN /\ fired \in BOOLEAN

WindowInit ==
  /\ status = [r \in Requests |-> "new"]
  /\ launched = <<>> /\ inFlight = {} /\ failure = {}
  /\ waiting = FALSE /\ fired = FALSE

Becomes(r, to) == status' = [status EXCEPT ![r] = to]

(* (Here and in the modules that extend this one, a definition named       *)
(* X_How stands before X and is a defective X.)                            *)
Launch_OneTooMany(r) ==
  /\ Becomes(r, "launched")
  /\ launched' = Append(launched, r)
  /\ inFlight' = inFlight \cup {r}
  /\ waiting' = (Cardinality(inFlight') > MaxConcurrent)

(* The window is full once this one is in it: the caller waits for a slot. *)
Launch(r) ==
  /\ Becomes(r, "launched")
  /\ launched' = Append(launched, r)
  /\ inFlight' = inFlight \cup {r}
  /\ waiting' = (Cardinality(inFlight') >= MaxConcurrent)

Record(e) == failure' = IF failure = {} THEN {e} ELSE failure

-----------------------------------------------------------------------------
(* A request *)

(* acquire lets nothing through once the signal has fired.                 *)
Send(r) ==
  /\ status[r] = "launched" /\ ~fired
  /\ Becomes(r, "sent")
  /\ UNCHANGED <<windowVars, failure, fired>>

Succeed(r) ==
  /\ status[r] = "sent"
  /\ Becomes(r, "ok")
  /\ UNCHANGED <<windowVars, failure, fired>>

Reject(r) ==
  /\ Becomes(r, "failed") /\ Record(r)
  /\ UNCHANGED <<windowVars, fired>>

(* Refused by the service or aborted; or aborted before it was sent.       *)
Fail(r) ==
  /\ \/ status[r] = "sent"
     \/ status[r] = "launched" /\ fired
  /\ Reject(r)

(* The first request of a write ensures the index first, which may fail.   *)
EnsureFails(r) == status[r] = "launched" /\ Reject(r)

(* The slot is free, however the request ended, and a waiting caller wakes.*)
Finish_WakesOnSuccess(r) ==
  /\ r \in inFlight /\ status[r] \in {"ok", "failed"}
  /\ inFlight' = inFlight \ {r}
  /\ waiting' = (waiting /\ status[r] = "failed")
  /\ UNCHANGED <<status, launched, failure, fired>>

Finish(r) ==
  /\ r \in inFlight /\ status[r] \in {"ok", "failed"}
  /\ inFlight' = inFlight \ {r}
  /\ waiting' = FALSE
  /\ UNCHANGED <<status, launched, failure, fired>>

Request(r) == Send(r) \/ Succeed(r) \/ Fail(r)

Fire == ~fired /\ fired' = TRUE /\ UNCHANGED <<windowVars, status, failure>>

-----------------------------------------------------------------------------
(* settle *)

AllFinished_Failed == inFlight = {} \/ failure # {}

AllFinished == inFlight = {}

(* The n-th smallest of a set of numbers.                                  *)
Nth(S, n) == CHOOSE x \in S : Cardinality({y \in S : y <= x}) = n

(* What a list has at some of its places, in its order.                    *)
Kept(s, places) == [n \in 1..Cardinality(places) |-> s[Nth(places, n)]]

(* What committed, in launch order.                                        *)
Results == Kept(launched, {p \in DOMAIN launched : status[launched[p]] = "ok"})

-----------------------------------------------------------------------------
(* What the proofs about its callers speak of *)

(* A request of a write, the first included, moves on by itself.           *)
Moves(r) == Request(r) \/ EnsureFails(r) \/ Finish(r)

(* So does one of a read, which has no limiter to wait for.                *)
Served(r) ==
  /\ status[r] = "launched" /\ Becomes(r, "ok")
  /\ UNCHANGED <<windowVars, failure, fired>>

(* What a caller that launches the requests after the first `base` ones in *)
(* order, up to n - 1, finds at every turn: who was launched, who holds a  *)
(* slot, and that nothing failed unseen.                                   *)
Fed(base, n) ==
  /\ \A r \in 1..base : status[r] = "ok"
  /\ \A r \in Requests : status[r] = "new" <=> r >= n
  /\ launched = [i \in 1..(n - 1 - base) |-> i + base]
  /\ inFlight \subseteq (base + 1)..(n - 1) /\ UnderWay \subseteq inFlight
  /\ Cardinality(inFlight) <= MaxConcurrent
  /\ failure = {} => \A r \in Requests : status[r] # "failed"

=============================================================================
