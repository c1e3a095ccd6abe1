------------------------------- MODULE Reads -------------------------------
(***************************************************************************)
(* Reads by id: fetchVectorsByIds (src/internal/get-vectors.ts), with its  *)
(* two callers.  getByIds answers the ids it was asked, one slot each;     *)
(* mmrSearch fetches the candidates of a search and picks among those that *)
(* are still there.  Meanwhile others write and delete vectors.            *)
(*                                                                         *)
(* Reads have no rate limiter: a request launched into the window is sent. *)
(* MaxTotal bounds the ids asked for too, and fetchK.                      *)
(***************************************************************************)
EXTENDS Window, ReadBounds

VARIABLES
  mmr,        \* mmrSearch, or getByIds
  ids,        \* the copy of the ids asked for, or the candidates
  batchSize,
  k,          \* the documents an MMR search is asked for
  pc,         \* where the call is
  next,       \* the next batch to launch
  answers,    \* the vectors each request was answered with, in some order
  result,     \* the documents returned, a document being the vector it shows
  foundIds,   \* foundIds of the error thrown
  picked,     \* history: the vectors whose embeddings MMR selected, in order
  stored,     \* the version stored under each id
  held,       \* history: the versions stored since the call began
  changes

call == <<mmr, ids, batchSize, k>>
outcome == <<result, foundIds, picked>>
index == <<stored, held, changes>>
vars == <<total, status, windowVars, failure, fired, call, pc, next, answers, outcome, index>>

Ended == {"resolved", "thrown"}

NotThere == 0
Versions == 0..(MaxChanges + 1)

Vectors == [key: Ids, version: Versions \ {NotThere}]

(* A slot of getByIds that holds no document.                              *)
Undefined == [key |-> "undefined"]

TypeOK ==
  /\ WindowTypeOK
  /\ mmr \in BOOLEAN /\ ids \in Seq(Ids) /\ batchSize \in 1..MaxBatchSize /\ k \in 1..MaxPicked
  /\ pc \in {"begin", "searching", "feeding", "settling"} \cup Ended
  /\ next \in 1..(MaxTotal + 1)
  /\ answers \in [Requests -> Seq(Vectors)]
  /\ result \in Seq(Vectors \cup {Undefined}) /\ foundIds \subseteq Ids
  /\ picked \in Seq(Vectors)
  /\ stored \in [Ids -> Versions] /\ held \in [Ids -> SUBSET Versions] /\ changes \in Nat

Lists(S, n) == UNION {[1..m -> S] : m \in 0..n}

Init ==
  /\ WindowInit /\ total = 0
  /\ mmr \in BOOLEAN /\ ids \in Lists(Ids, IF mmr THEN 0 ELSE MaxTotal)
  /\ batchSize \in (IF mmr THEN {MaxBatchSize} ELSE 1..MaxBatchSize)
  /\ k \in (IF mmr THEN 1..MaxPicked ELSE {1})
  /\ pc = "begin" /\ next = 1 /\ answers = [r \in Requests |-> <<>>]
  /\ result = <<>> /\ foundIds = {} /\ picked = <<>>
  /\ stored \in [Ids -> {NotThere, 1}] /\ held = [id \in Ids |-> {stored[id]}]
  /\ changes = 0

-----------------------------------------------------------------------------
(* fetchVectorsByIds *)

(* [...new Set(ids)], cut into batches.                                    *)
Unique(s) == Kept(s, {i \in DOMAIN s : \A j \in 1..(i - 1) : s[j] # s[i]})

Batches(s) == (Len(Unique(s)) + batchSize - 1) \div batchSize

Smaller(m, n) == IF m < n THEN m ELSE n

Batch(r) ==
  SubSeq(Unique(ids), (r - 1) * batchSize + 1, Smaller(r * batchSize, Len(Unique(ids))))

(* One turn of the loop over the batches.                                  *)
Feed ==
  /\ pc = "feeding" /\ ~waiting
  /\ IF next <= total /\ failure = {}
       THEN Launch(next) /\ next' = next + 1 /\ UNCHANGED pc
       ELSE pc' = "settling" /\ UNCHANGED <<status, windowVars, next>>
  /\ UNCHANGED <<total, failure, fired, call, answers, outcome, index>>

(* GetVectors leaves out what is not there, and keeps no order.            *)
Answered(r) ==
  /\ status[r] = "launched" /\ Becomes(r, "ok")
  /\ \E order \in SetToSeqs({id \in ToSet(Batch(r)) : stored[id] # NotThere}) :
       answers' = [answers EXCEPT ![r] =
         [i \in DOMAIN order |-> [key |-> order[i], version |-> stored[order[i]]]]]
  /\ UNCHANGED <<total, windowVars, failure, fired, call, pc, next, outcome, index>>

(* Refused, aborted, or answered with no list of vectors.                  *)
Refused(r) ==
  /\ status[r] = "launched" /\ Reject(r)
  /\ UNCHANGED <<total, call, pc, next, answers, outcome, index>>

SlotFreed(r) == Finish(r) /\ UNCHANGED <<total, call, pc, next, answers, outcome, index>>

(* What a request puts in `found`, by id.                                  *)
Puts_ByPosition(r) == {<<Batch(r)[i], answers[r][i]>> : i \in DOMAIN answers[r]}

Puts(r) == {<<v.key, v>> : v \in ToSet(answers[r])}

Found == UNION {Puts(r) : r \in Confirmed}

FoundIds == {entry[1] : entry \in Found}

Get(id) == (CHOOSE entry \in Found : entry[1] = id)[2]

-----------------------------------------------------------------------------
(* getByIds and mmrSearch *)

Throws == pc' = "thrown" /\ UNCHANGED outcome

(* checkAborted, before the first request of either.                       *)
Begin ==
  /\ pc = "begin"
  /\ \/ fired /\ Throws /\ UNCHANGED total
     \/ /\ ~fired /\ UNCHANGED outcome
        /\ \/ mmr /\ pc' = "searching" /\ UNCHANGED total
           \/ ~mmr /\ pc' = "feeding" /\ total' = Batches(ids)
  /\ UNCHANGED <<status, windowVars, failure, fired, call, next, answers, index>>

(* A search answers with vectors that were there when it read their page.  *)
Candidates ==
  {s \in Lists({id \in Ids : held[id] # {NotThere}}, MaxTotal) : IsInjective(s)}

Searched ==
  /\ pc = "searching"
  /\ \/ /\ ids' = <<>> /\ pc' = "resolved" /\ UNCHANGED <<total, outcome>>
     \/ /\ ids' \in Candidates \ {<<>>}
        /\ \/ fired /\ Throws /\ UNCHANGED total
           \/ ~fired /\ pc' = "feeding" /\ total' = Batches(ids') /\ UNCHANGED outcome
     \/ Throws /\ UNCHANGED <<ids, total>>
  /\ UNCHANGED <<status, windowVars, failure, fired, mmr, batchSize, k, next, answers, index>>

Fetched == pc = "settling" /\ AllFinished

Settled == <<total, status, windowVars, failure, fired, call, next, answers, index>>

FetchFails ==
  /\ Fetched /\ failure # {}
  /\ pc' = "thrown" /\ foundIds' = FoundIds
  /\ UNCHANGED <<Settled, result, picked>>

(* A vector without its embedding, or with metadata that cannot be copied. *)
RefuseVector ==
  /\ Fetched /\ failure = {} /\ FoundIds # {}
  /\ Throws
  /\ UNCHANGED Settled

Slots ==
  /\ Fetched /\ failure = {} /\ ~mmr
  /\ pc' = "resolved"
  /\ result' = [i \in DOMAIN ids |-> IF ids[i] \in FoundIds THEN Get(ids[i]) ELSE Undefined]
  /\ UNCHANGED <<Settled, foundIds, picked>>

(* The candidates that are still there, in the search's order.             *)
Present == Kept(ids, {i \in DOMAIN ids : ids[i] \in FoundIds})

(* maximalMarginalRelevance of @langchain/core: positions in the list of   *)
(* embeddings, each at most once.                                          *)
Selections(n) == {s \in [1..Smaller(k, n) -> 1..n] : IsInjective(s)}

Document_OfCandidate(i) == IF ids[i] \in FoundIds THEN Get(ids[i]) ELSE Undefined

Document(i) == Get(Present[i])

Ranks ==
  /\ Fetched /\ failure = {} /\ mmr
  /\ pc' = "resolved"
  /\ \E selected \in Selections(Len(Present)) :
       /\ picked' = [i \in DOMAIN selected |-> Get(Present[selected[i]])]
       /\ result' = [i \in DOMAIN selected |-> Document(selected[i])]
  /\ UNCHANGED <<Settled, foundIds>>

Fires == pc \notin Ended /\ Fire /\ UNCHANGED <<total, call, pc, next, answers, outcome, index>>

(* Another process, or another call, writes or deletes a vector.           *)
OtherChanges ==
  /\ changes < MaxChanges /\ pc \notin Ended
  /\ changes' = changes + 1
  /\ \E id \in Ids, version \in {NotThere, changes + 2} :
       /\ stored' = [stored EXCEPT ![id] = version]
       /\ held' = [held EXCEPT ![id] = @ \cup {version}]
  /\ UNCHANGED <<total, status, windowVars, failure, fired, call, pc, next, answers, outcome>>

Next ==
  \/ Begin \/ Searched \/ Feed
  \/ \E r \in Requests : Answered(r) \/ Refused(r) \/ SlotFreed(r)
  \/ FetchFails \/ RefuseVector \/ Slots \/ Ranks
  \/ Fires \/ OtherChanges

Spec == Init /\ [][Next]_vars

-----------------------------------------------------------------------------
(* Properties *)

(* The i-th answer of getByIds is about the i-th id: a document of that    *)
(* id, as it was stored during the call, or nothing, and then the id was   *)
(* not there at some time during the call.  Nobody mistakes an id that was *)
(* not asked about for one that is absent.                                 *)
OwnSlot ==
  pc = "resolved" /\ ~mmr =>
    /\ DOMAIN result = DOMAIN ids
    /\ \A i \in DOMAIN ids :
         \/ result[i] = Undefined /\ NotThere \in held[ids[i]]
         \/ result[i].key = ids[i] /\ result[i].version \in held[ids[i]]

(* The documents of an MMR search are those whose embeddings it selected,  *)
(* in its order, however many candidates were deleted before the fetch: k  *)
(* of them, or all that are left, no two of one id.                        *)
RankedReturned ==
  pc = "resolved" /\ mmr =>
    /\ result = picked /\ IsInjective([i \in DOMAIN result |-> result[i].key])
    /\ Len(result) = Smaller(k, Cardinality(FoundIds))

(* The error of a fetch is thrown when nothing is under way any more,     *)
(* names every id of every request that was answered, and a persistent     *)
(* failure has cost at most as many requests as may be in flight at once.  *)
FoundComplete ==
  pc = "thrown" /\ failure # {} =>
    /\ UnderWay = {} /\ foundIds = FoundIds
    /\ \A r \in failure : status[r] = "failed"
    /\ Cardinality({r \in Requests : status[r] = "failed"}) <= MaxConcurrent

=============================================================================
