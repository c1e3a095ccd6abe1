------------------------ MODULE EmbedPipelineProofs ------------------------
(***************************************************************************)
(* EmbedPipeline for any batches and any width of the window: its type     *)
(* invariant, that the first batch is written whole before a later one is  *)
(* embedded, that a batch is embedded only while a slot is free for it,    *)
(* that a signal stops the write it arrives before, and that the call      *)
(* keeps what PartialWrite promises.                                       *)
(***************************************************************************)
EXTENDS MCPartialWrites, SequenceTheorems, FiniteSetTheorems, WellFoundedInduction, TLAPS

(* Where the window's lemmas are.                                          *)
R == INSTANCE BatchedRunProofs

(* The batches end where the requests end.                                 *)
InputInv == last \in Inputs /\ total = last[Len(last)]

BeginInv == pc \in {"begin", "embeddingFirst"} =>
  /\ \A r \in Requests : status[r] = "new"
  /\ launched = <<>> /\ inFlight = {} /\ failure = {} /\ ~waiting
  /\ next = 1 /\ batch = 1

(* The first batch's requests are launched outside the window, each after  *)
(* the one before went well.                                               *)
FirstInv == pc = "first" =>
  /\ next \in 2..(last[1] + 1) /\ batch = 1
  /\ \A r \in 1..(next - 2) : status[r] = "ok"
  /\ status[next - 1] # "new" /\ \A r \in Requests : r >= next => status[r] = "new"
  /\ launched = <<>> /\ inFlight = {} /\ ~waiting
  /\ failure = {} <=> status[next - 1] # "failed"

LoopInv == pc \in {"feeding", "embedding", "settling"} =>
  /\ batch \in 1..Len(last)
  /\ next \in (last[1] + 1)..(total + 1) /\ Fed(last[1], next)
  /\ pc # "settling" /\ ~waiting => Cardinality(inFlight) < MaxConcurrent
  /\ pc = "embedding" => ~waiting /\ next <= total
  /\ pc = "settling" => next = total + 1 \/ failure # {}

FirstWritten == batch > 1 => \A r \in 1..last[1] : status[r] = "ok"

EndInv ==
  /\ pc \in Ended => UnderWay = {}
  /\ pc \notin Ended => report = <<>>

IInv == TypeOK /\ InputInv /\ BeginInv /\ FirstInv /\ LoopInv /\ FirstWritten /\ EndInv
-----------------------------------------------------------------------------
(* The window *)

LEMMA SlotsAreFinite ==
  ASSUME NEW S \in SUBSET Requests
  PROVE  IsFiniteSet(S) /\ Cardinality(S) \in Nat
BY R!SlotsAreFinite, WindowAssumption
   DEF Requests, R!Requests, IsFiniteSet, R!IsFiniteSet, Cardinality, R!Cardinality

LEMMA Recorded ==
  ASSUME WindowTypeOK, NEW e \in Requests \cup {NotARequest}, Record(e)
  PROVE  failure' \in SUBSET (Requests \cup {NotARequest}) /\ Cardinality(failure') <= 1
BY R!Recorded, WindowAssumption
   DEF WindowTypeOK, R!WindowTypeOK, Requests, R!Requests, NotARequest, R!NotARequest,
       Cardinality, R!Cardinality, Record, R!Record

LEMMA LaunchTypes ==
  ASSUME WindowTypeOK, NEW r \in Requests, Launch(r), UNCHANGED <<total, failure, fired>>
  PROVE  WindowTypeOK'
BY R!LaunchTypes, WindowAssumption
   DEF WindowTypeOK, R!WindowTypeOK, Requests, R!Requests, NotARequest, R!NotARequest,
       Cardinality, R!Cardinality, Becomes, R!Becomes, Launch, R!Launch

LEMMA MoveTypes ==
  ASSUME WindowTypeOK, NEW r \in Requests, Moves(r) \/ Served(r), total' = total
  PROVE  WindowTypeOK'
BY R!MoveTypes, WindowAssumption
   DEF WindowTypeOK, R!WindowTypeOK, Requests, R!Requests, NotARequest, R!NotARequest,
       Cardinality, R!Cardinality, windowVars, R!windowVars, Becomes, R!Becomes,
       Record, R!Record, Moves, R!Moves, Served, R!Served, Request, R!Request, Send,
       R!Send, Succeed, R!Succeed, Fail, R!Fail, EnsureFails, R!EnsureFails, Reject,
       R!Reject, Finish, R!Finish

LEMMA LaunchMeans ==
  ASSUME WindowTypeOK, NEW r \in Requests, status[r] = "new", Becomes(r, "launched")
  PROVE  /\ r \notin UnderWay \cup Confirmed
         /\ UnderWay' = UnderWay \cup {r} /\ Confirmed' = Confirmed
BY R!LaunchMeans, WindowAssumption
   DEF WindowTypeOK, R!WindowTypeOK, Requests, R!Requests, NotARequest, R!NotARequest,
       Cardinality, R!Cardinality, Becomes, R!Becomes, UnderWay, R!UnderWay, Confirmed,
       R!Confirmed

LEMMA MoveMeans ==
  ASSUME WindowTypeOK, NEW r \in Requests, Moves(r) \/ Served(r)
  PROVE  \/ UNCHANGED <<UnderWay, Confirmed, failure>>
         \/ /\ r \in UnderWay /\ UnderWay' = UnderWay \ {r}
            /\ \/ Confirmed' = Confirmed \cup {r} /\ failure' = failure
               \/ Confirmed' = Confirmed /\ failure' = IF failure = {} THEN {r} ELSE failure
BY R!MoveMeans, WindowAssumption
   DEF WindowTypeOK, R!WindowTypeOK, Requests, R!Requests, NotARequest, R!NotARequest,
       Cardinality, R!Cardinality, windowVars, R!windowVars, Becomes, R!Becomes,
       Record, R!Record, Moves, R!Moves, Served, R!Served, Request, R!Request, Send,
       R!Send, Succeed, R!Succeed, Fail, R!Fail, EnsureFails, R!EnsureFails, Reject,
       R!Reject, Finish, R!Finish, UnderWay, R!UnderWay, Confirmed, R!Confirmed

LEMMA FedLaunches ==
  ASSUME WindowTypeOK, NEW base \in Nat, NEW n \in Requests, base < n, Fed(base, n),
         Cardinality(inFlight) < MaxConcurrent, Launch(n), failure' = failure
  PROVE  Fed(base, n + 1)' /\ (~waiting' => Cardinality(inFlight') < MaxConcurrent)
BY R!FedLaunches, WindowAssumption
   DEF WindowTypeOK, R!WindowTypeOK, Requests, R!Requests, NotARequest, R!NotARequest,
       Cardinality, R!Cardinality, Becomes, R!Becomes, Launch, R!Launch, UnderWay,
       R!UnderWay, Fed, R!Fed

LEMMA FedMoves ==
  ASSUME WindowTypeOK, NEW base \in Nat, NEW n \in Nat, base < n, Fed(base, n),
         NEW r \in Requests, Moves(r) \/ Served(r)
  PROVE  /\ Fed(base, n)'
         /\ Cardinality(inFlight') < MaxConcurrent \/ UNCHANGED <<inFlight, waiting>>
BY R!FedMoves, WindowAssumption
   DEF WindowTypeOK, R!WindowTypeOK, Requests, R!Requests, NotARequest, R!NotARequest,
       Cardinality, R!Cardinality, windowVars, R!windowVars, Becomes, R!Becomes,
       Record, R!Record, Moves, R!Moves, Served, R!Served, Request, R!Request, Send,
       R!Send, Succeed, R!Succeed, Fail, R!Fail, EnsureFails, R!EnsureFails, Reject,
       R!Reject, Finish, R!Finish, UnderWay, R!UnderWay, Fed, R!Fed

LEMMA InCallersOrder ==
  ASSUME NEW base \in Nat, NEW n \in Nat, base < n, n <= MaxTotal + 1, Fed(base, n),
         NEW first \in Seq(Nat), Len(first) = base, \A i \in 1..base : first[i] = i,
         NEW all, all = first \o Results
  PROVE  /\ all \in Seq(Requests)
         /\ \A i, j \in DOMAIN all : i < j => all[i] < all[j]
         /\ {all[i] : i \in DOMAIN all} = Confirmed
<1>1. R!Fed(base, n)
  BY DEF Fed, R!Fed, Requests, R!Requests, UnderWay, R!UnderWay, Cardinality, R!Cardinality
<1>2. R!Results = Results
  BY DEF Results, R!Results, Kept, R!Kept, Nth, R!Nth, Cardinality, R!Cardinality
<1>3. R!Confirmed = Confirmed /\ R!Requests = Requests
  BY DEF Confirmed, R!Confirmed, Requests, R!Requests
<1>4. /\ all \in Seq(R!Requests)
      /\ \A i, j \in DOMAIN all : i < j => all[i] < all[j]
      /\ {all[i] : i \in DOMAIN all} = R!Confirmed
  <2>1. all = first \o R!Results
    BY <1>2
  <2>2. QED
    BY <1>1, <2>1, WindowAssumption, R!InCallersOrder, Zenon
<1>5. QED
  BY <1>3, <1>4

-----------------------------------------------------------------------------
(* The inputs *)

(* A set of numbers that has a member has a smallest one.                  *)
LEMMA Smallest ==
  ASSUME NEW S \in SUBSET Nat, S # {}
  PROVE  \E x \in S : \A y \in S : x <= y
<1> DEFINE Less == {p \in Nat \X Nat : p[1] < p[2]}
<1>1. OpToRel(<, Nat) = Less
  BY Zenon DEF OpToRel
<1>2. IsWellFoundedOn(Less, Nat)
  BY <1>1, NatLessThanWellFounded, Zenon
<1> HIDE DEF Less
<1>3. PICK x \in S : \A y \in S : ~(<<y, x>> \in Less)
  BY <1>2, WFMin
<1>4. \A y \in S : x <= y
  <2> TAKE y \in S
  <2>1. x \in Nat /\ y \in Nat
    OBVIOUS
  <2>2. ~(y < x)
    BY <1>3, <2>1 DEF Less
  <2>3. QED
    BY <2>1, <2>2
<1>5. QED
  BY <1>4

(* Each batch ends after the one before it, so that none ends before the   *)
(* first one, nor after the whole input.                                   *)
LEMMA BatchesInOrder ==
  ASSUME last \in Inputs
  PROVE  /\ Len(last) \in 1..MaxBatches /\ last \in Seq(Requests)
         /\ \A b \in 1..Len(last) :
              last[b] \in Requests /\ last[1] <= last[b] /\ last[b] <= last[Len(last)]
<1>1. PICK n \in 1..MaxBatches : last \in [1..n -> Requests]
  BY DEF Inputs
<1>2. n \in Nat /\ MaxBatches \in Nat /\ MaxRuns \in Nat
  BY PipelineAssumption
<1>3. last \in Seq(Requests) /\ Len(last) = n
  <2>1. last \in UNION {[1..m -> Requests] : m \in Nat}
    BY <1>1, <1>2
  <2>2. last \in Seq(Requests)
    BY <2>1, SeqDef
  <2>3. QED
    BY <1>1, <1>2, <2>2, LenProperties
<1>4. \A b \in 1..n : last[b] \in Requests /\ last[b] \in Nat
  BY <1>1, WindowAssumption DEF Requests
<1>5. \A b \in 2..n : last[b - 1] < last[b]
  <2> TAKE b \in 2..n
  <2>1. b \in DOMAIN last /\ b # 1 /\ b \in 1..n /\ b - 1 \in 1..n
    BY <1>1, <1>2
  <2>2. last[b] - last[b - 1] \in 1..MaxRuns
    BY <2>1 DEF Inputs
  <2>3. last[b] \in Nat /\ last[b - 1] \in Nat
    BY <1>4, <2>1
  <2>4. QED
    BY <1>2, <2>2, <2>3
<1>6. \A a, b \in 1..n : a <= b => last[a] <= last[b]
  <2> DEFINE bad == {b \in 1..n : \E a \in 1..n : a <= b /\ ~(last[a] <= last[b])}
  <2> SUFFICES ASSUME bad # {} PROVE FALSE
    OBVIOUS
  <2>1. bad \in SUBSET Nat
    BY <1>2
  <2>2. PICK b \in bad : \A c \in bad : b <= c
    <3> HIDE DEF bad
    <3>1. QED
      BY <2>1, Smallest
  <2>3. PICK a \in 1..n : a <= b /\ ~(last[a] <= last[b])
    OBVIOUS
  <2>4. b \in 1..n /\ a \in Nat /\ b \in Nat /\ last[a] \in Nat /\ last[b] \in Nat
    BY <1>2, <1>4
  <2>5. a # b
    BY <2>3, <2>4
  <2>6. b \in 2..n /\ b - 1 \in 1..n /\ a <= b - 1 /\ ~(b <= b - 1)
    BY <1>2, <2>3, <2>4, <2>5
  <2>7. last[a] <= last[b - 1]
    BY <2>2, <2>6
  <2>8. last[b - 1] \in Nat /\ last[b - 1] < last[b]
    BY <1>4, <1>5, <2>6
  <2>9. QED
    BY <2>3, <2>4, <2>7, <2>8
<1>7. \A b \in 1..n : 1 \in 1..n /\ n \in 1..n /\ 1 <= b /\ b <= n
  BY <1>2
<1>8. QED
  BY <1>3, <1>4, <1>6, <1>7

(* The numbers every step below counts with.                               *)
LEMMA Sizes ==
  ASSUME InputInv
  PROVE  /\ MaxTotal \in Nat /\ MaxConcurrent \in Nat /\ MaxConcurrent > 0
         /\ MaxBatches \in Nat /\ IsFiniteSet({}) /\ Cardinality({}) = 0
         /\ Len(last) \in Nat /\ Len(last) >= 1 /\ Len(last) <= MaxBatches
         /\ total \in Nat /\ total <= MaxTotal
         /\ last[1] \in Nat /\ 1 <= last[1] /\ last[1] <= total
         /\ 1 \in Requests /\ last \in Seq(Requests)
         /\ \A b \in 1..Len(last) : last[b] \in Nat /\ last[b] <= total
<1>1. MaxTotal \in Nat /\ MaxConcurrent \in Nat /\ MaxConcurrent > 0 /\ MaxBatches \in Nat
  BY WindowAssumption, PipelineAssumption
<1>2. /\ Len(last) \in 1..MaxBatches /\ last \in Seq(Requests) /\ total = last[Len(last)]
      /\ \A b \in 1..Len(last) :
           last[b] \in Requests /\ last[1] <= last[b] /\ last[b] <= last[Len(last)]
  BY BatchesInOrder DEF InputInv
<1>3. 1 \in 1..Len(last) /\ Len(last) \in 1..Len(last)
  BY <1>1, <1>2
<1>4. last[1] \in Requests /\ total \in Requests /\ last[1] <= total
  BY <1>2, <1>3
<1>5. QED
  BY <1>1, <1>2, <1>3, <1>4, FS_EmptySet DEF Requests

LEMMA InitInv == Init => IInv
<1> SUFFICES ASSUME Init PROVE IInv
  OBVIOUS
<1>1. /\ status = [r \in Requests |-> "new"] /\ fired = FALSE /\ waiting = FALSE
      /\ launched = <<>> /\ report = <<>> /\ inFlight = {} /\ failure = {}
      /\ next = 1 /\ pc = "begin" /\ batch = 1
  BY DEF Init, WindowInit
<1>2. InputInv
  BY DEF Init, InputInv
<1>3. TypeOK
  <2>1. <<>> \in Seq(Requests) /\ Cardinality(failure) <= 1
    BY <1>1, <1>2, Sizes
  <2>2. status \in [Requests -> {"new", "launched", "sent", "ok", "failed"}] /\ total \in 0..MaxTotal
    BY <1>1, <1>2, Sizes
  <2>3. WindowTypeOK
    BY <1>1, <2>1, <2>2 DEF WindowTypeOK
  <2>4. 1 \in 1..(MaxTotal + 1) /\ 1 \in 1..MaxBatches /\ last \in Seq(Requests)
    BY <1>2, Sizes
  <2>5. QED
    BY <1>1, <2>1, <2>3, <2>4 DEF TypeOK
<1>4. BeginInv /\ FirstInv /\ LoopInv /\ FirstWritten /\ EndInv
  BY <1>1 DEF BeginInv, FirstInv, LoopInv, FirstWritten, EndInv, Ended
<1>5. QED
  BY <1>2, <1>3, <1>4 DEF IInv

(* A call refused before its first request.                                *)
LEMMA BeginStep ==
  ASSUME IInv, Begin
  PROVE  /\ IInv' /\ UNCHANGED <<total, UnderWay, Confirmed, report>>
         /\ \/ pc' \notin Ended /\ UNCHANGED failure
            \/ /\ pc' = "thrown" /\ UnderWay = {} /\ Confirmed = {}
               /\ failure = {} /\ failure' = {NotARequest}
<1> USE DEF windowVars
<1>1. /\ pc = "begin" /\ TypeOK /\ InputInv /\ BeginInv /\ FirstWritten /\ EndInv
      /\ UNCHANGED <<total, status, launched, inFlight, waiting, fired, last, batch, next, report>>
  BY DEF Begin, IInv
<1>2. failure' \in SUBSET (Requests \cup {NotARequest}) /\ Cardinality(failure') <= 1
  BY <1>1, Recorded DEF Begin, TypeOK, WindowTypeOK
<1>3. pc' \in {"thrown", "embeddingFirst"}
  BY DEF Begin
<1>4. UnderWay = {} /\ Confirmed = {} /\ UNCHANGED <<UnderWay, Confirmed>> /\ failure = {}
  BY <1>1 DEF UnderWay, Confirmed, BeginInv
<1>5. \/ pc' = "embeddingFirst" /\ UNCHANGED failure
      \/ pc' = "thrown" /\ failure' = {NotARequest}
  BY <1>4 DEF Begin, Record
<1>6. TypeOK' /\ InputInv'
  BY <1>1, <1>2, <1>3 DEF TypeOK, WindowTypeOK, InputInv, Ended
<1>7. BeginInv' /\ FirstInv' /\ LoopInv' /\ FirstWritten' /\ EndInv'
  BY <1>1, <1>4, <1>5 DEF BeginInv, FirstInv, LoopInv, FirstWritten, EndInv, Ended
<1>8. QED
  BY <1>1, <1>4, <1>5, <1>6, <1>7 DEF IInv, Ended

LEMMA EmbedFirstStep ==
  ASSUME IInv, EmbedFirst
  PROVE  /\ IInv' /\ UNCHANGED <<total, report>> /\ pc \notin Ended
         /\ \/ /\ failure = {} /\ UNCHANGED failure /\ pc' \notin Ended
               /\ 1 \in (1..total) \ (UnderWay \cup Confirmed)
               /\ UnderWay' = UnderWay \cup {1} /\ Confirmed' = Confirmed
            \/ /\ pc' = "thrown" /\ UnderWay = {} /\ Confirmed = {}
               /\ UNCHANGED <<UnderWay, Confirmed>>
               /\ failure = {} /\ failure' = {NotARequest}
<1> USE DEF windowVars
<1>1. /\ pc = "embeddingFirst" /\ TypeOK /\ InputInv /\ BeginInv /\ FirstWritten /\ EndInv
      /\ UNCHANGED <<total, launched, inFlight, waiting, fired, last, batch, report>>
      /\ next = 1 /\ batch = 1 /\ failure = {} /\ \A r \in Requests : status[r] = "new"
  BY DEF EmbedFirst, IInv, BeginInv
<1>2. /\ 1 \in Requests /\ 1 \in 1..total /\ 2 \in 2..(last[1] + 1) /\ 2 \in 1..(MaxTotal + 1)
      /\ total \in Nat /\ last[1] \in Nat /\ MaxTotal \in Nat
  BY <1>1, Sizes
<1>3. InputInv' /\ pc \notin Ended
  BY <1>1 DEF InputInv, Ended
<1>4. CASE pc' = "first" /\ Becomes(1, "launched") /\ next' = 2 /\ UNCHANGED failure
  <2>1. /\ status' \in [Requests -> {"new", "launched", "sent", "ok", "failed"}]
        /\ status'[1] = "launched" /\ \A r \in Requests : r >= 2 => status'[r] = "new"
    BY <1>1, <1>2, <1>4 DEF Becomes, TypeOK, WindowTypeOK, Requests
  <2>2. TypeOK'
    BY <1>1, <1>2, <1>4, <2>1 DEF TypeOK, WindowTypeOK
  <2>3. FirstInv'
    <3>1. next' - 2 = 0 /\ next' - 1 = 1
      BY <1>4
    <3>2. QED
      BY <1>1, <1>2, <1>4, <2>1, <3>1 DEF FirstInv, BeginInv
  <2>4. BeginInv' /\ LoopInv' /\ FirstWritten' /\ EndInv'
    BY <1>1, <1>4 DEF BeginInv, LoopInv, FirstWritten, EndInv, Ended
  <2>5. /\ 1 \notin UnderWay \cup Confirmed
        /\ UnderWay' = UnderWay \cup {1} /\ Confirmed' = Confirmed
    BY <1>1, <1>2, <1>4, LaunchMeans DEF TypeOK
  <2>6. QED
    BY <1>1, <1>2, <1>3, <1>4, <2>2, <2>3, <2>4, <2>5 DEF IInv, Ended
<1>5. CASE pc' = "thrown" /\ Record(NotARequest) /\ UNCHANGED <<status, next>>
  <2>1. /\ failure' \in SUBSET (Requests \cup {NotARequest}) /\ Cardinality(failure') <= 1
        /\ failure' = {NotARequest}
    BY <1>1, <1>5, Recorded DEF TypeOK, Record
  <2>2. UnderWay = {} /\ Confirmed = {} /\ UNCHANGED <<UnderWay, Confirmed>>
    BY <1>1, <1>5 DEF UnderWay, Confirmed
  <2>3. TypeOK'
    BY <1>1, <1>5, <2>1 DEF TypeOK, WindowTypeOK, Ended
  <2>4. BeginInv' /\ FirstInv' /\ LoopInv' /\ FirstWritten' /\ EndInv'
    BY <1>1, <1>5, <2>2 DEF BeginInv, FirstInv, LoopInv, FirstWritten, EndInv, Ended
  <2>5. QED
    BY <1>1, <1>3, <1>5, <2>1, <2>2, <2>3, <2>4 DEF IInv
<1>6. QED
  BY <1>4, <1>5 DEF EmbedFirst

(* While the first batch is written, at most its last launched request is  *)
(* not over.                                                               *)
LEMMA WrittenInTurn ==
  ASSUME TypeOK, InputInv, FirstInv, pc = "first"
  PROVE  /\ next - 1 \in Requests /\ next - 1 \in Nat /\ next - 2 \in Nat /\ next <= total + 1
         /\ UnderWay \subseteq {next - 1} /\ Confirmed \subseteq 1..(next - 1)
         /\ 1..(next - 2) \subseteq Confirmed
<1>1. /\ next \in 2..(last[1] + 1) /\ last[1] \in Nat /\ last[1] <= total
      /\ total <= MaxTotal /\ MaxTotal \in Nat /\ total \in Nat
  BY Sizes DEF FirstInv
<1>2. next - 1 \in Requests /\ next - 1 \in Nat /\ next - 2 \in Nat /\ next <= total + 1
  BY <1>1 DEF Requests
<1>3. \A r \in Requests : r \in 1..(next - 2) \/ r = next - 1 \/ r >= next
  BY <1>1 DEF Requests
<1>4. UnderWay \subseteq {next - 1} /\ Confirmed \subseteq 1..(next - 1)
  <2>1. \A r \in UnderWay : r = next - 1
    BY <1>3 DEF UnderWay, FirstInv
  <2>2. \A r \in Confirmed : r \in 1..(next - 1)
    BY <1>1, <1>3 DEF Confirmed, FirstInv, Requests
  <2>3. QED
    BY <2>1, <2>2
<1>5. \A r \in 1..(next - 2) : r \in Requests
  BY <1>1 DEF Requests
<1>6. QED
  BY <1>2, <1>4, <1>5 DEF FirstInv, Confirmed

LEMMA FirstSettlesStep ==
  ASSUME IInv, FirstSettles
  PROVE  /\ IInv' /\ UNCHANGED <<total, failure>> /\ pc \notin Ended
         /\ \/ /\ failure = {} /\ pc' \notin Ended /\ UNCHANGED report
               /\ \/ UNCHANGED <<UnderWay, Confirmed>>
                  \/ \E r \in (1..total) \ (UnderWay \cup Confirmed) :
                       UnderWay' = UnderWay \cup {r} /\ Confirmed' = Confirmed
            \/ /\ failure # {} /\ pc' = "thrown" /\ UnderWay = {}
               /\ UNCHANGED <<UnderWay, Confirmed>>
               /\ \A i, j \in DOMAIN report' : i < j => report'[i] < report'[j]
               /\ {report'[i] : i \in DOMAIN report'} = Confirmed
<1> USE DEF windowVars
<1>1. /\ pc = "first" /\ TypeOK /\ InputInv /\ FirstInv /\ EndInv /\ pc \notin Ended
      /\ UNCHANGED <<total, launched, inFlight, waiting, failure, fired, last, batch>>
  BY DEF FirstSettles, IInv, Ended
<1>2. /\ total \in Nat /\ last[1] \in Nat /\ MaxTotal \in Nat /\ next \in Nat
      /\ 1 <= last[1] /\ last[1] <= total /\ total <= MaxTotal
      /\ next \in 2..(last[1] + 1) /\ next <= MaxTotal + 1 /\ batch = 1
  BY <1>1, Sizes DEF FirstInv
<1>3. /\ next - 1 \in Requests /\ next - 2 \in Nat
      /\ UnderWay \subseteq {next - 1} /\ Confirmed \subseteq 1..(next - 1)
      /\ 1..(next - 2) \subseteq Confirmed
  BY <1>1, WrittenInTurn
<1>4. InputInv' /\ FirstWritten'
  BY <1>1, <1>2 DEF InputInv, FirstWritten
<1>5. ASSUME status[next - 1] = "ok"
      PROVE  failure = {} /\ UnderWay = {} /\ \A r \in 1..(next - 1) : status[r] = "ok"
  <2>1. \A r \in 1..(next - 1) : r \in 1..(next - 2) \/ r = next - 1
    BY <1>2
  <2>2. QED
    BY <1>1, <1>3, <1>5, <2>1 DEF FirstInv, UnderWay
<1>6. CASE /\ status[next - 1] = "ok" /\ next <= last[1]
           /\ Becomes(next, "launched") /\ next' = next + 1 /\ UNCHANGED <<pc, report>>
  <2>1. /\ next \in Requests /\ next \in 1..total /\ status[next] = "new"
        /\ next + 1 \in 2..(last[1] + 1) /\ next + 1 \in 1..(MaxTotal + 1)
    BY <1>1, <1>2, <1>6 DEF Requests, FirstInv
  <2>2. /\ status' \in [Requests -> {"new", "launched", "sent", "ok", "failed"}]
        /\ status'[next] = "launched" /\ \A r \in Requests : r # next => status'[r] = status[r]
    BY <1>1, <1>6, <2>1 DEF Becomes, TypeOK, WindowTypeOK
  <2>3. TypeOK'
    BY <1>1, <1>6, <2>1, <2>2 DEF TypeOK, WindowTypeOK
  <2>4. FirstInv'
    <3>1. next' - 2 = next - 1 /\ next' - 1 = next
      BY <1>2, <1>6
    <3>2. \A r \in 1..(next - 1) : r \in Requests /\ r # next
      BY <1>2 DEF Requests
    <3>3. \A r \in 1..(next' - 2) : status'[r] = "ok"
      BY <1>5, <1>6, <2>2, <3>1, <3>2
    <3>4. \A r \in Requests : r >= next' => r >= next /\ r # next
      BY <1>2, <1>6 DEF Requests
    <3>5. \A r \in Requests : r >= next' => status'[r] = "new"
      BY <1>1, <2>2, <3>4 DEF FirstInv
    <3>6. status'[next' - 1] = "launched" /\ failure' = {}
      BY <1>1, <1>5, <1>6, <2>2, <3>1
    <3>7. QED
      BY <1>1, <1>2, <1>6, <2>1, <3>3, <3>5, <3>6 DEF FirstInv
  <2>5. BeginInv' /\ LoopInv' /\ EndInv'
    BY <1>1, <1>6 DEF BeginInv, LoopInv, EndInv, Ended
  <2>6. /\ next \notin UnderWay \cup Confirmed
        /\ UnderWay' = UnderWay \cup {next} /\ Confirmed' = Confirmed
    BY <1>1, <1>6, <2>1, LaunchMeans DEF TypeOK
  <2>7. QED
    BY <1>1, <1>4, <1>5, <1>6, <2>1, <2>3, <2>4, <2>5, <2>6 DEF IInv
<1>7. CASE /\ status[next - 1] = "ok" /\ next > last[1]
           /\ pc' = "feeding" /\ UNCHANGED <<status, next, report>>
  <2>1. next = last[1] + 1
    BY <1>2, <1>7
  <2>2. TypeOK' /\ UNCHANGED <<UnderWay, Confirmed>>
    BY <1>1, <1>7 DEF TypeOK, WindowTypeOK, UnderWay, Confirmed
  <2>3. LoopInv'
    <3>1. launched' = [i \in 1..(next - 1 - last[1]) |-> i + last[1]]
      <4>1. next - 1 - last[1] = 0
        BY <1>2, <2>1
      <4>2. QED
        BY <1>1, <4>1 DEF FirstInv
    <3>2. \A r \in 1..last[1] : status[r] = "ok"
      <4>1. next - 1 = last[1]
        BY <1>2, <2>1
      <4>2. QED
        BY <1>5, <1>7, <4>1
    <3>3. \A r \in Requests : r \in 1..last[1] \/ r >= next
      BY <1>2, <2>1 DEF Requests
    <3>4. \A r \in 1..last[1] : ~(r >= next)
      BY <1>2, <2>1
    <3>5. \A r \in Requests : status[r] # "failed" /\ (status[r] = "new" <=> r >= next)
      BY <1>1, <3>2, <3>3, <3>4 DEF FirstInv
    <3>6. /\ inFlight' = {} /\ UnderWay' = {} /\ Cardinality(inFlight') < MaxConcurrent
          /\ Cardinality(inFlight') <= MaxConcurrent
      <4>1. inFlight' = {} /\ UnderWay' = {}
        BY <1>1, <1>5, <1>7, <2>2 DEF FirstInv
      <4>2. QED
        BY <1>1, <4>1, Sizes
    <3>7. Fed(last[1], next)'
      BY <1>1, <1>7, <3>1, <3>2, <3>5, <3>6 DEF Fed
    <3>8. batch' \in 1..Len(last') /\ next' \in (last'[1] + 1)..(total' + 1)
      BY <1>1, <1>2, <1>7, <2>1, Sizes
    <3>9. QED
      BY <1>7, <3>6, <3>7, <3>8 DEF LoopInv
  <2>4. BeginInv' /\ FirstInv' /\ EndInv'
    BY <1>1, <1>7 DEF BeginInv, FirstInv, EndInv, Ended
  <2>5. QED
    BY <1>1, <1>4, <1>5, <1>7, <2>2, <2>3, <2>4 DEF IInv, Ended
<1>8. CASE /\ status[next - 1] = "failed"
           /\ pc' = "thrown" /\ report' = Written(next - 2) /\ UNCHANGED <<status, next>>
  <2>1. failure # {} /\ UnderWay = {} /\ UNCHANGED <<UnderWay, Confirmed>>
    BY <1>1, <1>3, <1>8 DEF FirstInv, UnderWay, Confirmed
  <2>2. Confirmed = 1..(next - 2)
    <3>1. next - 1 \notin Confirmed
      BY <1>8 DEF Confirmed
    <3>2. \A r \in 1..(next - 1) : r = next - 1 \/ r \in 1..(next - 2)
      BY <1>2
    <3>3. QED
      BY <1>3, <3>1, <3>2
  <2>3. /\ report' \in Seq(Requests) /\ DOMAIN report' = 1..(next - 2)
        /\ \A i \in 1..(next - 2) : report'[i] = i
    <3>1. \A i \in 1..(next - 2) : i \in Requests
      BY <1>2 DEF Requests
    <3>2. report' \in [1..(next - 2) -> Requests] /\ next - 2 \in Nat
      BY <1>3, <1>8, <3>1 DEF Written
    <3>3. report' \in UNION {[1..m -> Requests] : m \in Nat}
      BY <3>2
    <3>4. report' \in Seq(Requests)
      BY <3>3, SeqDef
    <3>5. QED
      BY <1>8, <3>4 DEF Written
  <2>4. TypeOK'
    BY <1>1, <1>8, <2>3 DEF TypeOK, WindowTypeOK, Ended
  <2>5. BeginInv' /\ FirstInv' /\ LoopInv' /\ EndInv'
    BY <1>1, <1>8, <2>1 DEF BeginInv, FirstInv, LoopInv, EndInv, Ended
  <2>6. /\ \A i, j \in DOMAIN report' : i < j => report'[i] < report'[j]
        /\ {report'[i] : i \in DOMAIN report'} = Confirmed
    BY <2>2, <2>3
  <2>7. QED
    BY <1>1, <1>4, <1>8, <2>1, <2>4, <2>5, <2>6 DEF IInv
<1>9. QED
  BY <1>6, <1>7, <1>8 DEF FirstSettles

(* The next request is launched into the window.                           *)
LEMMA LaunchStep ==
  ASSUME IInv, pc \in {"feeding", "embedding"}, ~waiting, failure = {}, next <= total,
         Launch(next), next' = next + 1, pc' = "feeding",
         UNCHANGED <<total, failure, fired, last, batch, report>>
  PROVE  /\ IInv'
         /\ \E r \in (1..total) \ (UnderWay \cup Confirmed) :
              UnderWay' = UnderWay \cup {r} /\ Confirmed' = Confirmed
<1>1. /\ TypeOK /\ InputInv /\ LoopInv /\ FirstWritten /\ EndInv
      /\ Fed(last[1], next) /\ next \in (last[1] + 1)..(total + 1) /\ batch \in 1..Len(last)
      /\ Cardinality(inFlight) < MaxConcurrent
  BY DEF IInv, LoopInv
<1>2. /\ total \in Nat /\ last[1] \in Nat /\ MaxTotal \in Nat /\ next \in Nat
      /\ 1 <= last[1] /\ total <= MaxTotal /\ last[1] < next
      /\ next \in Requests /\ next \in 1..total
      /\ next + 1 \in (last[1] + 1)..(total + 1) /\ next + 1 \in 1..(MaxTotal + 1)
  <2>1. /\ total \in Nat /\ last[1] \in Nat /\ MaxTotal \in Nat /\ 1 <= last[1]
        /\ total <= MaxTotal
    BY <1>1, Sizes
  <2>2. next \in Nat /\ last[1] < next
    BY <1>1, <2>1
  <2>3. QED
    BY <2>1, <2>2 DEF Requests
<1>3. TypeOK'
  BY <1>1, <1>2, LaunchTypes DEF TypeOK
<1>4. Fed(last[1], next)' /\ (~waiting' => Cardinality(inFlight') < MaxConcurrent)
  <2>1. PICK n \in Requests, base \in Nat : n = next /\ base = last[1]
    BY <1>2
  <2>2. Fed(base, n)
    BY <1>1, <2>1
  <2>3. Fed(base, n + 1)' /\ (~waiting' => Cardinality(inFlight') < MaxConcurrent)
    BY <1>1, <1>2, <2>1, <2>2, FedLaunches DEF TypeOK
  <2>4. next' = n + 1 /\ last'[1] = base
    BY <2>1
  <2>5. QED
    BY <2>3, <2>4 DEF Fed
<1>5. LoopInv'
  BY <1>1, <1>2, <1>4 DEF LoopInv
<1>6. \A r \in 1..last[1] : status'[r] = "ok"
  <2>1. status'[next] = "launched" /\ last' = last
    BY <1>1, <1>2 DEF Launch, Becomes, TypeOK, WindowTypeOK
  <2>2. QED
    BY <1>4, <2>1 DEF Fed
<1>7. status[next] = "new"
  BY <1>1, <1>2 DEF Fed
<1>8. /\ next \notin UnderWay \cup Confirmed
      /\ UnderWay' = UnderWay \cup {next} /\ Confirmed' = Confirmed
  BY <1>1, <1>2, <1>7, LaunchMeans DEF TypeOK, Launch
<1>9. InputInv' /\ BeginInv' /\ FirstInv' /\ FirstWritten' /\ EndInv'
  BY <1>1, <1>6 DEF InputInv, BeginInv, FirstInv, FirstWritten, EndInv, Ended
<1>10. QED
  BY <1>2, <1>3, <1>5, <1>8, <1>9 DEF IInv

(* The loop goes on to an embedding, or leaves: no request is touched.     *)
LEMMA TurnStep ==
  ASSUME IInv, pc \in {"feeding", "embedding"},
         pc' \in {"embedding", "settling"}, batch' \in 1..Len(last),
         pc' = "embedding" => ~waiting /\ next <= total,
         UNCHANGED failure \/ Record(NotARequest),
         pc' = "settling" => next = total + 1 \/ failure' # {},
         UNCHANGED <<total, status, launched, inFlight, waiting, fired, last, next, report>>
  PROVE  /\ IInv' /\ UNCHANGED <<UnderWay, Confirmed>>
         /\ UNCHANGED failure \/ failure' = IF failure = {} THEN {NotARequest} ELSE failure
<1>1. /\ TypeOK /\ InputInv /\ LoopInv /\ FirstWritten /\ EndInv
      /\ Fed(last[1], next) /\ next \in (last[1] + 1)..(total + 1)
      /\ ~waiting => Cardinality(inFlight) < MaxConcurrent
  BY DEF IInv, LoopInv
<1>2. /\ failure' \in SUBSET (Requests \cup {NotARequest}) /\ Cardinality(failure') <= 1
      /\ failure' = {} => failure = {}
  BY <1>1, Recorded DEF TypeOK, WindowTypeOK, Record
<1>3. TypeOK' /\ UNCHANGED <<UnderWay, Confirmed>>
  <2>1. batch' \in 1..MaxBatches
    BY <1>1, Sizes
  <2>2. QED
    BY <1>1, <1>2, <2>1 DEF TypeOK, WindowTypeOK, UnderWay, Confirmed
<1>4. Fed(last[1], next)' /\ \A r \in 1..last[1] : status[r] = "ok"
  BY <1>1, <1>2, <1>3 DEF Fed
<1>5. LoopInv'
  BY <1>1, <1>4 DEF LoopInv
<1>6. InputInv' /\ BeginInv' /\ FirstInv' /\ FirstWritten' /\ EndInv'
  BY <1>1, <1>4 DEF InputInv, BeginInv, FirstInv, FirstWritten, EndInv, Ended
<1>7. QED
  BY <1>3, <1>5, <1>6 DEF IInv, Record

LEMMA FeedStep ==
  ASSUME IInv, Feed
  PROVE  /\ IInv' /\ UNCHANGED <<total, report>> /\ pc \notin Ended /\ pc' \notin Ended
         /\ \/ /\ failure = {} /\ UNCHANGED failure
               /\ \E r \in (1..total) \ (UnderWay \cup Confirmed) :
                    UnderWay' = UnderWay \cup {r} /\ Confirmed' = Confirmed
            \/ /\ UNCHANGED <<UnderWay, Confirmed>>
               /\ UNCHANGED failure \/ failure' = IF failure = {} THEN {NotARequest} ELSE failure
<1> USE DEF windowVars
<1>1. /\ pc = "feeding" /\ ~waiting /\ pc \notin Ended /\ InputInv
      /\ batch \in 1..Len(last) /\ next \in (last[1] + 1)..(total + 1)
      /\ UNCHANGED <<total, fired, last, report>>
  BY DEF Feed, IInv, LoopInv, Ended
<1>2. /\ total \in Nat /\ Len(last) \in Nat /\ next \in Nat /\ next <= total + 1
      /\ last[batch] \in Nat /\ last[batch] <= total /\ total = last[Len(last)]
  BY <1>1, Sizes DEF InputInv
<1>3. CASE /\ failure = {} /\ next <= last[batch]
           /\ Launch(next) /\ next' = next + 1 /\ UNCHANGED <<pc, batch, failure>>
  <2>1. next <= total
    BY <1>2, <1>3
  <2>2. QED
    BY <1>1, <1>3, <2>1, LaunchStep DEF Ended
<1>4. CASE /\ failure = {} /\ next > last[batch] /\ next <= total /\ batch' = batch + 1
           /\ IF fired
                THEN pc' = "settling" /\ Record(NotARequest)
                ELSE pc' = "embedding" /\ UNCHANGED failure
           /\ UNCHANGED <<status, windowVars, next>>
  <2>1. batch # Len(last)
    BY <1>2, <1>4
  <2>2. batch' \in 1..Len(last)
    BY <1>1, <1>2, <1>4, <2>1
  <2>3. pc' = "settling" => failure' # {}
    BY <1>4 DEF Record
  <2>4. pc' \in {"embedding", "settling"} /\ (UNCHANGED failure \/ Record(NotARequest))
    BY <1>4
  <2>5. QED
    BY <1>1, <1>4, <2>2, <2>3, <2>4, TurnStep DEF Ended
<1>5. CASE /\ failure # {} \/ next > total
           /\ pc' = "settling" /\ UNCHANGED <<status, windowVars, next, batch, failure>>
  <2>1. next = total + 1 \/ failure' # {}
    BY <1>2, <1>5
  <2>2. QED
    BY <1>1, <1>5, <2>1, TurnStep DEF Ended
<1>6. QED
  BY <1>3, <1>4, <1>5 DEF Feed

LEMMA EmbedStep ==
  ASSUME IInv, Embed
  PROVE  /\ IInv' /\ UNCHANGED <<total, report>> /\ pc \notin Ended /\ pc' \notin Ended
         /\ \/ /\ failure = {} /\ UNCHANGED failure
               /\ \E r \in (1..total) \ (UnderWay \cup Confirmed) :
                    UnderWay' = UnderWay \cup {r} /\ Confirmed' = Confirmed
            \/ /\ UNCHANGED <<UnderWay, Confirmed>>
               /\ UNCHANGED failure \/ failure' = IF failure = {} THEN {NotARequest} ELSE failure
<1> USE DEF windowVars
<1>1. /\ pc = "embedding" /\ pc \notin Ended /\ ~waiting /\ next <= total
      /\ batch \in 1..Len(last) /\ UNCHANGED <<total, fired, last, batch, report>>
  BY DEF Embed, IInv, LoopInv, Ended
<1>2. CASE /\ ~fired /\ failure = {}
           /\ Launch(next) /\ next' = next + 1 /\ pc' = "feeding" /\ UNCHANGED failure
  BY <1>1, <1>2, LaunchStep DEF Ended
<1>3. CASE /\ ~fired /\ failure # {}
           /\ pc' = "settling" /\ UNCHANGED <<status, windowVars, next, failure>>
  BY <1>1, <1>3, TurnStep DEF Ended
<1>4. CASE /\ pc' = "settling" /\ Record(NotARequest) /\ UNCHANGED <<status, windowVars, next>>
  <2>1. failure' # {}
    BY <1>4 DEF Record
  <2>2. QED
    BY <1>1, <1>4, <2>1, TurnStep DEF Ended
<1>5. QED
  BY <1>2, <1>3, <1>4 DEF Embed

LEMMA SettleStep ==
  ASSUME IInv, Settle
  PROVE  /\ IInv' /\ UNCHANGED <<total, UnderWay, Confirmed, failure>>
         /\ UnderWay = {} /\ pc \notin Ended
         /\ \/ /\ failure = {} /\ Confirmed = 1..total
               /\ pc' = "resolved" /\ UNCHANGED report
            \/ /\ failure # {} /\ pc' = "thrown"
               /\ \A i, j \in DOMAIN report' : i < j => report'[i] < report'[j]
               /\ {report'[i] : i \in DOMAIN report'} = Confirmed
<1> USE DEF windowVars
<1>1. /\ pc = "settling" /\ TypeOK /\ InputInv /\ LoopInv /\ FirstWritten /\ EndInv
      /\ inFlight = {} /\ pc \notin Ended
      /\ UNCHANGED <<total, status, launched, inFlight, waiting, failure, fired>>
      /\ UNCHANGED <<last, batch, next>>
  BY DEF Settle, IInv, AllFinished, Ended
<1>2. /\ total \in Nat /\ total <= MaxTotal /\ MaxTotal \in Nat
      /\ last[1] \in Nat /\ last[1] <= total /\ Fed(last[1], next)
      /\ next \in Nat /\ last[1] < next /\ next <= total + 1
      /\ next = total + 1 \/ failure # {}
  <2>1. /\ total \in Nat /\ total <= MaxTotal /\ MaxTotal \in Nat
        /\ last[1] \in Nat /\ last[1] <= total
    BY <1>1, Sizes
  <2>2. QED
    BY <1>1, <2>1 DEF LoopInv
<1>3. UnderWay = {} /\ UNCHANGED <<UnderWay, Confirmed>>
  BY <1>1, <1>2 DEF Fed, UnderWay, Confirmed
<1>4. CASE failure = {}
  <2>1. pc' = "resolved" /\ UNCHANGED report
    BY <1>4 DEF Settle
  <2>2. Confirmed = 1..total
    <3>1. \A r \in Requests : status[r] \in {"new", "launched", "sent", "ok", "failed"}
      BY <1>1 DEF TypeOK, WindowTypeOK
    <3>2. \A r \in Requests : status[r] \notin {"launched", "sent"}
      BY <1>3 DEF UnderWay
    <3>3. \A r \in Requests : status[r] = "new" <=> r >= total + 1
      BY <1>2, <1>4 DEF Fed
    <3>4. \A r \in Requests : status[r] # "failed"
      BY <1>2, <1>4 DEF Fed
    <3>5. \A r \in Requests : status[r] = "ok" <=> r <= total
      BY <1>2, <3>1, <3>2, <3>3, <3>4 DEF Requests
    <3>6. QED
      BY <1>2, <3>5 DEF Confirmed, Requests
  <2>3. TypeOK' /\ InputInv'
    BY <1>1, <2>1 DEF TypeOK, WindowTypeOK, InputInv, Ended
  <2>4. BeginInv' /\ FirstInv' /\ LoopInv' /\ FirstWritten' /\ EndInv'
    BY <1>1, <1>3, <2>1 DEF BeginInv, FirstInv, LoopInv, FirstWritten, EndInv, Ended
  <2>5. QED
    BY <1>1, <1>3, <1>4, <2>1, <2>2, <2>3, <2>4 DEF IInv
<1>5. CASE failure # {}
  <2>1. pc' = "thrown" /\ report' = Written(last[1]) \o Results
    BY <1>5 DEF Settle
  <2>2. /\ report' \in Seq(Requests)
        /\ \A i, j \in DOMAIN report' : i < j => report'[i] < report'[j]
        /\ {report'[i] : i \in DOMAIN report'} = Confirmed
    <3> DEFINE first == Written(last[1])
    <3>1. first \in Seq(Nat) /\ Len(first) = last[1] /\ \A i \in 1..last[1] : first[i] = i
      BY <1>2 DEF Written
    <3>2. report' = first \o Results
      BY <2>1
    <3> HIDE DEF first
    <3>3. PICK base \in Nat, n \in Nat, all \in {report'} : base = last[1] /\ n = next /\ all = report'
      BY <1>2
    <3>4. Fed(base, n) /\ base < n /\ n <= MaxTotal + 1 /\ all = first \o Results
      BY <1>2, <3>2, <3>3
    <3>5. first \in Seq(Nat) /\ Len(first) = base /\ \A i \in 1..base : first[i] = i
      BY <3>1, <3>3
    <3>6. /\ all \in Seq(Requests)
          /\ \A i, j \in DOMAIN all : i < j => all[i] < all[j]
          /\ {all[i] : i \in DOMAIN all} = Confirmed
      BY <3>3, <3>4, <3>5, InCallersOrder
    <3>7. QED
      BY <3>3, <3>6
  <2>3. TypeOK' /\ InputInv'
    BY <1>1, <2>1, <2>2 DEF TypeOK, WindowTypeOK, InputInv, Ended
  <2>4. BeginInv' /\ FirstInv' /\ LoopInv' /\ FirstWritten' /\ EndInv'
    BY <1>1, <1>3, <2>1 DEF BeginInv, FirstInv, LoopInv, FirstWritten, EndInv, Ended
  <2>5. QED
    BY <1>1, <1>3, <1>5, <2>1, <2>2, <2>3, <2>4 DEF IInv
<1>6. QED
  BY <1>4, <1>5

LEMMA AnswerStep ==
  ASSUME IInv, NEW r \in Requests, Answer(r), UNCHANGED <<total, callVars>>
  PROVE  /\ IInv'
         /\ \/ UNCHANGED <<UnderWay, Confirmed, failure>>
            \/ /\ r \in UnderWay /\ UnderWay' = UnderWay \ {r} /\ pc \notin Ended
               /\ \/ Confirmed' = Confirmed \cup {r} /\ failure' = failure
                  \/ Confirmed' = Confirmed /\ failure' = IF failure = {} THEN {r} ELSE failure
<1> USE DEF windowVars, callVars
<1>1. /\ TypeOK /\ InputInv /\ BeginInv /\ FirstInv /\ LoopInv /\ FirstWritten /\ EndInv
      /\ Moves(r) /\ UNCHANGED <<total, last, pc, batch, next, report>>
  BY DEF IInv, Answer, Moves
<1>2. TypeOK' /\ InputInv'
  BY <1>1, MoveTypes DEF TypeOK, InputInv
<1>3. /\ status[r] # "new"
      /\ \A q \in Requests : status'[q] = "new" <=> status[q] = "new"
      /\ \A q \in Requests : status[q] = "ok" => status'[q] = "ok"
  BY <1>1 DEF Moves, Request, Send, Succeed, Fail, EnsureFails, Reject, Finish, Becomes,
              TypeOK, WindowTypeOK
<1>4. BeginInv'
  BY <1>1, <1>3 DEF BeginInv
<1>5. FirstInv'
  <2> SUFFICES ASSUME pc = "first" PROVE FirstInv'
    BY <1>1 DEF FirstInv
  <2>1. /\ last[1] \in Nat /\ MaxTotal \in Nat /\ next \in 2..(last[1] + 1)
        /\ last[1] <= total /\ total <= MaxTotal /\ total \in Nat
    BY <1>1, Sizes DEF FirstInv
  <2>2. \A q \in 1..(next - 2) : q \in Requests
    BY <2>1 DEF Requests
  <2>3. \A q \in 1..(next - 2) : status'[q] = "ok"
    BY <1>1, <1>3, <2>2 DEF FirstInv
  <2>4. next - 1 \in Requests
    BY <2>1 DEF Requests
  <2>5. status'[next - 1] # "new" /\ \A q \in Requests : q >= next => status'[q] = "new"
    BY <1>1, <1>3, <2>4 DEF FirstInv
  <2>6. ~Finish(r)
    BY <1>1 DEF FirstInv, Finish
  <2>7. r \in UnderWay
    BY <1>1, <2>6 DEF Moves, Request, Send, Succeed, Fail, EnsureFails, UnderWay
  <2>8. r = next - 1
    BY <1>1, <2>7, WrittenInTurn
  <2>9. /\ UNCHANGED <<launched, inFlight, waiting>>
        /\ \/ failure' = failure /\ status'[r] \in {"sent", "ok"}
           \/ failure' # {} /\ status'[r] = "failed"
    BY <1>1, <2>6 DEF Moves, Request, Send, Succeed, Fail, EnsureFails, Reject, Record, Becomes,
                      TypeOK, WindowTypeOK
  <2>10. failure = {}
    BY <1>1, <2>7, <2>8 DEF FirstInv, UnderWay
  <2>11. QED
    BY <1>1, <2>3, <2>5, <2>8, <2>9, <2>10 DEF FirstInv
<1>6. LoopInv'
  <2> SUFFICES ASSUME pc \in {"feeding", "embedding", "settling"} PROVE LoopInv'
    BY <1>1 DEF LoopInv
  <2>1. /\ Fed(last[1], next) /\ last[1] \in Nat /\ next \in Nat /\ last[1] < next
        /\ next \in (last[1] + 1)..(total + 1)
    BY <1>1, Sizes DEF LoopInv, TypeOK
  <2>2. PICK base \in Nat, n \in Nat : base = last[1] /\ n = next
    BY <2>1
  <2>3. /\ Fed(base, n)'
        /\ Cardinality(inFlight') < MaxConcurrent \/ UNCHANGED <<inFlight, waiting>>
    <3>1. Fed(base, n) /\ base < n
      BY <2>1, <2>2
    <3>2. QED
      BY <1>1, <3>1, FedMoves DEF TypeOK
  <2>4. Fed(last[1], next)'
    BY <1>1, <2>2, <2>3 DEF Fed
  <2>5. failure # {} => failure' # {}
    BY <1>1 DEF Moves, Request, Send, Succeed, Fail, EnsureFails, Reject, Record, Finish
  <2>6. ~waiting => ~waiting'
    BY <1>1 DEF Moves, Request, Send, Succeed, Fail, EnsureFails, Reject, Finish
  <2>7. QED
    BY <1>1, <2>1, <2>3, <2>4, <2>5, <2>6 DEF LoopInv
<1>7. FirstWritten'
  <2>1. \A q \in 1..last[1] : q \in Requests
    BY <1>1, Sizes DEF Requests
  <2>2. QED
    BY <1>1, <1>3, <2>1 DEF FirstWritten
<1>8. \/ UNCHANGED <<UnderWay, Confirmed, failure>>
      \/ /\ r \in UnderWay /\ UnderWay' = UnderWay \ {r} /\ pc \notin Ended
         /\ \/ Confirmed' = Confirmed \cup {r} /\ failure' = failure
            \/ Confirmed' = Confirmed /\ failure' = IF failure = {} THEN {r} ELSE failure
  BY <1>1, MoveMeans DEF EndInv, TypeOK
<1>9. EndInv'
  BY <1>1, <1>8 DEF EndInv
<1>10. QED
  BY <1>1, <1>2, <1>4, <1>5, <1>6, <1>7, <1>8, <1>9 DEF IInv

(* A step of the signal, or none.                                          *)
LEMMA OtherStep ==
  ASSUME IInv, (Fire /\ UNCHANGED <<total, callVars>>) \/ UNCHANGED vars
  PROVE  IInv' /\ UNCHANGED <<total, status, UnderWay, Confirmed, failure, pc, report>>
<1>1. UNCHANGED <<total, status, windowVars, failure, callVars>> /\ fired' \in BOOLEAN
  BY DEF Fire, vars, IInv, TypeOK, WindowTypeOK
<1>2. QED
  BY <1>1 DEF windowVars, callVars, IInv, TypeOK, WindowTypeOK, InputInv, BeginInv, FirstInv,
              LoopInv, FirstWritten, EndInv, Fed, UnderWay, Confirmed

LEMMA Inductive == IInv /\ [Next]_vars => IInv'
<1> SUFFICES ASSUME IInv, [Next]_vars PROVE IInv'
  OBVIOUS
<1>1. CASE CallStep
  BY <1>1, BeginStep, FirstSettlesStep, FeedStep, SettleStep DEF CallStep
<1>2. CASE ModelStep
  BY <1>2, EmbedFirstStep, EmbedStep DEF ModelStep
<1>3. ASSUME NEW r \in Requests, Answer(r), UNCHANGED <<total, callVars>> PROVE IInv'
  BY <1>3, AnswerStep
<1>4. CASE (Fire /\ UNCHANGED <<total, callVars>>) \/ UNCHANGED vars
  BY <1>4, OtherStep
<1>5. QED
  BY <1>1, <1>2, <1>3, <1>4 DEF Next

LEMMA Invariant == Spec => []IInv
BY InitInv, Inductive, PTL DEF Spec

-----------------------------------------------------------------------------
(* The properties *)

(* Every variable keeps its type: the batch stays one of the input's, and  *)
(* at most one failure is kept.                                            *)
THEOREM TypeCorrect == Spec => []TypeOK
<1>1. IInv => TypeOK
  BY DEF IInv
<1>2. QED
  BY <1>1, Invariant, PTL

(* A part of at most one request.                                          *)
LEMMA AtMostOne ==
  ASSUME NEW S, NEW e, S \subseteq {e}
  PROVE  IsFiniteSet(S) /\ Cardinality(S) <= 1
<1>1. IsFiniteSet({e}) /\ Cardinality({e}) = 1
  BY FS_Singleton
<1>2. QED
  BY <1>1, FS_Subset

LEMMA FirstBatchIsAlone == IInv => FirstBatchAlone
<1> SUFFICES ASSUME IInv PROVE FirstBatchAlone
  OBVIOUS
<1> DEFINE early == {r \in UnderWay : r <= last[1]}
<1>1. TypeOK /\ InputInv /\ BeginInv /\ FirstInv /\ LoopInv /\ FirstWritten /\ EndInv
  BY DEF IInv
<1>2. \E e : early \subseteq {e}
  <2>1. CASE pc \in {"begin", "embeddingFirst"} \cup Ended
    BY <1>1, <2>1 DEF BeginInv, EndInv, UnderWay
  <2>2. CASE pc = "first"
    BY <1>1, <2>2, WrittenInTurn
  <2>3. CASE pc \in {"feeding", "embedding", "settling"}
    <3>1. \A r \in UnderWay : r \in Nat /\ 1 <= r /\ last[1] \in Nat
      BY <1>1, Sizes DEF UnderWay, Requests
    <3>2. \A r \in UnderWay : r \notin 1..last[1]
      BY <1>1, <2>3 DEF LoopInv, Fed, UnderWay
    <3>3. early = {}
      BY <3>1, <3>2
    <3>4. QED
      BY <3>3
  <2>4. QED
    BY <1>1, <2>1, <2>2, <2>3 DEF TypeOK
<1>3. Cardinality(early) <= 1
  <2> HIDE DEF early
  <2>1. QED
    BY <1>2, AtMostOne
<1>4. QED
  BY <1>1, <1>3 DEF FirstBatchAlone, FirstWritten

(* For any batches: the first one is written whole, one request at a time, *)
(* before a later one is embedded or written (the index it may create is   *)
(* there by then).                                                         *)
THEOREM FirstIsAlone == Spec => []FirstBatchAlone
BY FirstBatchIsAlone, Invariant, PTL

(* For any window: while a batch is embedded a slot is kept free for its   *)
(* first request, and no more requests are under way than the caller       *)
(* allowed, the first batch's included.                                    *)
THEOREM SlotIsFree == Spec => []EmbeddingPauses
<1>1. IInv => EmbeddingPauses
  <2> SUFFICES ASSUME IInv PROVE EmbeddingPauses
    OBVIOUS
  <2>1. TypeOK /\ InputInv /\ BeginInv /\ FirstInv /\ LoopInv /\ EndInv
    BY DEF IInv
  <2>2. pc = "embedding" => Cardinality(inFlight) < MaxConcurrent
    BY <2>1 DEF LoopInv
  <2>3. Cardinality(UnderWay) <= MaxConcurrent
    <3>1. CASE pc \in {"begin", "embeddingFirst"} \cup Ended
      <4>1. UnderWay = {}
        BY <2>1, <3>1 DEF BeginInv, EndInv, UnderWay
      <4>2. QED
        BY <2>1, <4>1, Sizes
    <3>2. CASE pc = "first"
      <4>1. \E e : UnderWay \subseteq {e}
        BY <2>1, <3>2, WrittenInTurn
      <4>2. IsFiniteSet(UnderWay) /\ Cardinality(UnderWay) <= 1
        BY <4>1, AtMostOne
      <4>3. Cardinality(UnderWay) \in Nat
        BY <4>2, FS_CardinalityType
      <4>4. QED
        BY <2>1, <4>2, <4>3, Sizes
    <3>3. CASE pc \in {"feeding", "embedding", "settling"}
      <4>1. /\ UnderWay \in SUBSET inFlight /\ Cardinality(inFlight) <= MaxConcurrent
            /\ inFlight \in SUBSET Requests
        BY <2>1, <3>3 DEF LoopInv, Fed, TypeOK, WindowTypeOK
      <4>2. IsFiniteSet(inFlight) /\ Cardinality(inFlight) \in Nat
        BY <4>1, SlotsAreFinite
      <4>3. /\ Cardinality(UnderWay) <= Cardinality(inFlight) /\ IsFiniteSet(UnderWay)
        BY <4>1, <4>2, FS_Subset
      <4>4. Cardinality(UnderWay) \in Nat
        BY <4>3, FS_CardinalityType
      <4>5. QED
        BY <2>1, <4>1, <4>2, <4>3, <4>4, Sizes
    <3>4. QED
      BY <2>1, <3>1, <3>2, <3>3 DEF TypeOK
  <2>4. QED
    BY <2>2, <2>3 DEF EmbeddingPauses
<1>2. QED
  BY <1>1, Invariant, PTL

(* A signal that fires while a batch is embedded stops that batch's write, *)
(* whatever else is answered meanwhile.                                    *)
THEOREM AbortIsHeeded == Spec => AbortStopsWrite
<1> DEFINE heeded == pc = "embedding" /\ fired => status' = status \/ pc' = "embedding"
<1>1. [Next]_vars => [heeded]_vars
  <2> SUFFICES ASSUME Next, pc = "embedding", fired PROVE status' = status \/ pc' = "embedding"
    BY DEF vars
  <2>1. ~CallStep /\ ~EmbedFirst
    BY DEF CallStep, Begin, FirstSettles, Feed, Settle, EmbedFirst
  <2>2. CASE Embed
    BY <2>2 DEF Embed
  <2>3. CASE UNCHANGED callVars
    BY <2>3 DEF callVars
  <2>4. QED
    BY <2>1, <2>2, <2>3 DEF Next, ModelStep
<1>2. Spec => [][heeded]_vars
  BY <1>1, PTL DEF Spec
<1>3. QED
  BY <1>2 DEF AbortStopsWrite

-----------------------------------------------------------------------------
(* What the caller is promised *)

LEMMA PromiseInit == Init => Promise!Init
<1> SUFFICES ASSUME Init PROVE Promise!Init
  OBVIOUS
<1>1. total \in Nat
  BY InitInv, Sizes DEF IInv
<1>2. UnderWay = {} /\ Confirmed = {}
  BY DEF Init, WindowInit, UnderWay, Confirmed
<1>3. failure = {} /\ pc \notin Ended /\ report = <<>>
  BY DEF Init, WindowInit, Ended
<1>4. QED
  BY <1>1, <1>2, <1>3 DEF Promise!Init

LEMMA PromiseStep == IInv /\ [Next]_vars => [Promise!Next]_(Promise!write)
<1> SUFFICES ASSUME IInv, [Next]_vars PROVE Promise!Next \/ UNCHANGED Promise!write
  OBVIOUS
<1> USE DEF Promise!Next, Promise!write, Ended
<1>1. CASE Begin
  <2>1. pc = "begin"
    BY <1>1 DEF Begin
  <2>2. QED
    BY <1>1, <2>1, BeginStep DEF Promise!Refuse, NotARequest
<1>2. CASE EmbedFirst
  BY <1>2, EmbedFirstStep DEF Promise!Start, Promise!Refuse, NotARequest
<1>3. CASE FirstSettles
  BY <1>3, FirstSettlesStep DEF Promise!Start, Promise!Return, Promise!Ascending
<1>4. ASSUME Feed \/ Embed PROVE Promise!Next \/ UNCHANGED Promise!write
  <2>1. /\ UNCHANGED <<total, report>> /\ pc \notin Ended /\ pc' \notin Ended
        /\ \/ /\ failure = {} /\ UNCHANGED failure
              /\ \E r \in (1..total) \ (UnderWay \cup Confirmed) :
                   UnderWay' = UnderWay \cup {r} /\ Confirmed' = Confirmed
           \/ /\ UNCHANGED <<UnderWay, Confirmed>>
              /\ UNCHANGED failure \/ failure' = IF failure = {} THEN {NotARequest} ELSE failure
    BY <1>4, FeedStep, EmbedStep
  <2>2. CASE /\ failure = {} /\ UNCHANGED failure
             /\ \E r \in (1..total) \ (UnderWay \cup Confirmed) :
                  UnderWay' = UnderWay \cup {r} /\ Confirmed' = Confirmed
    BY <2>1, <2>2 DEF Promise!Start
  <2>3. CASE UNCHANGED <<UnderWay, Confirmed, failure>>
    BY <2>1, <2>3
  <2>4. CASE /\ UNCHANGED <<UnderWay, Confirmed>>
             /\ failure' = IF failure = {} THEN {NotARequest} ELSE failure
    <3>1. \A r \in UnderWay : r # 0
      BY DEF UnderWay, Requests
    <3>2. UnderWay' = UnderWay \ {0}
      BY <2>4, <3>1
    <3>3. QED
      BY <2>1, <2>4, <3>2 DEF Promise!Fail, NotARequest
  <2>5. QED
    BY <2>1, <2>2, <2>3, <2>4
<1>5. CASE Settle
  BY <1>5, SettleStep DEF Promise!Return, Promise!Ascending
<1>6. ASSUME NEW r \in Requests, Answer(r), UNCHANGED <<total, callVars>>
      PROVE  Promise!Next \/ UNCHANGED Promise!write
  <2>1. UNCHANGED <<total, pc, report>>
    BY <1>6 DEF callVars
  <2>2. QED
    BY <1>6, <2>1, AnswerStep DEF Promise!Confirm, Promise!Fail
<1>7. CASE (Fire /\ UNCHANGED <<total, callVars>>) \/ UNCHANGED vars
  BY <1>7, OtherStep
<1>8. QED
  BY <1>1, <1>2, <1>3, <1>4, <1>5, <1>6, <1>7 DEF Next, CallStep, ModelStep

(* For any batches and any window: embedAndWrite starts nothing once       *)
(* something failed, returns only when nothing is under way, and throws    *)
(* the first failure, an embedding's included, with every confirmed        *)
(* request in order.                                                       *)
THEOREM KeepsPromise == Spec => IsPartialWrite
<1>1. Spec => []IInv
  BY Invariant
<1>2. QED
  BY <1>1, PromiseInit, PromiseStep, PTL DEF Spec, IsPartialWrite, Promise!Spec

-----------------------------------------------------------------------------
(* The two paths together, as the run checks them: a call takes either the *)
(* steps of embedAndWrite or those of runBatches.                          *)

PathInv == IF last = <<>> THEN R!IInv ELSE IInv

(* BatchedRun is one module, whether the run or the proofs instantiate it. *)
LEMMA SameRun == (B!Init => R!Init) /\ (B!Next => R!Next) /\ (R!FirstAlone => B!FirstAlone)
<1> USE DEF B!Requests, R!Requests, B!windowVars, R!windowVars, B!callVars, R!callVars,
            B!Becomes, R!Becomes
<1>1. B!Init => R!Init
  BY DEF B!Init, R!Init, B!WindowInit, R!WindowInit
<1>2. B!CallStep => R!CallStep
  <2>1. B!Begin => R!Begin
    BY DEF B!Begin, R!Begin
  <2>2. B!FirstSettles => R!FirstSettles
    BY DEF B!FirstSettles, R!FirstSettles
  <2>3. B!Feed => R!Feed
    BY DEF B!Feed, R!Feed, B!Launch, R!Launch, B!Cardinality, R!Cardinality
  <2>4. B!Settle => R!Settle
    BY DEF B!Settle, R!Settle, B!AllFinished, R!AllFinished, B!Committed, R!Committed,
           B!Results, R!Results, B!Kept, R!Kept, B!Nth, R!Nth, B!Cardinality, R!Cardinality
  <2>5. QED
    BY <2>1, <2>2, <2>3, <2>4 DEF B!CallStep, R!CallStep
<1>3. ASSUME NEW r PROVE B!Answer(r) => R!Answer(r)
  BY DEF B!Answer, R!Answer, B!Request, R!Request, B!Send, R!Send, B!Succeed, R!Succeed,
         B!Fail, R!Fail, B!EnsureFails, R!EnsureFails, B!Reject, R!Reject, B!Record, R!Record,
         B!Finish, R!Finish
<1>4. B!Fire => R!Fire
  BY DEF B!Fire, R!Fire
<1>5. B!Next => R!Next
  BY <1>2, <1>3, <1>4 DEF B!Next, R!Next, B!Ended, R!Ended
<1>6. R!FirstAlone => B!FirstAlone
  BY DEF B!FirstAlone, R!FirstAlone
<1>7. QED
  BY <1>1, <1>5, <1>6

LEMMA PathHolds == AnySpec => []PathInv
<1>1. AnyInit => PathInv
  <2>1. ASSUME Init PROVE PathInv
    <3>1. IInv
      BY <2>1, InitInv
    <3>2. last # <<>>
      BY <3>1, BatchesInOrder DEF IInv, InputInv
    <3>3. QED
      BY <3>1, <3>2 DEF PathInv
  <2>2. ASSUME B!Init, last = <<>> PROVE PathInv
    BY <2>2, SameRun, R!InitInv, WindowAssumption DEF PathInv
  <2>3. QED
    BY <2>1, <2>2 DEF AnyInit
<1>2. PathInv /\ [AnyNext]_anyVars => PathInv'
  <2> SUFFICES ASSUME PathInv, [AnyNext]_anyVars PROVE PathInv'
    OBVIOUS
  <2>1. last' = last
    <3>1. Next => last' = last
      BY DEF Next, CallStep, ModelStep, Begin, FirstSettles, Feed, Settle, EmbedFirst, Embed, callVars
    <3>2. QED
      BY <3>1 DEF AnyNext, anyVars, vars, callVars, ofPipeline
  <2>2. CASE last = <<>>
    <3>1. [R!Next]_(R!vars)
      BY <2>2, SameRun
         DEF AnyNext, anyVars, vars, windowVars, callVars, R!vars, R!windowVars, R!callVars
    <3>2. QED
      BY <2>1, <2>2, <3>1, R!Inductive, WindowAssumption DEF PathInv
  <2>3. CASE last # <<>>
    <3>1. [Next]_vars
      BY <2>3 DEF AnyNext, anyVars
    <3>2. QED
      BY <2>1, <2>3, <3>1, Inductive DEF PathInv
  <2>4. QED
    BY <2>2, <2>3
<1>3. QED
  BY <1>1, <1>2, PTL DEF AnySpec

(* On either path the batch that may create the index is over and went     *)
(* well before another one is launched.                                    *)
THEOREM FirstOfBothIsAlone == AnySpec => []FirstAlone
<1>1. PathInv => FirstAlone
  <2>1. R!IInv => B!FirstAlone
    BY SameRun DEF R!IInv
  <2>2. QED
    BY <2>1, FirstBatchIsAlone DEF PathInv, FirstAlone
<1>2. QED
  BY <1>1, PathHolds, PTL

=============================================================================
