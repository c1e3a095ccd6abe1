-------------------------- MODULE BatchedRunProofs --------------------------
(***************************************************************************)
(* First what is true of the window whoever launches into it: what is      *)
(* reported is in launch order and complete, and how many slots a launch   *)
(* and a finish leave.  EmbedPipelineProofs and PaginationProofs, whose    *)
(* callers are others, cite it from here.  Then BatchedRun, for any number *)
(* of batches and any width of the window: its type invariant, that the    *)
(* batch that may create the index is alone, and that the call keeps what  *)
(* PartialWrite promises.                                                  *)
(***************************************************************************)
EXTENDS BatchedRun, SequenceTheorems, FiniteSetTheorems, TLAPS

(* A write's first batch is launched outside the window.                   *)
Base == IF serializeFirst /\ total > 0 THEN 1 ELSE 0

BeginInv == pc = "begin" =>
  /\ \A r \in Requests : status[r] = "new"
  /\ launched = <<>> /\ inFlight = {} /\ failure = {} /\ ~waiting /\ next = 1

FirstInv == pc = "first" =>
  /\ serializeFirst /\ total > 0 /\ next = 2
  /\ status[1] # "new" /\ \A r \in Requests \ {1} : status[r] = "new"
  /\ launched = <<>> /\ inFlight = {} /\ ~waiting
  /\ failure = {} => status[1] # "failed"

LoopInv == pc \in {"feeding", "settling"} =>
  /\ next \in (Base + 1)..(total + 1) /\ Fed(Base, next)
  /\ pc = "feeding" /\ ~waiting => Cardinality(inFlight) < MaxConcurrent
  /\ pc = "settling" => next = total + 1 \/ failure # {}

EndInv ==
  /\ pc \in Ended => UnderWay = {}
  /\ pc \notin Ended => report = <<>>

IInv == TypeOK /\ BeginInv /\ FirstInv /\ LoopInv /\ EndInv /\ FirstAlone
-----------------------------------------------------------------------------
(* What is reported *)

(* Counting a finite set of numbers up to each of its members numbers them *)
(* in ascending order, and reaches every one.                              *)
LEMMA NthOrders ==
  ASSUME NEW S \in SUBSET Nat, IsFiniteSet(S)
  PROVE  /\ Cardinality(S) \in Nat
         /\ \A n \in 1..Cardinality(S) : Nth(S, n) \in S
         /\ \A m, n \in 1..Cardinality(S) : m < n => Nth(S, m) < Nth(S, n)
         /\ \A x \in S : \E n \in 1..Cardinality(S) : Nth(S, n) = x
<1> DEFINE below(x) == {y \in S : y <= x}
           rank == [x \in S |-> Cardinality(below(x))]
           top == Cardinality(S)
<1>1. top \in Nat
  BY FS_CardinalityType
<1>2. \A x \in S : below(x) \in SUBSET S /\ IsFiniteSet(below(x)) /\ rank[x] \in 1..top
  <2> TAKE x \in S
  <2>1. below(x) \in SUBSET S /\ x \in below(x)
    OBVIOUS
  <2>2. IsFiniteSet(below(x)) /\ Cardinality(below(x)) <= top
    BY <2>1, FS_Subset
  <2>3. Cardinality(below(x)) \in Nat /\ Cardinality(below(x)) # 0
    BY <2>1, <2>2, FS_CardinalityType, FS_EmptySet
  <2>4. QED
    BY <1>1, <2>1, <2>2, <2>3
<1>3. \A x, y \in S : x < y => rank[x] < rank[y]
  <2> TAKE x, y \in S
  <2> HAVE x < y
  <2>1. below(x) \in SUBSET below(y) /\ y \in below(y) /\ y \notin below(x)
    <3>1. x \in Nat /\ y \in Nat /\ \A z \in S : z \in Nat
      OBVIOUS
    <3>2. \A z \in S : z <= x => z <= y
      BY <3>1
    <3>3. ~(y <= x)
      BY <3>1
    <3>4. \A z : z \in below(x) => z \in below(y)
      BY <3>2
    <3>5. y \in below(y) /\ y \notin below(x)
      BY <3>1, <3>3
    <3>6. \A z : z \in below(y) => z \in S
      OBVIOUS
    <3> HIDE DEF below
    <3>7. QED
      BY <3>4, <3>5, <3>6
  <2>2. Cardinality(below(x)) <= Cardinality(below(y)) /\ Cardinality(below(x)) # Cardinality(below(y))
    BY <1>2, <2>1, FS_Subset
  <2>3. rank[x] <= rank[y] /\ rank[x] # rank[y] /\ rank[x] \in Nat /\ rank[y] \in Nat
    BY <1>2, <2>2
  <2>4. QED
    BY <2>3
<1>4. rank \in Injection(S, 1..top)
  <2>1. rank \in [S -> 1..top]
    BY <1>2
  <2>2. \A x, y \in S : rank[x] = rank[y] => x = y
    BY <1>2, <1>3
  <2> HIDE DEF rank
  <2>3. QED
    BY <2>1, <2>2 DEF Injection, IsInjective
<1>5. rank \in Surjection(S, 1..top)
  <2>1. IsFiniteSet(1..top) /\ Cardinality(1..top) = top
    BY <1>1, FS_Interval
  <2>2. QED
    BY <1>4, <2>1, FS_Injection
<1>6. \A n \in 1..top : Nth(S, n) \in S /\ rank[Nth(S, n)] = n
  <2> TAKE n \in 1..top
  <2>1. PICK x \in S : rank[x] = n
    BY <1>5 DEF Surjection
  <2>2. \E z \in S : Cardinality(below(z)) = n
    BY <2>1
  <2>3. Nth(S, n) \in S /\ Cardinality(below(Nth(S, n))) = n
    BY <2>2 DEF Nth
  <2>4. QED
    BY <2>3
<1> HIDE DEF rank, below
<1>7. \A m, n \in 1..top : m < n => Nth(S, m) < Nth(S, n)
  <2> TAKE m, n \in 1..top
  <2> HAVE m < n
  <2>1. Nth(S, m) \in S /\ Nth(S, n) \in S /\ rank[Nth(S, m)] = m /\ rank[Nth(S, n)] = n
    BY <1>6
  <2>2. ~(Nth(S, n) < Nth(S, m)) /\ Nth(S, n) # Nth(S, m)
    <3>1. ~(n < m) /\ n # m
      BY <1>1
    <3>2. QED
      BY <1>3, <2>1, <3>1
  <2>3. Nth(S, m) \in Nat /\ Nth(S, n) \in Nat
    BY <2>1
  <2>4. QED
    BY <2>2, <2>3
<1>8. \A x \in S : \E n \in 1..top : Nth(S, n) = x
  <2> TAKE x \in S
  <2>1. /\ rank[x] \in 1..top /\ Nth(S, rank[x]) \in S
        /\ rank[Nth(S, rank[x])] = rank[x]
    BY <1>2, <1>6
  <2>2. x \in Nat /\ Nth(S, rank[x]) \in Nat /\ rank[x] \in Nat
    <3>1. \A z \in S : z \in Nat
      OBVIOUS
    <3>2. x \in Nat /\ Nth(S, rank[x]) \in Nat
      BY <2>1, <3>1
    <3>3. \A n \in 1..top : n \in Nat
      BY <1>1
    <3>4. QED
      BY <2>1, <3>2, <3>3
  <2>3. ~(x < Nth(S, rank[x])) /\ ~(Nth(S, rank[x]) < x)
    BY <1>3, <2>1, <2>2
  <2>4. QED
    BY <2>1, <2>2, <2>3
<1>9. QED
  BY <1>1, <1>6, <1>7, <1>8

LEMMA Least ==
  ASSUME NEW n \in Nat, NEW S \in SUBSET (1..n), S # {}
  PROVE  \E x \in S : \A y \in S : x <= y
<1>1. S \in SUBSET Nat /\ IsFiniteSet(S)
  <2>1. IsFiniteSet(1..n)
    BY FS_Interval
  <2>2. IsFiniteSet(S)
    BY <2>1, FS_Subset
  <2>3. QED
    BY <2>2
<1>2. Cardinality(S) \in Nat /\ Cardinality(S) # 0
  BY <1>1, FS_CardinalityType, FS_EmptySet
<1>3. 1 \in 1..Cardinality(S)
  BY <1>2
<1>4. Nth(S, 1) \in S
  BY <1>1, <1>3, NthOrders
<1>5. \A y \in S : Nth(S, 1) <= y
  <2> TAKE y \in S
  <2>1. PICK m \in 1..Cardinality(S) : Nth(S, m) = y
    BY <1>1, NthOrders
  <2>2. m = 1 \/ Nth(S, 1) < y
    <3>1. m = 1 \/ 1 < m
      BY <1>2
    <3>2. QED
      BY <1>1, <1>3, <2>1, <3>1, NthOrders
  <2>3. y \in Nat /\ Nth(S, 1) \in Nat
    BY <1>1, <1>4
  <2>4. QED
    BY <2>1, <2>2, <2>3
<1>6. QED
  BY <1>4, <1>5

(* Keeping some places of a list keeps their order, and all of them.       *)
LEMMA KeptInOrder ==
  ASSUME NEW s, NEW n \in Nat, DOMAIN s = 1..n, NEW places \in SUBSET (1..n)
  PROVE  /\ Cardinality(places) \in 0..n
         /\ DOMAIN Kept(s, places) = 1..Cardinality(places)
         /\ \A i \in 1..Cardinality(places) :
              Nth(places, i) \in places /\ Kept(s, places)[i] = s[Nth(places, i)]
         /\ \A i, j \in 1..Cardinality(places) : i < j => Nth(places, i) < Nth(places, j)
         /\ \A p \in places : \E i \in 1..Cardinality(places) : Nth(places, i) = p
<1>1. places \in SUBSET Nat /\ IsFiniteSet(places) /\ Cardinality(places) <= n
  <2>1. IsFiniteSet(1..n) /\ Cardinality(1..n) = n
    BY FS_Interval
  <2>2. IsFiniteSet(places) /\ Cardinality(places) <= Cardinality(1..n)
    BY <2>1, FS_Subset
  <2>3. QED
    BY <2>1, <2>2
<1>2. Cardinality(places) \in Nat
  BY <1>1, FS_CardinalityType
<1>3. QED
  BY <1>1, <1>2, NthOrders DEF Kept

(* The same for the callers' proofs to cite whole.                         *)
Ranked(s, n, places) ==
  /\ Cardinality(places) \in 0..n
  /\ DOMAIN Kept(s, places) = 1..Cardinality(places)
  /\ \A i \in 1..Cardinality(places) :
       Nth(places, i) \in places /\ Kept(s, places)[i] = s[Nth(places, i)]
  /\ \A i, j \in 1..Cardinality(places) : i < j => Nth(places, i) < Nth(places, j)
  /\ \A p \in places : \E i \in 1..Cardinality(places) : Nth(places, i) = p

LEMMA KeptRanked ==
  ASSUME NEW s, NEW n \in Nat, DOMAIN s = 1..n, NEW places \in SUBSET (1..n)
  PROVE  Ranked(s, n, places)
BY KeptInOrder DEF Ranked

(* Where the requests after the first `base` ones were launched in order,  *)
(* what settle reports of them are those that committed, in that order.    *)
LEMMA ResultsReported ==
  ASSUME NEW base \in Nat, NEW n \in Nat, launched = [i \in 1..n |-> i + base]
  PROVE  /\ Results \in Seq(Nat)
         /\ \A i, j \in 1..Len(Results) : i < j => Results[i] < Results[j]
         /\ {Results[i] : i \in 1..Len(Results)}
              = {r \in (base + 1)..(base + n) : status[r] = "ok"}
<1> DEFINE places == {p \in DOMAIN launched : status[launched[p]] = "ok"}
           count == Cardinality(places)
<1>1. places \in SUBSET (1..n) /\ places \in SUBSET Nat /\ IsFiniteSet(places)
  <2>1. places \in SUBSET (1..n)
    OBVIOUS
  <2>2. IsFiniteSet(1..n)
    BY FS_Interval
  <2>3. QED
    BY <2>1, <2>2, FS_Subset
<1>2. \A p \in places : launched[p] = p + base /\ p \in Nat
  BY <1>1
<1>3. Results = [i \in 1..count |-> launched[Nth(places, i)]]
  BY DEF Results, Kept
<1>4. /\ count \in Nat
      /\ \A i \in 1..count : Nth(places, i) \in places
      /\ \A i, j \in 1..count : i < j => Nth(places, i) < Nth(places, j)
      /\ \A p \in places : \E i \in 1..count : Nth(places, i) = p
  BY <1>1, NthOrders
<1>5. \A r : r \in (base + 1)..(base + n) /\ status[r] = "ok" <=> \E p \in places : r = p + base
  <2>1. ASSUME NEW r \in (base + 1)..(base + n), status[r] = "ok"
        PROVE  \E p \in places : r = p + base
    <3>1. r - base \in 1..n /\ (r - base) + base = r
      OBVIOUS
    <3>2. r - base \in places
      BY <2>1, <3>1
    <3>3. QED
      BY <3>1, <3>2
  <2>2. ASSUME NEW p \in places
        PROVE  p + base \in (base + 1)..(base + n) /\ status[p + base] = "ok"
    BY <1>1, <1>2
  <2>3. QED
    BY <2>1, <2>2
<1> HIDE DEF places, count
<1>6. Results \in Seq(Nat) /\ Len(Results) = count
  BY <1>2, <1>3, <1>4
<1>7. \A i \in 1..count : Results[i] = Nth(places, i) + base
  BY <1>2, <1>3, <1>4
<1>8. \A i, j \in 1..count : i < j => Results[i] < Results[j]
  <2> TAKE i, j \in 1..count
  <2> HAVE i < j
  <2>1. /\ Nth(places, i) \in Nat /\ Nth(places, j) \in Nat
        /\ Nth(places, i) < Nth(places, j)
    BY <1>2, <1>4
  <2>2. QED
    BY <1>7, <2>1
<1>9. {Results[i] : i \in 1..count} = {r \in (base + 1)..(base + n) : status[r] = "ok"}
  <2>1. ASSUME NEW i \in 1..count
        PROVE Results[i] \in (base + 1)..(base + n) /\ status[Results[i]] = "ok"
    BY <1>4, <1>5, <1>7
  <2>2. ASSUME NEW r \in (base + 1)..(base + n), status[r] = "ok"
        PROVE \E i \in 1..count : Results[i] = r
    BY <1>4, <1>5, <1>7, <2>2
  <2>3. QED
    BY <2>1, <2>2
<1>10. QED
  BY <1>6, <1>8, <1>9

-----------------------------------------------------------------------------
(* Types *)

LEMMA SlotsAreFinite ==
  ASSUME NEW S \in SUBSET Requests
  PROVE  IsFiniteSet(S) /\ Cardinality(S) \in Nat
<1>1. IsFiniteSet(Requests)
  BY WindowAssumption, FS_Interval DEF Requests
<1>2. QED
  BY <1>1, FS_Subset, FS_CardinalityType

LEMMA Recorded ==
  ASSUME WindowTypeOK, NEW e \in Requests \cup {NotARequest}, Record(e)
  PROVE  failure' \in SUBSET (Requests \cup {NotARequest}) /\ Cardinality(failure') <= 1
<1>1. Cardinality({e}) = 1
  BY FS_Singleton
<1>2. QED
  BY <1>1 DEF Record, WindowTypeOK

LEMMA LaunchTypes ==
  ASSUME WindowTypeOK, NEW r \in Requests, Launch(r), UNCHANGED <<total, failure, fired>>
  PROVE  WindowTypeOK'
<1>1. Append(launched, r) \in Seq(Requests)
  BY AppendProperties DEF WindowTypeOK
<1>2. status' \in [Requests -> {"new", "launched", "sent", "ok", "failed"}]
  BY DEF Launch, Becomes, WindowTypeOK
<1>3. QED
  BY <1>1, <1>2 DEF Launch, WindowTypeOK

LEMMA MoveTypes ==
  ASSUME WindowTypeOK, NEW r \in Requests, Moves(r) \/ Served(r), total' = total
  PROVE  WindowTypeOK'
<1> USE DEF windowVars
<1>1. CASE Send(r) \/ Succeed(r) \/ Served(r)
  BY <1>1 DEF Send, Succeed, Served, Becomes, WindowTypeOK
<1>2. CASE Reject(r)
  <2>1. failure' \in SUBSET (Requests \cup {NotARequest}) /\ Cardinality(failure') <= 1
    BY <1>2, Recorded DEF Reject
  <2>2. QED
    BY <1>2, <2>1 DEF Reject, Becomes, WindowTypeOK
<1>3. CASE Finish(r)
  BY <1>3 DEF Finish, WindowTypeOK
<1>4. QED
  BY <1>1, <1>2, <1>3 DEF Moves, Request, Fail, EnsureFails

-----------------------------------------------------------------------------
(* What a step means to the caller *)

LEMMA LaunchMeans ==
  ASSUME WindowTypeOK, NEW r \in Requests, status[r] = "new", Becomes(r, "launched")
  PROVE  /\ r \notin UnderWay \cup Confirmed
         /\ UnderWay' = UnderWay \cup {r} /\ Confirmed' = Confirmed
BY DEF Becomes, WindowTypeOK, UnderWay, Confirmed

LEMMA MoveMeans ==
  ASSUME WindowTypeOK, NEW r \in Requests, Moves(r) \/ Served(r)
  PROVE  \/ UNCHANGED <<UnderWay, Confirmed, failure>>
         \/ /\ r \in UnderWay /\ UnderWay' = UnderWay \ {r}
            /\ \/ Confirmed' = Confirmed \cup {r} /\ failure' = failure
               \/ Confirmed' = Confirmed /\ failure' = IF failure = {} THEN {r} ELSE failure
<1> USE DEF windowVars, UnderWay, Confirmed
<1>1. CASE Send(r)
  BY <1>1 DEF Send, Becomes, WindowTypeOK
<1>2. CASE Succeed(r) \/ Served(r)
  BY <1>2 DEF Succeed, Served, Becomes, WindowTypeOK
<1>3. CASE Fail(r) \/ EnsureFails(r)
  BY <1>3 DEF Fail, EnsureFails, Reject, Record, Becomes, WindowTypeOK
<1>4. CASE Finish(r)
  BY <1>4 DEF Finish
<1>5. QED
  BY <1>1, <1>2, <1>3, <1>4 DEF Moves, Request

(* A launch fills one slot; the caller waits exactly when none is left.    *)
LEMMA FedLaunches ==
  ASSUME WindowTypeOK, NEW base \in Nat, NEW n \in Requests, base < n, Fed(base, n),
         Cardinality(inFlight) < MaxConcurrent, Launch(n), failure' = failure
  PROVE  Fed(base, n + 1)' /\ (~waiting' => Cardinality(inFlight') < MaxConcurrent)
<1>1. n \in Nat /\ n <= MaxTotal /\ MaxTotal \in Nat /\ MaxConcurrent \in Nat
  BY WindowAssumption DEF Requests
<1>2. Cardinality(inFlight') <= MaxConcurrent /\ (~waiting' => Cardinality(inFlight') < MaxConcurrent)
  <2>1. IsFiniteSet(inFlight) /\ Cardinality(inFlight) \in Nat
    BY SlotsAreFinite DEF WindowTypeOK
  <2>2. inFlight' = inFlight \cup {n} /\ waiting' = (Cardinality(inFlight') >= MaxConcurrent)
    BY DEF Launch
  <2>3. Cardinality(inFlight \cup {n}) \in {Cardinality(inFlight), Cardinality(inFlight) + 1}
    BY <2>1, FS_AddElement
  <2>4. Cardinality(inFlight') \in {Cardinality(inFlight), Cardinality(inFlight) + 1}
    BY <2>2, <2>3
  <2>5. ~waiting' => ~(Cardinality(inFlight') >= MaxConcurrent)
    BY <2>2, Zenon
  <2>6. QED
    BY <1>1, <2>1, <2>4, <2>5
<1>3. launched' = [i \in 1..(n - base) |-> i + base]
  <2>1. Len(launched) = n - 1 - base /\ n - 1 - base \in Nat
    BY <1>1 DEF Fed
  <2>2. launched' = Append(launched, n) /\ launched \in Seq(Requests)
    BY DEF Launch, WindowTypeOK
  <2>3. /\ launched' \in Seq(Requests) /\ Len(launched') = n - base
        /\ launched'[n - base] = n
        /\ \A i \in 1..(n - 1 - base) : launched'[i] = i + base
    BY <1>1, <2>1, <2>2, AppendProperties DEF Fed
  <2>4. \A i \in 1..(n - base) : launched'[i] = i + base
    BY <1>1, <2>1, <2>3
  <2>5. QED
    BY <2>1, <2>3, <2>4, LenProperties
<1>4. /\ status'[n] = "launched" /\ \A r \in Requests \ {n} : status'[r] = status[r]
      /\ inFlight' = inFlight \cup {n}
  BY DEF Launch, Becomes, WindowTypeOK
<1>5. \A r \in 1..base : status'[r] = "ok"
  <2>1. \A r \in 1..base : r \in Requests \ {n}
    BY <1>1 DEF Requests
  <2>2. QED
    BY <1>4, <2>1 DEF Fed
<1>6. \A r \in Requests : status'[r] = "new" <=> r >= n + 1
  BY <1>1, <1>4 DEF Fed, Requests
<1>7. inFlight' \subseteq (base + 1)..n /\ UnderWay' \subseteq inFlight'
  <2>1. n \in (base + 1)..n /\ (base + 1)..(n - 1) \subseteq (base + 1)..n
    BY <1>1
  <2>2. inFlight' \subseteq (base + 1)..n
    BY <1>4, <2>1 DEF Fed
  <2>3. UnderWay' \subseteq inFlight'
    BY <1>4 DEF Fed, UnderWay
  <2>4. QED
    BY <2>2, <2>3
<1>8. failure' = {} => \A r \in Requests : status'[r] # "failed"
  BY <1>4 DEF Fed
<1>9. (n + 1) - 1 - base = n - base /\ (n + 1) - 1 = n
  BY <1>1
<1>10. QED
  BY <1>2, <1>3, <1>5, <1>6, <1>7, <1>8, <1>9 DEF Fed

(* A request that moves launches nothing, and frees a slot when it ends.   *)
LEMMA FedMoves ==
  ASSUME WindowTypeOK, NEW base \in Nat, NEW n \in Nat, base < n, Fed(base, n),
         NEW r \in Requests, Moves(r) \/ Served(r)
  PROVE  /\ Fed(base, n)'
         /\ Cardinality(inFlight') < MaxConcurrent \/ UNCHANGED <<inFlight, waiting>>
<1> USE DEF windowVars
<1>1. CASE Finish(r)
  <2>1. IsFiniteSet(inFlight) /\ Cardinality(inFlight) \in Nat /\ MaxConcurrent \in Nat
    BY SlotsAreFinite, WindowAssumption DEF WindowTypeOK
  <2>2. Cardinality(inFlight') = Cardinality(inFlight) - 1
    BY <1>1, <2>1, FS_RemoveElement DEF Finish
  <2>3. Cardinality(inFlight') < MaxConcurrent
    BY <2>1, <2>2 DEF Fed
  <2>4. UNCHANGED <<status, launched, failure>> /\ inFlight' = inFlight \ {r} /\ r \notin UnderWay
    BY <1>1 DEF Finish, UnderWay
  <2>5. Cardinality(inFlight') <= MaxConcurrent
    BY <2>1, <2>2, <2>3
  <2>6. QED
    BY <2>3, <2>4, <2>5 DEF Fed, UnderWay
<1>2. CASE Request(r) \/ EnsureFails(r) \/ Served(r)
  <2>1. /\ status[r] \in {"launched", "sent"} /\ UNCHANGED <<launched, inFlight, waiting>>
        /\ \E to \in {"sent", "ok", "failed"} :
             Becomes(r, to) /\ (IF to = "failed" THEN Record(r) ELSE failure' = failure)
    BY <1>2 DEF Request, Send, Succeed, Fail, EnsureFails, Reject, Served
  <2>2. /\ status'[r] \in {"sent", "ok", "failed"}
        /\ \A q \in Requests \ {r} : status'[q] = status[q]
        /\ failure' = {} => failure = {} /\ status'[r] # "failed"
    BY <2>1 DEF Becomes, Record, WindowTypeOK
  <2>3. \A q \in 1..base : status'[q] = "ok"
    BY <2>1, <2>2 DEF Fed, Becomes, WindowTypeOK
  <2>4. \A q \in Requests : status'[q] = "new" <=> q >= n
    BY <2>1, <2>2 DEF Fed
  <2>5. UnderWay' \subseteq inFlight'
    BY <2>1, <2>2 DEF Fed, UnderWay
  <2>6. failure' = {} => \A q \in Requests : status'[q] # "failed"
    BY <2>2 DEF Fed
  <2>7. QED
    BY <2>1, <2>3, <2>4, <2>5, <2>6 DEF Fed
<1>3. QED
  BY <1>1, <1>2 DEF Moves

(* What a caller reports, the ones it launched one by one and then what    *)
(* settle reports, is everything that was confirmed, in its caller's order.*)
LEMMA InCallersOrder ==
  ASSUME NEW base \in Nat, NEW n \in Nat, base < n, n <= MaxTotal + 1, Fed(base, n),
         NEW first \in Seq(Nat), Len(first) = base, \A i \in 1..base : first[i] = i,
         NEW all, all = first \o Results
  PROVE  /\ all \in Seq(Requests)
         /\ \A i, j \in DOMAIN all : i < j => all[i] < all[j]
         /\ {all[i] : i \in DOMAIN all} = Confirmed
<1> DEFINE count == Len(Results)
<1>1. /\ n - 1 - base \in Nat /\ base + (n - 1 - base) = n - 1 /\ MaxTotal \in Nat
  BY WindowAssumption
<1>2. /\ Results \in Seq(Nat)
      /\ \A i, j \in 1..count : i < j => Results[i] < Results[j]
      /\ {Results[i] : i \in 1..count} = {r \in (base + 1)..(n - 1) : status[r] = "ok"}
  <2>1. launched = [i \in 1..(n - 1 - base) |-> i + base]
    BY DEF Fed
  <2> HIDE DEF count
  <2>2. /\ Results \in Seq(Nat)
        /\ \A i, j \in 1..Len(Results) : i < j => Results[i] < Results[j]
        /\ {Results[i] : i \in 1..Len(Results)}
             = {r \in (base + 1)..(base + (n - 1 - base)) : status[r] = "ok"}
    BY <1>1, <2>1, ResultsReported
  <2>3. QED
    BY <1>1, <2>2 DEF count
<1>3. count \in Nat
  BY <1>2, LenProperties
<1>4. /\ \A i \in 1..count :
           Results[i] \in (base + 1)..(n - 1) /\ status[Results[i]] = "ok"
      /\ \A r \in (base + 1)..(n - 1) : status[r] = "ok" => \E i \in 1..count : Results[i] = r
  BY <1>2
<1>5. /\ all \in Seq(Nat) /\ Len(all) = base + count
      /\ \A i \in 1..(base + count) : all[i] = IF i <= base THEN first[i] ELSE Results[i - base]
  BY <1>2, ConcatProperties
<1> HIDE DEF count
<1>6. DOMAIN all = 1..(base + count)
  BY <1>5, LenProperties
<1>7. \A i \in 1..(base + count) :
         \/ i \in 1..base /\ all[i] = i
         \/ i - base \in 1..count /\ all[i] = Results[i - base] /\ i > base
  BY <1>3, <1>5
<1>8. \A i, j \in DOMAIN all : i < j => all[i] < all[j]
  <2> SUFFICES ASSUME NEW i \in 1..(base + count), NEW j \in 1..(base + count), i < j
               PROVE  all[i] < all[j]
    BY <1>6
  <2>1. CASE i \in 1..base /\ all[i] = i /\ j \in 1..base /\ all[j] = j
    BY <2>1
  <2>2. CASE i \in 1..base /\ all[i] = i /\ j - base \in 1..count /\ all[j] = Results[j - base]
    <3>1. all[j] \in (base + 1)..(n - 1)
      BY <1>4, <2>2
    <3>2. QED
      BY <1>1, <2>2, <3>1
  <2>3. CASE /\ i - base \in 1..count /\ all[i] = Results[i - base] /\ i > base
             /\ j - base \in 1..count /\ all[j] = Results[j - base]
    <3>1. i - base < j - base
      BY <1>3
    <3>2. QED
      BY <1>2, <2>3, <3>1 DEF count
  <2>4. ~(i > base /\ j \in 1..base)
    BY <1>3
  <2>5. QED
    BY <1>7, <2>1, <2>2, <2>3, <2>4
<1>9. \A i \in DOMAIN all : all[i] \in Confirmed
  <2> SUFFICES ASSUME NEW i \in 1..(base + count) PROVE all[i] \in Confirmed
    BY <1>6
  <2>1. CASE i \in 1..base /\ all[i] = i
    BY <1>1, <2>1 DEF Confirmed, Fed, Requests
  <2>2. CASE i - base \in 1..count /\ all[i] = Results[i - base]
    <3>1. all[i] \in (base + 1)..(n - 1) /\ status[all[i]] = "ok"
      BY <1>4, <2>2
    <3>2. \A r \in (base + 1)..(n - 1) : r \in Requests
      BY <1>1 DEF Requests
    <3>3. QED
      BY <3>1, <3>2 DEF Confirmed
  <2>3. QED
    BY <1>7, <2>1, <2>2
<1>10. \A r \in Confirmed : \E i \in DOMAIN all : all[i] = r
  <2> TAKE r \in Confirmed
  <2>1. r \in Nat /\ 1 <= r /\ r < n /\ status[r] = "ok"
    BY DEF Confirmed, Fed, Requests
  <2>2. CASE r <= base
    <3>1. r \in 1..(base + count) /\ r \in 1..base
      BY <1>3, <2>1, <2>2
    <3>2. all[r] = r
      BY <1>5, <3>1
    <3>3. QED
      BY <1>6, <3>1, <3>2
  <2>3. CASE r > base
    <3>1. r \in (base + 1)..(n - 1)
      BY <2>1, <2>3
    <3>2. PICK i \in 1..count : Results[i] = r
      BY <1>4, <2>1, <3>1
    <3>3. i + base \in 1..(base + count) /\ all[i + base] = r
      BY <1>3, <1>5, <3>2
    <3>4. QED
      BY <1>6, <3>3
  <2>4. QED
    BY <2>1, <2>2, <2>3
<1>11. all \in Seq(Requests)
  <2>1. \A i \in 1..Len(all) : all[i] \in Requests
    BY <1>5, <1>6, <1>9 DEF Confirmed
  <2>2. Len(all) \in Nat /\ all = [i \in 1..Len(all) |-> all[i]]
    BY <1>5, LenProperties
  <2>3. all \in [1..Len(all) -> Requests]
    BY <2>1, <2>2
  <2>4. all \in UNION {[1..m -> Requests] : m \in Nat}
    BY <2>2, <2>3
  <2>5. QED
    BY <2>4, SeqDef
<1>12. QED
  BY <1>8, <1>9, <1>10, <1>11

-----------------------------------------------------------------------------
(* The call *)

LEMMA Sizes ==
  /\ MaxTotal \in Nat /\ MaxConcurrent \in Nat /\ MaxConcurrent > 0
  /\ IsFiniteSet({}) /\ Cardinality({}) = 0
BY WindowAssumption, FS_EmptySet

LEMMA InitInv == Init => IInv
<1> SUFFICES ASSUME Init PROVE IInv
  OBVIOUS
<1>1. TypeOK
  <2>1. <<>> \in Seq(Requests)
    OBVIOUS
  <2>2. /\ total \in 0..MaxTotal /\ fired = FALSE /\ waiting = FALSE /\ serializeFirst \in BOOLEAN
        /\ status \in [Requests -> {"new", "launched", "sent", "ok", "failed"}]
        /\ launched = <<>> /\ report = <<>> /\ inFlight = {} /\ failure = {}
        /\ next = 1 /\ pc = "begin"
    BY DEF Init, WindowInit
  <2>3. WindowTypeOK
    <3>1. Cardinality(failure) <= 1
      BY <2>2, Sizes
    <3>2. QED
      BY <2>1, <2>2, <3>1 DEF WindowTypeOK
  <2>4. 1 \in 1..(MaxTotal + 1)
    BY Sizes
  <2>5. QED
    BY <2>1, <2>2, <2>3, <2>4 DEF TypeOK
<1>2. BeginInv /\ FirstInv /\ LoopInv /\ EndInv /\ FirstAlone
  BY DEF Init, WindowInit, BeginInv, FirstInv, LoopInv, EndInv, Ended, FirstAlone
<1>3. QED
  BY <1>1, <1>2 DEF IInv

LEMMA BeginStep ==
  ASSUME IInv, Begin
  PROVE  /\ IInv'
         /\ \/ UNCHANGED <<UnderWay, Confirmed>>
            \/ /\ total > 0 /\ 1 \notin UnderWay \cup Confirmed
               /\ UnderWay' = UnderWay \cup {1} /\ Confirmed' = Confirmed
<1> USE DEF windowVars
<1>1. /\ pc = "begin" /\ TypeOK /\ BeginInv /\ EndInv
      /\ UNCHANGED <<total, launched, inFlight, waiting, failure, fired, serializeFirst, report>>
  BY DEF Begin, IInv
<1>2. total \in Nat /\ total <= MaxTotal /\ MaxTotal \in Nat
  BY <1>1, Sizes DEF TypeOK, WindowTypeOK
<1>3. CASE serializeFirst /\ total > 0
  <2>1. pc' = "first" /\ Becomes(1, "launched") /\ next' = 2 /\ 1 \in Requests /\ 2 \in 1..(MaxTotal + 1)
    BY <1>2, <1>3 DEF Begin, Requests
  <2>2. /\ status' \in [Requests -> {"new", "launched", "sent", "ok", "failed"}]
        /\ status'[1] = "launched" /\ \A r \in Requests \ {1} : status'[r] = "new"
    BY <1>1, <2>1 DEF Becomes, BeginInv, TypeOK, WindowTypeOK
  <2>3. TypeOK'
    BY <1>1, <2>1, <2>2 DEF TypeOK, WindowTypeOK
  <2>4. BeginInv' /\ FirstInv' /\ LoopInv' /\ EndInv' /\ FirstAlone'
    BY <1>1, <1>3, <2>1, <2>2
       DEF BeginInv, FirstInv, LoopInv, EndInv, Ended, FirstAlone
  <2>5. /\ 1 \notin UnderWay \cup Confirmed
        /\ UnderWay' = UnderWay \cup {1} /\ Confirmed' = Confirmed
    BY <1>1, <2>1, LaunchMeans DEF BeginInv, TypeOK
  <2>6. QED
    BY <1>3, <2>3, <2>4, <2>5 DEF IInv
<1>4. CASE ~(serializeFirst /\ total > 0)
  <2>1. pc' = "feeding" /\ UNCHANGED <<status, next>> /\ Base' = 0
    BY <1>1, <1>4 DEF Begin, Base
  <2>2. TypeOK'
    BY <1>1, <2>1 DEF TypeOK, WindowTypeOK
  <2>3. LoopInv'
    <3>1. launched' = [i \in 1..(1 - 1 - 0) |-> i + 0]
      BY <1>1 DEF BeginInv
    <3>2. \A r \in Requests : status'[r] = "new" /\ r >= 1
      BY <1>1, <2>1 DEF BeginInv, Requests
    <3>3. inFlight' = {} /\ UnderWay' = {} /\ Cardinality(inFlight') < MaxConcurrent
      BY <1>1, <3>2, Sizes DEF BeginInv, UnderWay
    <3>4. Fed(0, 1)'
      BY <3>1, <3>2, <3>3, Sizes DEF Fed
    <3>5. Fed(Base, next)'
      BY <1>1, <2>1, <3>4 DEF Fed, BeginInv
    <3>6. next' \in (Base' + 1)..(total' + 1)
      BY <1>1, <1>2, <2>1 DEF BeginInv
    <3>7. QED
      BY <2>1, <3>3, <3>5, <3>6 DEF LoopInv
  <2>4. BeginInv' /\ FirstInv' /\ EndInv' /\ FirstAlone'
    BY <1>1, <2>1 DEF BeginInv, FirstInv, EndInv, Ended, FirstAlone
  <2>5. UNCHANGED <<UnderWay, Confirmed>>
    BY <2>1 DEF UnderWay, Confirmed
  <2>6. QED
    BY <2>2, <2>3, <2>4, <2>5 DEF IInv
<1>5. QED
  BY <1>3, <1>4

LEMMA FirstSettlesStep ==
  ASSUME IInv, FirstSettles
  PROVE  /\ IInv' /\ UNCHANGED <<UnderWay, Confirmed>>
         /\ pc' = "feeding" \/ (pc' = "thrown" /\ UnderWay = {} /\ Confirmed = {} /\ failure # {})
<1> USE DEF windowVars
<1>1. /\ pc = "first" /\ TypeOK /\ FirstInv /\ EndInv
      /\ UNCHANGED <<total, status, launched, inFlight, waiting, failure, fired>>
      /\ UNCHANGED <<serializeFirst, next, report>>
  BY DEF FirstSettles, IInv
<1>2. TypeOK' /\ UNCHANGED <<UnderWay, Confirmed>>
  BY <1>1 DEF FirstSettles, TypeOK, WindowTypeOK, Ended, UnderWay, Confirmed
<1>3. total \in Nat /\ total > 0 /\ Base = 1 /\ Base' = 1 /\ next = 2 /\ serializeFirst
  BY <1>1 DEF TypeOK, WindowTypeOK, FirstInv, Base
<1>4. CASE status[1] = "ok" /\ pc' = "feeding"
  <2>1. LoopInv'
    <3>1. launched' = [i \in 1..(2 - 1 - 1) |-> i + 1]
      BY <1>1 DEF FirstInv
    <3>2. \A r \in Requests : status'[r] # "failed" /\ (status'[r] = "new" <=> r >= 2)
      BY <1>1, <1>4 DEF FirstInv, Requests
    <3>3. inFlight' = {} /\ UnderWay' = {} /\ Cardinality(inFlight') < MaxConcurrent
      BY <1>1, <1>4, Sizes DEF FirstInv, UnderWay
    <3>4. \A r \in 1..1 : status'[r] = "ok"
      BY <1>1, <1>4
    <3>5. Fed(1, 2)'
      BY <3>1, <3>2, <3>3, <3>4, Sizes DEF Fed
    <3>6. Fed(Base, next)'
      BY <1>1, <1>3, <3>5 DEF Fed
    <3>7. next' \in (Base' + 1)..(total' + 1)
      BY <1>1, <1>3
    <3>8. QED
      BY <1>4, <3>3, <3>6, <3>7 DEF LoopInv
  <2>2. BeginInv' /\ FirstInv' /\ EndInv' /\ FirstAlone'
    BY <1>1, <1>4 DEF BeginInv, FirstInv, EndInv, Ended, FirstAlone
  <2>3. QED
    BY <1>2, <1>4, <2>1, <2>2 DEF IInv
<1>5. CASE status[1] = "failed" /\ pc' = "thrown"
  <2>1. UnderWay = {} /\ Confirmed = {} /\ failure # {}
    BY <1>1, <1>5 DEF FirstInv, UnderWay, Confirmed
  <2>2. BeginInv' /\ FirstInv' /\ LoopInv' /\ EndInv' /\ FirstAlone'
    BY <1>1, <1>2, <1>5, <2>1 DEF BeginInv, FirstInv, LoopInv, EndInv, Ended, FirstAlone
  <2>3. QED
    BY <1>2, <1>5, <2>1, <2>2 DEF IInv
<1>6. QED
  BY <1>4, <1>5 DEF FirstSettles

LEMMA FeedStep ==
  ASSUME IInv, Feed
  PROVE  /\ IInv' /\ pc' \in {"feeding", "settling"} /\ UNCHANGED <<total, failure, report>>
         /\ \/ UNCHANGED <<UnderWay, Confirmed>>
            \/ /\ failure = {}
               /\ \E r \in 1..total : /\ r \notin UnderWay \cup Confirmed
                                     /\ UnderWay' = UnderWay \cup {r} /\ Confirmed' = Confirmed
<1> USE DEF windowVars
<1>1. /\ pc = "feeding" /\ ~waiting /\ TypeOK /\ LoopInv /\ EndInv /\ FirstAlone
      /\ UNCHANGED <<total, failure, fired, serializeFirst, report>>
  BY DEF Feed, IInv
<1>2. /\ total \in Nat /\ total <= MaxTotal /\ MaxTotal \in Nat /\ Base' = Base
      /\ next \in (Base + 1)..(total + 1) /\ Base \in {0, 1} /\ (Base = 0 => ~serializeFirst \/ total = 0)
      /\ Fed(Base, next) /\ Cardinality(inFlight) < MaxConcurrent
  BY <1>1, Sizes DEF TypeOK, WindowTypeOK, LoopInv, Base
<1>3. CASE next <= total /\ failure = {}
  <2>1. /\ Launch(next) /\ next' = next + 1 /\ pc' = "feeding"
        /\ next \in Requests /\ next \in 1..total /\ Base < next
        /\ next + 1 \in (Base + 1)..(total + 1) /\ next + 1 \in 1..(MaxTotal + 1)
    BY <1>1, <1>2, <1>3 DEF Feed, Requests
  <2>2. TypeOK'
    BY <1>1, <2>1, LaunchTypes DEF TypeOK
  <2>3. Fed(Base, next)' /\ (~waiting' => Cardinality(inFlight') < MaxConcurrent)
    <3>1. PICK n \in Requests, base \in Nat : n = next /\ base = Base
      BY <1>2, <2>1
    <3>2. Fed(base, n + 1)' /\ (~waiting' => Cardinality(inFlight') < MaxConcurrent)
      <4>1. Fed(base, n)
        BY <1>2, <3>1
      <4>2. QED
        BY <1>1, <1>2, <2>1, <3>1, <4>1, FedLaunches DEF TypeOK
    <3>3. next' = n + 1 /\ Base' = base
      BY <1>2, <2>1, <3>1
    <3>4. QED
      BY <3>2, <3>3 DEF Fed
  <2>4. status[next] = "new"
    BY <1>2, <2>1 DEF Fed
  <2>5. /\ next \notin UnderWay \cup Confirmed
        /\ UnderWay' = UnderWay \cup {next} /\ Confirmed' = Confirmed
    BY <1>1, <2>1, <2>4, LaunchMeans DEF TypeOK, Launch
  <2>6. FirstAlone'
    <3>1. ASSUME serializeFirst PROVE status'[1] = "ok"
      <4>1. Base = 1 /\ next # 1 /\ 1 \in Requests
        BY <1>2, <1>3, <2>1, <3>1 DEF Requests
      <4>2. status[1] = "ok"
        BY <1>2, <4>1 DEF Fed
      <4>3. QED
        BY <1>1, <2>1, <4>1, <4>2 DEF Launch, Becomes, TypeOK, WindowTypeOK
    <3>2. QED
      BY <1>1, <3>1 DEF FirstAlone
  <2>7. LoopInv'
    BY <1>1, <1>2, <2>1, <2>3 DEF LoopInv
  <2>8. BeginInv' /\ FirstInv' /\ EndInv'
    BY <1>1, <2>1 DEF BeginInv, FirstInv, EndInv, Ended
  <2>9. QED
    BY <1>1, <1>3, <2>1, <2>2, <2>5, <2>6, <2>7, <2>8 DEF IInv
<1>4. CASE ~(next <= total /\ failure = {})
  <2>1. /\ pc' = "settling" /\ UNCHANGED <<status, launched, inFlight, waiting, next>>
        /\ next = total + 1 \/ failure # {}
    BY <1>1, <1>2, <1>4 DEF Feed
  <2>2. TypeOK' /\ UNCHANGED <<UnderWay, Confirmed>>
    BY <1>1, <2>1 DEF TypeOK, WindowTypeOK, UnderWay, Confirmed
  <2>3. LoopInv'
    BY <1>1, <1>2, <2>1 DEF LoopInv, Fed, UnderWay
  <2>4. BeginInv' /\ FirstInv' /\ EndInv' /\ FirstAlone'
    BY <1>1, <2>1 DEF BeginInv, FirstInv, EndInv, Ended, FirstAlone
  <2>5. QED
    BY <1>1, <2>1, <2>2, <2>3, <2>4 DEF IInv
<1>5. QED
  BY <1>3, <1>4

LEMMA SettleStep ==
  ASSUME IInv, Settle
  PROVE  /\ IInv' /\ UNCHANGED <<total, UnderWay, Confirmed, failure>> /\ UnderWay = {}
         /\ \/ /\ failure = {} /\ Confirmed = 1..total
               /\ pc' = "resolved" /\ UNCHANGED report
            \/ /\ failure # {} /\ pc' = "thrown"
               /\ \A i, j \in DOMAIN report' : i < j => report'[i] < report'[j]
               /\ {report'[i] : i \in DOMAIN report'} = Confirmed
<1> USE DEF windowVars
<1>1. /\ pc = "settling" /\ TypeOK /\ LoopInv /\ EndInv /\ FirstAlone /\ inFlight = {}
      /\ UNCHANGED <<total, status, launched, inFlight, waiting, failure, fired>>
      /\ UNCHANGED <<serializeFirst, next>>
  BY DEF Settle, IInv, AllFinished
<1>2. /\ total \in Nat /\ total <= MaxTotal /\ MaxTotal \in Nat /\ Base \in {0, 1} /\ Base <= total
      /\ next \in (Base + 1)..(total + 1) /\ Fed(Base, next)
  BY <1>1, Sizes DEF TypeOK, WindowTypeOK, LoopInv, Base
<1>3. UnderWay = {} /\ UNCHANGED <<UnderWay, Confirmed>>
  BY <1>1, <1>2 DEF Fed, UnderWay, Confirmed
<1>4. \A r \in Requests : r < next => status[r] \in {"ok", "failed"}
  <2> TAKE r \in Requests
  <2> HAVE r < next
  <2>1. status[r] \in {"new", "launched", "sent", "ok", "failed"}
    BY <1>1 DEF TypeOK, WindowTypeOK
  <2>2. status[r] # "new"
    BY <1>2 DEF Fed, Requests
  <2>3. QED
    BY <1>3, <2>1, <2>2 DEF UnderWay
<1>5. FirstAlone'
  BY <1>1 DEF FirstAlone
<1>6. CASE failure = {}
  <2>1. pc' = "resolved" /\ UNCHANGED report
    BY <1>6 DEF Settle
  <2>2. Confirmed = 1..total
    <3>1. next = total + 1
      BY <1>1, <1>6 DEF LoopInv
    <3>2. \A r \in Requests : status[r] = "ok" <=> r <= total
      BY <1>2, <1>4, <1>6, <3>1 DEF Fed, Requests
    <3>3. QED
      BY <1>2, <3>2 DEF Confirmed, Requests
  <2>3. TypeOK' /\ BeginInv' /\ FirstInv' /\ LoopInv' /\ EndInv'
    BY <1>1, <1>3, <2>1
       DEF TypeOK, WindowTypeOK, BeginInv, FirstInv, LoopInv, EndInv, Ended
  <2>4. QED
    BY <1>1, <1>3, <1>5, <1>6, <2>1, <2>2, <2>3 DEF IInv
<1>7. CASE failure # {}
  <2>1. pc' = "thrown" /\ report' = Committed
    BY <1>7 DEF Settle
  <2>2. /\ report' \in Seq(Requests)
        /\ \A i, j \in DOMAIN report' : i < j => report'[i] < report'[j]
        /\ {report'[i] : i \in DOMAIN report'} = Confirmed
    <3> DEFINE first == IF serializeFirst /\ total > 0 THEN <<1>> ELSE <<>>
    <3>1. first \in Seq(Nat) /\ Len(first) = Base /\ \A i \in 1..Base : first[i] = i
      BY DEF Base
    <3>2. report' = first \o Results
      BY <2>1 DEF Committed
    <3> HIDE DEF first
    <3>3. next \in Nat /\ Base \in Nat /\ Base < next /\ next <= MaxTotal + 1
      BY <1>2
    <3>4. PICK base \in Nat, n \in Nat, all \in {report'} : base = Base /\ n = next /\ all = report'
      BY <3>3
    <3>5. Fed(base, n) /\ base < n /\ n <= MaxTotal + 1 /\ all = first \o Results
      BY <1>2, <3>2, <3>3, <3>4
    <3>6. /\ all \in Seq(Requests)
          /\ \A i, j \in DOMAIN all : i < j => all[i] < all[j]
          /\ {all[i] : i \in DOMAIN all} = Confirmed
      BY <3>1, <3>4, <3>5, InCallersOrder
    <3>7. QED
      BY <3>4, <3>6
  <2>3. TypeOK' /\ BeginInv' /\ FirstInv' /\ LoopInv' /\ EndInv'
    BY <1>1, <1>3, <2>1, <2>2
       DEF TypeOK, WindowTypeOK, BeginInv, FirstInv, LoopInv, EndInv, Ended
  <2>4. QED
    BY <1>1, <1>3, <1>5, <1>7, <2>1, <2>2, <2>3 DEF IInv
<1>8. QED
  BY <1>6, <1>7

LEMMA AnswerStep ==
  ASSUME IInv, NEW r \in Requests, Answer(r), UNCHANGED <<total, callVars>>
  PROVE  /\ IInv'
         /\ \/ UNCHANGED <<UnderWay, Confirmed, failure>>
            \/ /\ r \in UnderWay /\ UnderWay' = UnderWay \ {r} /\ pc \notin Ended
               /\ \/ Confirmed' = Confirmed \cup {r} /\ failure' = failure
                  \/ Confirmed' = Confirmed /\ failure' = IF failure = {} THEN {r} ELSE failure
<1> USE DEF windowVars, callVars
<1>1. /\ TypeOK /\ BeginInv /\ FirstInv /\ LoopInv /\ EndInv /\ FirstAlone
      /\ Moves(r) /\ UNCHANGED <<total, serializeFirst, pc, next, report>>
  BY DEF IInv, Answer, Moves
<1>2. TypeOK'
  BY <1>1, MoveTypes DEF TypeOK
<1>3. /\ status[r] # "new" /\ 1 \in Requests
      /\ \A q \in Requests : status'[q] = "new" <=> status[q] = "new"
      /\ \A q \in Requests : status[q] = "ok" => status'[q] = "ok"
  <2>1. 1 \in Requests
    BY Sizes DEF Requests
  <2>2. QED
    BY <1>1, <2>1
       DEF Moves, Request, Send, Succeed, Fail, EnsureFails, Reject, Finish, Becomes,
           TypeOK, WindowTypeOK
<1>4. BeginInv'
  BY <1>1, <1>3 DEF BeginInv
<1>5. FirstInv'
  <2> SUFFICES ASSUME pc = "first" PROVE FirstInv'
    BY <1>1 DEF FirstInv
  <2>1. r = 1 /\ ~Finish(r) /\ 1 \in Requests
    BY <1>1, <1>3 DEF FirstInv, Finish
  <2>2. /\ UNCHANGED <<launched, inFlight, waiting>>
        /\ \/ failure' = failure /\ status'[1] \in {"sent", "ok"}
           \/ failure' # {}
    BY <1>1, <2>1 DEF Moves, Request, Send, Succeed, Fail, EnsureFails, Reject, Record, Becomes,
                      TypeOK, WindowTypeOK
  <2>3. QED
    BY <1>1, <1>3, <2>1, <2>2 DEF FirstInv
<1>6. LoopInv'
  <2> SUFFICES ASSUME pc \in {"feeding", "settling"} PROVE LoopInv'
    BY <1>1 DEF LoopInv
  <2>1. /\ Fed(Base, next) /\ Base \in Nat /\ next \in Nat /\ Base < next /\ Base' = Base
        /\ next \in (Base + 1)..(total + 1)
    BY <1>1 DEF LoopInv, Base, TypeOK, WindowTypeOK
  <2>2. PICK base \in Nat, n \in Nat : base = Base /\ n = next
    BY <2>1
  <2>3. /\ Fed(base, n)'
        /\ Cardinality(inFlight') < MaxConcurrent \/ UNCHANGED <<inFlight, waiting>>
    <3>1. Fed(base, n) /\ base < n
      BY <2>1, <2>2
    <3>2. QED
      BY <1>1, <3>1, FedMoves DEF TypeOK
  <2>4. Fed(Base, next)'
    BY <1>1, <2>1, <2>2, <2>3 DEF Fed
  <2>5. failure # {} => failure' # {}
    BY <1>1 DEF Moves, Request, Send, Succeed, Fail, EnsureFails, Reject, Record, Finish
  <2>6. QED
    BY <1>1, <2>1, <2>3, <2>4, <2>5 DEF LoopInv
<1>7. FirstAlone'
  BY <1>1, <1>3 DEF FirstAlone
<1>8. \/ UNCHANGED <<UnderWay, Confirmed, failure>>
      \/ /\ r \in UnderWay /\ UnderWay' = UnderWay \ {r} /\ pc \notin Ended
         /\ \/ Confirmed' = Confirmed \cup {r} /\ failure' = failure
            \/ Confirmed' = Confirmed /\ failure' = IF failure = {} THEN {r} ELSE failure
  BY <1>1, MoveMeans DEF EndInv, TypeOK
<1>9. EndInv'
  BY <1>1, <1>8 DEF EndInv
<1>10. QED
  BY <1>1, <1>2, <1>4, <1>5, <1>6, <1>7, <1>8, <1>9 DEF IInv

(* A step of the signal, or none.                                          *)
LEMMA OtherStep ==
  ASSUME IInv, (Fire /\ UNCHANGED <<total, callVars>>) \/ UNCHANGED vars
  PROVE  IInv' /\ UNCHANGED <<total, UnderWay, Confirmed, failure, pc, report>>
<1>1. UNCHANGED <<total, status, windowVars, failure, callVars>> /\ fired' \in BOOLEAN
  BY DEF Fire, vars, IInv, TypeOK, WindowTypeOK
<1>2. QED
  BY <1>1 DEF windowVars, callVars, IInv, TypeOK, WindowTypeOK, BeginInv, FirstInv, LoopInv, EndInv,
              FirstAlone, Fed, UnderWay, Confirmed, Base

LEMMA Inductive == IInv /\ [Next]_vars => IInv'
<1> SUFFICES ASSUME IInv, [Next]_vars PROVE IInv'
  OBVIOUS
<1>1. CASE CallStep
  BY <1>1, BeginStep, FirstSettlesStep, FeedStep, SettleStep DEF CallStep
<1>2. ASSUME NEW r \in Requests, Answer(r), UNCHANGED <<total, callVars>> PROVE IInv'
  BY <1>2, AnswerStep
<1>3. CASE (Fire /\ UNCHANGED <<total, callVars>>) \/ UNCHANGED vars
  BY <1>3, OtherStep
<1>4. QED
  BY <1>1, <1>2, <1>3 DEF Next

LEMMA Invariant == Spec => []IInv
BY InitInv, Inductive, PTL DEF Spec

(* Every variable keeps its type; in particular no more is reported than   *)
(* requests.                                                               *)
THEOREM TypeCorrect == Spec => []TypeOK
<1>1. IInv => TypeOK
  BY DEF IInv
<1>2. QED
  BY <1>1, Invariant, PTL

(* For any number of batches: no other batch of a write is launched before *)
(* the one that may create the index is over and went well.                *)
THEOREM FirstIsAlone == Spec => []FirstAlone
<1>1. IInv => FirstAlone
  BY DEF IInv
<1>2. QED
  BY <1>1, Invariant, PTL

-----------------------------------------------------------------------------
(* What the caller is promised *)

LEMMA PromiseInit == Init => Promise!Init
<1> SUFFICES ASSUME Init PROVE Promise!Init
  OBVIOUS
<1>1. total \in Nat
  BY WindowAssumption DEF Init
<1>2. UnderWay = {} /\ Confirmed = {}
  BY DEF Init, WindowInit, UnderWay, Confirmed
<1>3. failure = {} /\ pc \notin Ended /\ report = <<>>
  BY DEF Init, WindowInit, Ended
<1>4. QED
  BY <1>1, <1>2, <1>3 DEF Promise!Init

LEMMA PromiseStep == IInv /\ [Next]_vars => [Promise!Next]_(Promise!write)
<1> SUFFICES ASSUME IInv, [Next]_vars PROVE Promise!Next \/ UNCHANGED Promise!write
  OBVIOUS
<1> USE DEF Promise!Next, Promise!write, Ended
<1>1. total \in Nat
  BY WindowAssumption DEF IInv, TypeOK, WindowTypeOK
<1>2. CASE Begin
  <2>1. /\ pc = "begin" /\ pc' \in {"first", "feeding"} /\ failure = {}
        /\ UNCHANGED <<total, failure, report>>
    BY <1>2 DEF Begin, IInv, BeginInv
  <2>2. QED
    BY <1>1, <1>2, <2>1, BeginStep DEF Promise!Start
<1>3. CASE FirstSettles
  <2>1. pc = "first" /\ report = <<>> /\ UNCHANGED <<total, failure, report>>
    BY <1>3 DEF FirstSettles, IInv, EndInv
  <2>2. CASE pc' = "feeding"
    BY <1>3, <2>1, <2>2, FirstSettlesStep
  <2>3. CASE pc' = "thrown" /\ UnderWay = {} /\ Confirmed = {} /\ failure # {}
    <3>1. Promise!Ascending(report') /\ {report'[i] : i \in DOMAIN report'} = {}
      BY <2>1 DEF Promise!Ascending
    <3>2. QED
      BY <1>3, <2>1, <2>3, <3>1, FirstSettlesStep DEF Promise!Return
  <2>4. QED
    BY <1>3, <2>2, <2>3, FirstSettlesStep
<1>4. CASE Feed
  <2>1. pc = "feeding"
    BY <1>4 DEF Feed
  <2>2. QED
    BY <1>1, <1>4, <2>1, FeedStep DEF Promise!Start
<1>5. CASE Settle
  <2>1. pc = "settling"
    BY <1>5 DEF Settle
  <2>2. QED
    BY <1>5, <2>1, SettleStep DEF Promise!Return, Promise!Ascending
<1>6. ASSUME NEW r \in Requests, Answer(r), UNCHANGED <<total, callVars>>
      PROVE  Promise!Next \/ UNCHANGED Promise!write
  <2>1. UNCHANGED <<total, pc, report>>
    BY <1>6 DEF callVars
  <2>2. QED
    BY <1>6, <2>1, AnswerStep DEF Promise!Confirm, Promise!Fail
<1>7. CASE (Fire /\ UNCHANGED <<total, callVars>>) \/ UNCHANGED vars
  BY <1>7, OtherStep
<1>8. QED
  BY <1>2, <1>3, <1>4, <1>5, <1>6, <1>7 DEF Next, CallStep

(* For any number of batches and any window: runBatches starts nothing     *)
(* once something failed, returns only when nothing is under way, and      *)
(* throws the first failure with every confirmed batch in order.           *)
THEOREM KeepsPromise == Spec => IsPartialWrite
<1>1. Spec => []IInv
  BY Invariant
<1>2. QED
  BY <1>1, PromiseInit, PromiseStep, PTL DEF Spec, IsPartialWrite, Promise!Spec

=============================================================================
