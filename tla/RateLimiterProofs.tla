------------------------- MODULE RateLimiterProofs -------------------------
(***************************************************************************)
(* RateLimiter for every set of requests and every rate: its type          *)
(* invariant, that nobody is overtaken in the line, that the rates hold    *)
(* over every stretch of time, and that no wait costs or lasts too much.   *)
(***************************************************************************)
EXTENDS RateLimiter, SequenceTheorems, TLAPS

Places == 1..Len(arrived)

(* Everyone in front of the i-th arrival has left and let go.              *)
Cleared(i) == \A j \in 1..(i - 1) : arrived[j] \in left

(* The promises chain the requests in the order they arrived.              *)
ChainInv ==
  /\ \A i \in Places : pc[arrived[i]] # "idle"
  /\ \A i \in Places : ahead[arrived[i]] = IF i = 1 THEN NoRequest ELSE arrived[i - 1]
  /\ line = IF Len(arrived) = 0 THEN NoRequest ELSE arrived[Len(arrived)]

(* Nobody lets go, and nobody is in the admission loop, before everyone in *)
(* front has let go.                                                       *)
TurnInv ==
  /\ \A c \in left : pc[c] \in Settled
  /\ \A i \in Places : arrived[i] \in left \/ pc[arrived[i]] = "sleeping" => Cleared(i)

IInv == TypeOK /\ ChainInv /\ TurnInv
-----------------------------------------------------------------------------
(* The buckets *)

LEMMA CapsArePositive == VectorCap \in Nat \ {0} /\ RequestCap \in Nat \ {0}
BY LimiterAssumption DEF VectorCap, RequestCap

(* A refill stops at a second's worth.                                     *)
LEMMA RefillBounded ==
  ASSUME NEW available \in Int, NEW refill \in Nat, TypeOK
  PROVE  /\ Refilled(available, refill) \in Int
         /\ Refilled(available, refill) <= refill * TicksPerSecond
BY LimiterAssumption DEF Refilled, Smaller, TypeOK

(* Waits are whole ticks.                                                  *)
LEMMA WaitTypes ==
  ASSUME NEW available \in Int, NEW tokens \in Nat, NEW refill \in Nat \ {0}, TypeOK
  PROVE  WaitFor(available, tokens, refill) \in Nat
<1> DEFINE have == Refilled(available, refill)
           want == AdmittedOn(tokens, refill)
<1>1. have \in Int /\ want \in Int
  BY RefillBounded, LimiterAssumption DEF AdmittedOn, Smaller
<1> HIDE DEF have, want
<1>2. have < want => (want - have + refill - 1) \div refill \in Nat
  <2> DEFINE n == want - have + refill - 1
  <2>1. have < want => n \in Nat
    BY <1>1
  <2> HIDE DEF n
  <2>2. have < want => n \div refill \in Nat
    BY <2>1
  <2>3. QED
    BY <2>2 DEF n
<1>3. QED
  BY <1>1, <1>2 DEF WaitFor, Until, have, want

LEMMA InitTypes == Init => TypeOK
<1> SUFFICES ASSUME Init PROVE TypeOK
  OBVIOUS
<1>1. 0 \in 0..TicksPerSecond
  BY LimiterAssumption
<1>2. arrived \in Seq(Requests) /\ log \in Seq(Admissions)
  BY EmptySeq DEF Init
<1>3. QED
  BY <1>1, <1>2, CapsArePositive DEF Init, TypeOK

LEMMA LogEntries ==
  ASSUME TypeOK
  PROVE  /\ Len(log) \in Nat /\ DOMAIN log = 1..Len(log)
         /\ \A k \in 1..Len(log) :
              log[k].vectors \in Nat /\ log[k].before \in Nat /\ log[k].at \in Nat
<1>1. log \in Seq(Admissions)
  BY DEF TypeOK
<1>2. Len(log) \in Nat /\ DOMAIN log = 1..Len(log)
  BY <1>1, LenProperties
<1>3. \A k \in 1..Len(log) : log[k] \in Admissions
  BY <1>1, ElementOfSeq
<1>4. QED
  BY <1>2, <1>3 DEF Admissions

(* An admission follows the one before it.                                 *)
LEMMA AdmissionTypes ==
  ASSUME TypeOK, NEW c \in Requests
  PROVE  /\ Admission(c) \in Admissions
         /\ Admission(c).vectors = count[c]
         /\ Len(log) > 0 =>
              /\ Admission(c).before = log[Len(log)].before + log[Len(log)].vectors
              /\ Admission(c).at = log[Len(log)].at + sinceAdmission
<1> DEFINE last == IF log = <<>> THEN [vectors |-> 0, before |-> 0, at |-> 0]
                                 ELSE log[Len(log)]
<1>1. count[c] \in Nat /\ sinceAdmission \in Nat /\ log \in Seq(Admissions)
  BY DEF TypeOK
<1>2. CASE log = <<>>
  <2>1. last = [vectors |-> 0, before |-> 0, at |-> 0] /\ Len(log) = 0
    BY <1>2
  <2>2. QED
    BY <1>1, <2>1 DEF Admission, Admissions
<1>3. CASE log # <<>>
  <2>1. Len(log) \in 1..Len(log)
    BY <1>1, <1>3, EmptySeq, LenProperties
  <2>2. last = log[Len(log)]
    BY <1>3
  <2>3. last.vectors \in Nat /\ last.before \in Nat /\ last.at \in Nat
    BY <2>1, <2>2, LogEntries
  <2>4. Admission(c) = [vectors |-> count[c], before |-> last.before + last.vectors,
                        at |-> last.at + sinceAdmission]
    BY DEF Admission
  <2> HIDE DEF last
  <2>5. last.before + last.vectors \in Nat /\ last.at + sinceAdmission \in Nat
    BY <1>1, <2>3
  <2>6. Admission(c) \in Admissions
    BY <1>1, <2>4, <2>5 DEF Admissions
  <2>7. /\ Admission(c).vectors = count[c]
        /\ Admission(c).before = log[Len(log)].before + log[Len(log)].vectors
        /\ Admission(c).at = log[Len(log)].at + sinceAdmission
    BY <2>2, <2>4
  <2>8. QED
    BY <2>6, <2>7
<1>4. QED
  BY <1>2, <1>3

(* One turn of the admission loop.                                         *)
LEMMA AttemptTypes ==
  ASSUME TypeOK, NEW c \in Requests, Attempt(c) PROVE TypeOK'
<1> USE DEF TypeOK
<1>1. /\ vectors' \in Int /\ vectors' <= VectorCap
      /\ requests' \in Int /\ requests' <= RequestCap
  <2> DEFINE v == Refilled(vectors, VectorRefill)
             r == Refilled(requests, RequestRefill)
  <2>1. v \in Int /\ v <= VectorCap /\ r \in Int /\ r <= RequestCap
    BY RefillBounded, LimiterAssumption DEF VectorCap, RequestCap
  <2>2. count[c] \in Nat /\ RequestCost \in Nat
    BY LimiterAssumption
  <2>3. /\ vectors' = v - count[c] \/ vectors' = v
        /\ requests' = r - RequestCost \/ requests' = r
    BY DEF Attempt, Admit, Sleep
  <2> HIDE DEF v, r, TypeOK
  <2>4. QED
    BY <2>1, <2>2, <2>3, CapsArePositive
<1>2. timer' \in [Requests -> 0..TicksPerSecond]
  <2>1. Wait(c) \in Nat
    BY WaitTypes, LimiterAssumption DEF Wait, Larger
  <2>2. Wait(c) > 0 => Smaller(Wait(c), TicksPerSecond) \in 0..TicksPerSecond
    BY <2>1, LimiterAssumption DEF Smaller
  <2>3. QED
    BY <2>2 DEF Attempt, Admit, Sleep
<1>3. log' \in Seq(Admissions) /\ sinceAdmission' \in Nat
  <2>1. Admission(c) \in Admissions /\ log \in Seq(Admissions)
    BY AdmissionTypes
  <2>2. \/ log' = Append(log, Admission(c)) /\ sinceAdmission' = 0
        \/ log' = log /\ sinceAdmission' = sinceAdmission
    BY DEF Attempt, Admit, Sleep
  <2>3. Append(log, Admission(c)) \in Seq(Admissions)
    BY <2>1, AppendProperties
  <2>4. log' \in Seq(Admissions)
    BY <2>1, <2>2, <2>3
  <2>5. QED
    BY <2>2, <2>4
<1>4. QED
  BY <1>1, <1>2, <1>3 DEF Attempt, Admit, Sleep, lineVars, Settled

LEMMA NextTypes == TypeOK /\ [Next]_vars => TypeOK'
<1> SUFFICES ASSUME TypeOK, [Next]_vars PROVE TypeOK'
  OBVIOUS
<1>1. ASSUME NEW c \in Requests, Arrive(c) PROVE TypeOK'
  <2>1. arrived' \in Seq(Requests)
    BY <1>1, AppendProperties DEF Arrive, TypeOK
  <2>2. count' \in [Requests -> Nat]
    BY <1>1, LimiterAssumption DEF Arrive, TypeOK
  <2>3. /\ line' \in Requests \cup {NoRequest} /\ ahead' \in [Requests -> Requests \cup {NoRequest}]
        /\ pc' \in [Requests -> {"idle", "inLine", "sleeping"} \cup Settled]
    BY <1>1 DEF Arrive, TypeOK
  <2>4. UNCHANGED <<left, vectors, requests, elapsed, timer, fired, log, sinceAdmission>>
    BY <1>1 DEF Arrive, budgetVars
  <2>5. QED
    BY <2>1, <2>2, <2>3, <2>4 DEF TypeOK
<1>2. ASSUME NEW c \in Requests, ReachFront(c) \/ Wake(c) PROVE TypeOK'
  BY <1>2, AttemptTypes DEF ReachFront, Wake
<1>3. ASSUME NEW c \in Requests, Abort(c) \/ Release(c) \/ Fire(c) PROVE TypeOK'
  BY <1>3 DEF Abort, Release, Fire, TypeOK, lineVars, budgetVars, Settled
<1>4. CASE Tick
  <2>1. elapsed' \in Nat /\ sinceAdmission' \in Nat
    BY <1>4, LimiterAssumption DEF Tick, TypeOK, Smaller
  <2>2. timer' \in [Requests -> 0..TicksPerSecond]
    <3>1. timer' = [c \in Requests |-> Larger(timer[c] - 1, 0)]
      BY <1>4 DEF Tick
    <3>2. \A c \in Requests : timer[c] \in 0..TicksPerSecond
      BY DEF TypeOK
    <3>3. \A t \in 0..TicksPerSecond : Larger(t - 1, 0) \in 0..TicksPerSecond
      BY LimiterAssumption DEF Larger
    <3>4. QED
      BY <3>1, <3>2, <3>3
  <2>3. QED
    BY <1>4, <2>1, <2>2 DEF Tick, TypeOK, lineVars
<1>5. CASE UNCHANGED vars
  BY <1>5 DEF vars, lineVars, budgetVars, TypeOK
<1>6. QED
  BY <1>1, <1>2, <1>3, <1>4, <1>5 DEF Next

(* Every bucket holds at most a second's worth and every sleep is a second *)
(* at most, for any rates.                                                 *)
THEOREM LimiterTypeCorrect == Spec => []TypeOK
BY InitTypes, NextTypes, PTL DEF Spec

-----------------------------------------------------------------------------
(* The line *)

(* Whoever asked has a place in the line, and nothing else has.            *)
LEMMA PlacesOfRequests ==
  ASSUME TypeOK
  PROVE  /\ Len(arrived) \in Nat /\ DOMAIN arrived = Places
         /\ \A i \in Places : i \in Nat /\ i >= 1 /\ i <= Len(arrived) /\ arrived[i] \in Requests
<1>1. arrived \in Seq(Requests)
  BY DEF TypeOK
<1>2. Len(arrived) \in Nat /\ DOMAIN arrived = 1..Len(arrived)
  BY <1>1, LenProperties
<1>3. \A i \in 1..Len(arrived) : arrived[i] \in Requests
  BY <1>1, ElementOfSeq
<1>4. QED
  BY <1>2, <1>3 DEF Places

LEMMA ArriveKeepsLine ==
  ASSUME IInv, NEW c \in Requests, Arrive(c) PROVE ChainInv' /\ TurnInv'
<1> USE DEF IInv, TypeOK
<1>1. /\ Len(arrived) \in Nat /\ Len(arrived') = Len(arrived) + 1
      /\ arrived'[Len(arrived) + 1] = c
      /\ \A i \in Places : arrived'[i] = arrived[i] /\ arrived[i] \in Requests
  BY AppendProperties, LenProperties DEF Arrive, Places
<1>2. pc[c] = "idle" /\ c \notin left /\ \A i \in Places : arrived[i] # c
  BY DEF Arrive, ChainInv, TurnInv, Settled
<1>3. /\ pc' = [pc EXCEPT ![c] = "inLine"] /\ ahead' = [ahead EXCEPT ![c] = line]
      /\ line' = c /\ left' = left
  BY DEF Arrive
<1> DEFINE n == Len(arrived)
<1>4. /\ Places = 1..n /\ Places' = 1..(n + 1) /\ n \in Nat
      /\ arrived'[n + 1] = c /\ \A i \in 1..n : arrived'[i] = arrived[i]
      /\ pc'[c] = "inLine" /\ ahead'[c] = line
      /\ \A i \in 1..n : pc'[arrived[i]] = pc[arrived[i]]
                         /\ ahead'[arrived[i]] = ahead[arrived[i]]
  BY <1>1, <1>2, <1>3 DEF Places
<1> HIDE DEF n
<1>5. ChainInv'
  <2>1. line = IF n = 0 THEN NoRequest ELSE arrived[n]
    BY DEF ChainInv, n
  <2>2. line' = IF Len(arrived') = 0 THEN NoRequest ELSE arrived'[Len(arrived')]
    BY <1>1, <1>3
  <2>3. ASSUME NEW i \in 1..(n + 1)
        PROVE  /\ pc'[arrived'[i]] # "idle"
               /\ ahead'[arrived'[i]] = IF i = 1 THEN NoRequest ELSE arrived'[i - 1]
    <3>1. CASE i = n + 1
      BY <1>4, <2>1, <3>1
    <3>2. CASE i \in 1..n
      <4>1. /\ pc'[arrived'[i]] = pc[arrived[i]] /\ ahead'[arrived'[i]] = ahead[arrived[i]]
            /\ i = 1 \/ arrived'[i - 1] = arrived[i - 1]
        <5>1. i = 1 \/ i - 1 \in 1..n
          BY <1>4, <3>2
        <5>2. QED
          BY <1>4, <3>2, <5>1
      <4>2. /\ pc[arrived[i]] # "idle"
            /\ ahead[arrived[i]] = IF i = 1 THEN NoRequest ELSE arrived[i - 1]
        BY <1>4, <3>2 DEF ChainInv
      <4>3. QED
        BY <4>1, <4>2
    <3>3. QED
      BY <1>4, <3>1, <3>2
  <2>4. QED
    BY <1>4, <2>2, <2>3 DEF ChainInv
<1>6. TurnInv'
  <2>1. \A a \in left' : pc'[a] \in Settled
    BY <1>2, <1>3 DEF TurnInv
  <2>2. ASSUME NEW i \in 1..(n + 1), arrived'[i] \in left' \/ pc'[arrived'[i]] = "sleeping"
        PROVE  i \in 1..n /\ Cleared(i)
    <3>1. CASE i = n + 1
      BY <1>2, <1>3, <1>4, <2>2, <3>1
    <3>2. CASE i \in 1..n
      <4>1. arrived[i] \in left \/ pc[arrived[i]] = "sleeping"
        BY <1>3, <1>4, <2>2, <3>2
      <4>2. QED
        BY <1>4, <3>2, <4>1 DEF TurnInv
    <3>3. QED
      BY <1>4, <3>1, <3>2
  <2>3. ASSUME NEW i \in 1..n, Cleared(i) PROVE Cleared(i)'
    <3>1. \A j \in 1..(i - 1) : j \in 1..n
      BY <1>4
    <3>2. QED
      BY <1>3, <1>4, <2>3, <3>1 DEF Cleared
  <2>4. QED
    BY <1>4, <2>1, <2>2, <2>3 DEF TurnInv
<1>7. QED
  BY <1>5, <1>6

(* Whoever takes a turn of the loop has nobody in front.                   *)
LEMMA TurnIsClear ==
  ASSUME IInv, NEW c \in Requests, ReachFront(c) \/ Wake(c)
  PROVE  \A i \in Places : arrived[i] = c => Cleared(i)
<1> SUFFICES ASSUME NEW i \in Places, arrived[i] = c PROVE Cleared(i)
  OBVIOUS
<1> USE DEF IInv
<1>1. Len(arrived) \in Nat /\ i \in Nat /\ i >= 1 /\ i <= Len(arrived)
  BY PlacesOfRequests
<1>2. CASE Wake(c)
  BY <1>2 DEF Wake, TurnInv
<1>3. CASE ReachFront(c)
  <2>1. CASE i = 1
    BY <2>1 DEF Cleared
  <2>2. CASE i # 1
    <3>1. i - 1 \in Places /\ arrived[i - 1] \in Requests
      <4>1. i - 1 \in Places
        BY <1>1, <2>2 DEF Places
      <4>2. QED
        BY <4>1, PlacesOfRequests
    <3>2. arrived[i - 1] \in left
      BY <1>3, <2>2, <3>1, LimiterAssumption DEF ReachFront, Resolved, ChainInv
    <3>3. Cleared(i - 1)
      BY <3>1, <3>2 DEF TurnInv
    <3>4. \A j \in 1..(i - 1) : j = i - 1 \/ j \in 1..((i - 1) - 1)
      BY <1>1
    <3>5. QED
      BY <3>2, <3>3, <3>4 DEF Cleared
  <2>3. QED
    BY <2>1, <2>2
<1>4. QED
  BY <1>2, <1>3

LEMMA TurnKeepsLine ==
  ASSUME IInv, NEW c \in Requests, ReachFront(c) \/ Wake(c) PROVE ChainInv' /\ TurnInv'
<1> USE DEF IInv
<1>1. /\ UNCHANGED <<line, ahead, left, arrived>>
      /\ pc[c] \in {"inLine", "sleeping"}
      /\ \E to \in {"admitted", "sleeping"} : pc' = [pc EXCEPT ![c] = to]
  BY DEF ReachFront, Wake, Attempt, Admit, Sleep, lineVars
<1>2. c \notin left
  BY <1>1 DEF TurnInv, Settled
<1>3. ChainInv'
  BY <1>1 DEF ChainInv, Places, TypeOK
<1>4. TurnInv'
  <2>1. Places' = Places /\ \A i \in Places : Cleared(i)' <=> Cleared(i)
    BY <1>1 DEF Places, Cleared
  <2>2. ASSUME NEW i \in Places, arrived[i] \in left \/ pc'[arrived[i]] = "sleeping"
        PROVE  Cleared(i)
    BY <1>1, <2>2, TurnIsClear DEF TurnInv, TypeOK
  <2>3. \A a \in left' : pc'[a] \in Settled
    BY <1>1, <1>2 DEF TurnInv, TypeOK
  <2>4. QED
    BY <1>1, <2>1, <2>2, <2>3 DEF TurnInv
<1>5. QED
  BY <1>3, <1>4

LEMMA ReleaseKeepsLine ==
  ASSUME IInv, NEW c \in Requests, Release(c) PROVE ChainInv' /\ TurnInv'
<1> USE DEF IInv
<1>1. UNCHANGED <<line, ahead, arrived, pc>> /\ left' = left \cup {c} /\ pc[c] \in Settled
  BY DEF Release
<1>2. ASSUME NEW i \in Places, arrived[i] = c PROVE Cleared(i)
  <2>1. Len(arrived) \in Nat /\ i \in Nat /\ i >= 1 /\ i <= Len(arrived)
    BY PlacesOfRequests
  <2>2. CASE i = 1
    BY <2>2 DEF Cleared
  <2>3. CASE i # 1
    <3>1. i - 1 \in Places /\ arrived[i - 1] \in Requests
      <4>1. i - 1 \in Places
        BY <2>1, <2>3 DEF Places
      <4>2. QED
        BY <4>1, PlacesOfRequests
    <3>2. arrived[i - 1] \in left
      BY <1>2, <2>3, <3>1, LimiterAssumption DEF Release, Resolved, ChainInv
    <3>3. Cleared(i - 1)
      BY <3>1, <3>2 DEF TurnInv
    <3>4. \A j \in 1..(i - 1) : j = i - 1 \/ j \in 1..((i - 1) - 1)
      BY <2>1
    <3>5. QED
      BY <3>2, <3>3, <3>4 DEF Cleared
  <2>4. QED
    BY <2>2, <2>3
<1>3. ChainInv'
  BY <1>1 DEF ChainInv, Places
<1>4. TurnInv'
  BY <1>1, <1>2 DEF TurnInv, Places, Cleared
<1>5. QED
  BY <1>3, <1>4

LEMMA LineKept == IInv /\ [Next]_vars => IInv'
<1> SUFFICES ASSUME IInv, [Next]_vars PROVE ChainInv' /\ TurnInv'
  BY NextTypes DEF IInv
<1>1. ASSUME NEW c \in Requests, Abort(c) PROVE ChainInv' /\ TurnInv'
  <2> USE DEF IInv
  <2>1. /\ UNCHANGED <<line, ahead, left, arrived>>
        /\ \A a \in Requests \ {c} : pc'[a] = pc[a]
        /\ pc'[c] = "aborted" /\ pc[c] # "idle"
    BY <1>1 DEF Abort, lineVars, TypeOK
  <2>2. Places' = Places /\ \A i \in Places : Cleared(i)' <=> Cleared(i)
    BY <2>1 DEF Places, Cleared
  <2>3. \A a : pc[a] # "idle" /\ a \in Requests => pc'[a] # "idle"
    BY <2>1
  <2>4. \A i \in Places : arrived[i] \in Requests
    BY ElementOfSeq DEF Places, TypeOK
  <2>5. ChainInv'
    BY <2>1, <2>2, <2>3, <2>4 DEF ChainInv
  <2>6. TurnInv'
    BY <2>1, <2>2, <2>4 DEF TurnInv, Settled, TypeOK
  <2>7. QED
    BY <2>5, <2>6
<1>2. CASE UNCHANGED <<line, ahead, left, arrived, pc>>
  BY <1>2 DEF IInv, ChainInv, TurnInv, Places, Cleared
<1>3. QED
  BY <1>1, <1>2, ArriveKeepsLine, TurnKeepsLine, ReleaseKeepsLine
     DEF Next, Fire, Tick, vars, lineVars

LEMMA LineInvariant == Spec => []IInv
<1>1. Init => IInv
  BY InitTypes DEF Init, IInv, ChainInv, TurnInv, Places
<1>2. QED
  BY <1>1, LineKept, PTL DEF Spec

(* Nobody is admitted before someone who asked earlier and still waits,    *)
(* whatever the sizes, the rates and the signals.                          *)
THEOREM FirstComeFirstServed == Spec => NoOvertaking
<1>1. ASSUME IInv, [Next]_vars, NEW b \in Requests, NEW c \in Requests,
             Admits(c), Before(b, c)
      PROVE  pc[b] \in Settled
  <2>1. ReachFront(c) \/ Wake(c)
    <3>1. ASSUME NEW a \in Requests, \E to : pc' = [pc EXCEPT ![a] = to], a # c PROVE FALSE
      BY <1>1, <3>1 DEF Admits, IInv, TypeOK
    <3>2. ASSUME NEW a \in Requests, Arrive(a) \/ Abort(a) PROVE FALSE
      BY <1>1, <3>2 DEF Arrive, Abort, Admits, IInv, TypeOK
    <3>3. ASSUME NEW a \in Requests, ReachFront(a) \/ Wake(a) PROVE a = c
      BY <3>1, <3>3 DEF ReachFront, Wake, Attempt, Admit, Sleep
    <3>4. pc' # pc
      BY <1>1 DEF Admits
    <3>5. ASSUME NEW a \in Requests, Release(a) \/ Fire(a) PROVE pc' = pc
      BY <3>5 DEF Release, Fire
    <3>6. Tick \/ UNCHANGED vars => pc' = pc
      BY DEF Tick, vars
    <3>7. PICK a \in Requests : ReachFront(a) \/ Wake(a)
      BY <1>1, <3>2, <3>4, <3>5, <3>6 DEF Next
    <3>8. QED
      BY <3>3, <3>7
  <2>2. PICK i, j \in DOMAIN arrived : i < j /\ arrived[i] = b /\ arrived[j] = c
    BY <1>1 DEF Before
  <2>3. i \in 1..(j - 1) /\ j \in Places
    <3>1. i \in Places /\ j \in Places
      BY <1>1, <2>2, PlacesOfRequests DEF IInv
    <3>2. QED
      BY <1>1, <2>2, <3>1, PlacesOfRequests DEF IInv
  <2>4. Cleared(j)
    BY <1>1, <2>1, <2>2, <2>3, TurnIsClear
  <2>5. QED
    BY <1>1, <2>2, <2>3, <2>4 DEF Cleared, IInv, TurnInv
<1>2. IInv /\ [Next]_vars =>
        [\A b, c \in Requests : Admits(c) /\ Before(b, c) => pc[b] \in Settled]_vars
  BY <1>1
<1>3. QED
  BY <1>2, LineInvariant, PTL DEF Spec, NoOvertaking

-----------------------------------------------------------------------------
LEMMA Products ==
  ASSUME NEW m \in Int, NEW a \in Int, NEW b \in Int
  PROVE  m * a \in Int /\ m * (a + b) = m * a + m * b /\ (a + b) * m = a * m + b * m /\ a * m = m * a
OBVIOUS

(* What the buckets hold, as time passes and requests are admitted *)

VectorsNow  == Refilled(vectors, VectorRefill)
RequestsNow == Refilled(requests, RequestRefill)

(* What a bucket holds that held `available` t ticks ago.                  *)
Held(available, refill, t) == Smaller(refill * TicksPerSecond, available + t * refill)

LEMMA HeldGrows ==
  ASSUME NEW available \in Int, NEW refill \in Nat, NEW t \in Nat
  PROVE  /\ Held(available, refill, t) \in Int
         /\ Held(available, refill, t) <= refill * TicksPerSecond
         /\ Held(available, refill, t + 1)
              = Smaller(refill * TicksPerSecond, Held(available, refill, t) + refill)
<1>1. refill * TicksPerSecond \in Nat /\ t * refill \in Nat
  BY LimiterAssumption
<1>2. (t + 1) * refill = t * refill + refill
  OBVIOUS
<1>3. QED
  BY <1>1, <1>2 DEF Held, Smaller

(* Just charged, or just looked at, a bucket holds what it was left with.  *)
LEMMA HeldAtOnce ==
  ASSUME NEW available \in Int, NEW refill \in Nat, available <= refill * TicksPerSecond
  PROVE  Held(available, refill, 0) = available
<1>1. refill * TicksPerSecond \in Nat /\ 0 * refill = 0
  BY LimiterAssumption
<1>2. QED
  BY <1>1 DEF Held, Smaller

LEMMA BucketsNow ==
  ASSUME TypeOK
  PROVE  /\ VectorsNow \in Int /\ VectorsNow <= VectorCap
         /\ RequestsNow \in Int /\ RequestsNow <= RequestCap
BY RefillBounded, LimiterAssumption DEF VectorsNow, RequestsNow, VectorCap, RequestCap, TypeOK

(* A turn of the loop charges both buckets for the request it admits, and  *)
(* neither when it has to wait.                                            *)
LEMMA BucketsTurn ==
  ASSUME TypeOK, NEW c \in Requests, Attempt(c)
  PROVE  \/ /\ Admit(c)
            /\ VectorsNow' = VectorsNow - count[c] /\ RequestsNow' = RequestsNow - RequestCost
         \/ Sleep(c) /\ VectorsNow' = VectorsNow /\ RequestsNow' = RequestsNow
<1>1. /\ VectorsNow \in Int /\ VectorsNow <= VectorCap
      /\ RequestsNow \in Int /\ RequestsNow <= RequestCap
  BY BucketsNow
<1>2. count[c] \in Nat /\ RequestCost \in Nat /\ VectorRefill \in Nat /\ RequestRefill \in Nat
  BY LimiterAssumption DEF TypeOK
<1>3. elapsed' = 0
  BY DEF Attempt
<1>4. VectorsNow' = Held(vectors', VectorRefill, 0) /\ RequestsNow' = Held(requests', RequestRefill, 0)
  BY <1>3 DEF VectorsNow, RequestsNow, Refilled, Held
<1>5. ASSUME NEW left_v \in Int, left_v <= VectorCap, vectors' = left_v PROVE VectorsNow' = left_v
  BY <1>2, <1>4, <1>5, HeldAtOnce DEF VectorCap
<1>6. ASSUME NEW left_r \in Int, left_r <= RequestCap, requests' = left_r PROVE RequestsNow' = left_r
  BY <1>2, <1>4, <1>6, HeldAtOnce DEF RequestCap
<1>7. CASE Admit(c)
  <2>1. vectors' = VectorsNow - count[c] /\ requests' = RequestsNow - RequestCost
    BY <1>7 DEF Admit, VectorsNow, RequestsNow
  <2>2. VectorsNow - count[c] \in Int /\ VectorsNow - count[c] <= VectorCap
    BY <1>1, <1>2, CapsArePositive
  <2>3. RequestsNow - RequestCost \in Int /\ RequestsNow - RequestCost <= RequestCap
    BY <1>1, <1>2, CapsArePositive
  <2>4. QED
    BY <1>5, <1>6, <1>7, <2>1, <2>2, <2>3
<1>8. CASE Sleep(c)
  <2>1. vectors' = VectorsNow /\ requests' = RequestsNow
    BY <1>8 DEF Sleep, VectorsNow, RequestsNow
  <2>2. QED
    BY <1>1, <1>5, <1>6, <1>8, <2>1
<1>9. QED
  BY <1>7, <1>8 DEF Attempt

(* A tick refills them, unless the time since the last look is past telling*)
(* apart.                                                                  *)
LEMMA BucketsTick ==
  ASSUME TypeOK, Tick, elapsed <= MaxElapsed
  PROVE  /\ elapsed < MaxElapsed =>
               /\ VectorsNow' = Smaller(VectorCap, VectorsNow + VectorRefill)
               /\ RequestsNow' = Smaller(RequestCap, RequestsNow + RequestRefill)
         /\ elapsed = MaxElapsed => VectorsNow' = VectorsNow /\ RequestsNow' = RequestsNow
<1>1. /\ vectors' = vectors /\ requests' = requests
      /\ elapsed' = IF elapsed + 1 < MaxElapsed THEN elapsed + 1 ELSE MaxElapsed
  BY DEF Tick, Smaller
<1>2. /\ vectors \in Int /\ requests \in Int /\ elapsed \in Nat /\ MaxElapsed \in Nat
      /\ VectorRefill \in Nat /\ RequestRefill \in Nat
  BY LimiterAssumption DEF TypeOK
<1>3. /\ VectorsNow = Held(vectors, VectorRefill, elapsed)
      /\ RequestsNow = Held(requests, RequestRefill, elapsed)
      /\ VectorsNow' = Held(vectors, VectorRefill, elapsed')
      /\ RequestsNow' = Held(requests, RequestRefill, elapsed')
  BY <1>1 DEF VectorsNow, RequestsNow, Refilled, Held
<1>4. CASE elapsed < MaxElapsed
  <2>1. elapsed' = elapsed + 1
    BY <1>1, <1>2, <1>4
  <2>2. QED
    BY <1>2, <1>3, <1>4, <2>1, HeldGrows DEF VectorCap, RequestCap
<1>5. CASE elapsed = MaxElapsed
  <2>1. elapsed' = elapsed
    BY <1>1, <1>2, <1>5
  <2>2. QED
    BY <1>2, <1>3, <1>5, <2>1
<1>6. QED
  BY <1>2, <1>4, <1>5

-----------------------------------------------------------------------------
(* What was admitted *)

(* An admission is one more, and changes no other.                         *)
LEMMA LogGrows ==
  ASSUME TypeOK, NEW c \in Requests, Admit(c)
  PROVE  /\ Len(log') = Len(log) + 1 /\ DOMAIN log' = 1..(Len(log) + 1)
         /\ \A k \in 1..Len(log) : log'[k] = log[k]
         /\ log'[Len(log) + 1] = Admission(c)
         /\ log'[Len(log) + 1].vectors = count[c]
<1>1. log' = Append(log, Admission(c)) /\ log \in Seq(Admissions)
  BY DEF Admit, TypeOK
<1>2. Admission(c) \in Admissions /\ Admission(c).vectors = count[c]
  BY AdmissionTypes
<1>3. /\ Len(log') = Len(log) + 1 /\ log'[Len(log) + 1] = Admission(c)
      /\ \A k \in 1..Len(log) : log'[k] = log[k]
      /\ log' \in Seq(Admissions)
  BY <1>1, <1>2, AppendProperties
<1>4. DOMAIN log' = 1..(Len(log) + 1)
  BY <1>3, LenProperties
<1>5. QED
  BY <1>2, <1>3, <1>4

-----------------------------------------------------------------------------
(* What an admission and those since have left of a full bucket, and what  *)
(* has been refilled since.                                                *)
VectorsLeft(i) == VectorCap + VectorRefill * TicksSince(i) - Load(i, Len(log))
RequestsLeft(i) ==
  RequestCap + RequestRefill * TicksSince(i) - RequestCost * (Len(log) - i + 1)

LEMMA LeftTypes ==
  ASSUME TypeOK, NEW i \in DOMAIN log
  PROVE  /\ i \in 1..Len(log) /\ i \in Nat /\ Len(log) \in Nat
         /\ TicksSince(i) \in Int /\ Ticks(i, Len(log)) \in Int /\ Load(i, Len(log)) \in Int
         /\ VectorsLeft(i) \in Int /\ RequestsLeft(i) \in Int
<1>1. Len(log) \in Nat /\ i \in 1..Len(log) /\ i \in Nat /\ sinceAdmission \in Nat
  BY LogEntries DEF TypeOK
<1>2. Len(log) \in 1..Len(log)
  BY <1>1
<1>3. Ticks(i, Len(log)) \in Int /\ Load(i, Len(log)) \in Int
  BY <1>1, <1>2, LogEntries DEF Ticks, Load
<1>4. TicksSince(i) \in Int
  BY <1>1, <1>3 DEF TicksSince
<1>5. QED
  BY <1>1, <1>3, <1>4, LimiterAssumption, CapsArePositive DEF VectorsLeft, RequestsLeft

(* A tick adds what a tick refills.                                        *)
LEMMA LeftTick ==
  ASSUME TypeOK, Tick, sinceAdmission <= MaxElapsed, NEW i \in DOMAIN log
  PROVE  /\ sinceAdmission < MaxElapsed =>
              /\ VectorsLeft(i)' = VectorsLeft(i) + VectorRefill
              /\ RequestsLeft(i)' = RequestsLeft(i) + RequestRefill
         /\ sinceAdmission = MaxElapsed =>
              VectorsLeft(i)' = VectorsLeft(i) /\ RequestsLeft(i)' = RequestsLeft(i)
<1>1. /\ log' = log
      /\ sinceAdmission' = IF sinceAdmission + 1 < MaxElapsed THEN sinceAdmission + 1 ELSE MaxElapsed
  BY DEF Tick, Smaller
<1>2. /\ Len(log') = Len(log) /\ Load(i, Len(log))' = Load(i, Len(log))
      /\ Ticks(i, Len(log))' = Ticks(i, Len(log))
  BY <1>1 DEF Load, Ticks
<1>3. TicksSince(i)' = sinceAdmission' + Ticks(i, Len(log))
  BY <1>2 DEF TicksSince
<1>4. VectorsLeft(i)' = VectorCap + VectorRefill * TicksSince(i)' - Load(i, Len(log))
  BY <1>2 DEF VectorsLeft
<1>5. RequestsLeft(i)' = RequestCap + RequestRefill * TicksSince(i)' - RequestCost * (Len(log) - i + 1)
  BY <1>2 DEF RequestsLeft
<1>6. sinceAdmission \in Nat /\ MaxElapsed \in Nat /\ TicksSince(i) = sinceAdmission + Ticks(i, Len(log))
      /\ Ticks(i, Len(log)) \in Int
  BY LeftTypes, LimiterAssumption DEF TypeOK, TicksSince
<1>7. CASE sinceAdmission < MaxElapsed
  <2>1. TicksSince(i)' = TicksSince(i) + 1
    BY <1>1, <1>3, <1>6, <1>7
  <2>2. /\ VectorRefill * (TicksSince(i) + 1) = VectorRefill * TicksSince(i) + VectorRefill
        /\ RequestRefill * (TicksSince(i) + 1) = RequestRefill * TicksSince(i) + RequestRefill
    <3>1. /\ TicksSince(i) \in Int /\ VectorRefill \in Int /\ RequestRefill \in Int
          /\ VectorRefill * 1 = VectorRefill /\ RequestRefill * 1 = RequestRefill
      BY LeftTypes, LimiterAssumption
    <3>2. QED
      BY <3>1, Products
  <2>3. /\ VectorRefill * TicksSince(i) \in Int /\ RequestRefill * TicksSince(i) \in Int
        /\ RequestCost * (Len(log) - i + 1) \in Int
    <3>1. /\ TicksSince(i) \in Int /\ VectorRefill \in Int /\ RequestRefill \in Int
          /\ RequestCost \in Int /\ Len(log) - i + 1 \in Int
      BY LeftTypes, LimiterAssumption
    <3>2. QED
      BY <3>1, Products
  <2>4. VectorsLeft(i)' = VectorsLeft(i) + VectorRefill
    <3>1. VectorsLeft(i)'
            = VectorCap + (VectorRefill * TicksSince(i) + VectorRefill) - Load(i, Len(log))
      BY <1>4, <2>1, <2>2, Zenon
    <3>2. VectorsLeft(i) = VectorCap + VectorRefill * TicksSince(i) - Load(i, Len(log))
      BY DEF VectorsLeft
    <3>3. PICK p : p = VectorRefill * TicksSince(i)
      OBVIOUS
    <3>4. VectorCap \in Int /\ p \in Int /\ VectorRefill \in Int /\ Load(i, Len(log)) \in Int
      BY <2>3, <3>3, LeftTypes, LimiterAssumption, CapsArePositive
    <3>5. QED
      BY <3>1, <3>2, <3>3, <3>4
  <2>5. RequestsLeft(i)' = RequestsLeft(i) + RequestRefill
    <3>1. RequestsLeft(i)'
            = RequestCap + (RequestRefill * TicksSince(i) + RequestRefill)
                - RequestCost * (Len(log) - i + 1)
      BY <1>5, <2>1, <2>2, Zenon
    <3>2. RequestsLeft(i)
            = RequestCap + RequestRefill * TicksSince(i) - RequestCost * (Len(log) - i + 1)
      BY DEF RequestsLeft
    <3>3. PICK p, q : p = RequestRefill * TicksSince(i) /\ q = RequestCost * (Len(log) - i + 1)
      OBVIOUS
    <3>4. RequestCap \in Int /\ p \in Int /\ q \in Int /\ RequestRefill \in Int
      BY <2>3, <3>3, LimiterAssumption, CapsArePositive
    <3>5. QED
      BY <3>1, <3>2, <3>3, <3>4
  <2>6. QED
    BY <1>6, <1>7, <2>4, <2>5
<1>8. CASE sinceAdmission = MaxElapsed
  <2>1. TicksSince(i)' = TicksSince(i)
    BY <1>1, <1>3, <1>6, <1>8
  <2>2. QED
    BY <1>4, <1>5, <1>6, <1>8, <2>1 DEF VectorsLeft, RequestsLeft
<1>9. QED
  BY <1>6, <1>7, <1>8

(* An admission takes what it carries, and starts the count of its own.    *)
LEMMA LeftAdmit ==
  ASSUME TypeOK, NEW c \in Requests, Admit(c)
  PROVE  /\ \A i \in DOMAIN log : /\ VectorsLeft(i)' = VectorsLeft(i) - count[c]
                                  /\ RequestsLeft(i)' = RequestsLeft(i) - RequestCost
         /\ \A i : i = Len(log) + 1 => /\ VectorsLeft(i)' = VectorCap - count[c]
                                       /\ RequestsLeft(i)' = RequestCap - RequestCost
<1> PICK n : n = Len(log)
  OBVIOUS
<1>1. sinceAdmission' = 0 /\ Len(log') = n + 1
  BY LogGrows DEF Admit
<1>2. /\ n \in Nat /\ count[c] \in Nat /\ sinceAdmission \in Nat
      /\ VectorRefill \in Nat /\ RequestRefill \in Nat /\ RequestCost \in Nat
      /\ VectorCap \in Nat /\ RequestCap \in Nat
  BY LogEntries, LimiterAssumption, CapsArePositive DEF TypeOK
<1>3. /\ \A k \in 1..n : log'[k] = log[k]
      /\ log'[n + 1] = Admission(c) /\ Admission(c).vectors = count[c]
      /\ Admission(c).before \in Nat /\ Admission(c).at \in Nat
      /\ n > 0 => /\ Admission(c).before = log[n].before + log[n].vectors
                  /\ Admission(c).at = log[n].at + sinceAdmission
  BY LogGrows, AdmissionTypes DEF Admissions
<1>4. \A i : /\ Load(i, Len(log))' = Admission(c).before + count[c] - log'[i].before
             /\ Ticks(i, Len(log))' = Admission(c).at - log'[i].at
             /\ TicksSince(i)' = 0 + (Admission(c).at - log'[i].at)
             /\ VectorsLeft(i)' = VectorCap + VectorRefill * TicksSince(i)' - Load(i, Len(log))'
             /\ RequestsLeft(i)' = RequestCap + RequestRefill * TicksSince(i)' - RequestCost * ((n + 1) - i + 1)
  BY <1>1, <1>3 DEF Load, Ticks, TicksSince, VectorsLeft, RequestsLeft
<1>5. ASSUME NEW i \in DOMAIN log
      PROVE  /\ VectorsLeft(i)' = VectorsLeft(i) - count[c]
             /\ RequestsLeft(i)' = RequestsLeft(i) - RequestCost
  <2>1. i \in Nat /\ i \in 1..n /\ n > 0 /\ n \in 1..n
    <3>1. i \in 1..n
      BY LogEntries
    <3>2. QED
      BY <1>2, <3>1
  <2>2. /\ log[i].before \in Int /\ log[i].at \in Int
        /\ log[n].before \in Int /\ log[n].vectors \in Int /\ log[n].at \in Int
    BY <2>1, LogEntries
  <2>3. /\ Load(i, Len(log))' = Load(i, Len(log)) + count[c] /\ Load(i, Len(log)) \in Int
        /\ TicksSince(i)' = TicksSince(i) /\ TicksSince(i) \in Int
    <3>1. /\ Load(i, Len(log)) = log[n].before + log[n].vectors - log[i].before
          /\ TicksSince(i) = sinceAdmission + (log[n].at - log[i].at)
      BY DEF Load, TicksSince, Ticks
    <3>2. /\ Load(i, Len(log))' = (log[n].before + log[n].vectors) + count[c] - log[i].before
          /\ TicksSince(i)' = 0 + ((log[n].at + sinceAdmission) - log[i].at)
      BY <1>3, <1>4, <2>1
    <3>3. PICK bn, vn, an, bi, ai :
            /\ bn = log[n].before /\ vn = log[n].vectors /\ an = log[n].at
            /\ bi = log[i].before /\ ai = log[i].at
      OBVIOUS
    <3>4. /\ Load(i, Len(log)) = bn + vn - bi /\ TicksSince(i) = sinceAdmission + (an - ai)
          /\ Load(i, Len(log))' = (bn + vn) + count[c] - bi
          /\ TicksSince(i)' = 0 + ((an + sinceAdmission) - ai)
          /\ bn \in Int /\ vn \in Int /\ an \in Int /\ bi \in Int /\ ai \in Int
      BY <2>2, <3>1, <3>2, <3>3
    <3>5. QED
      BY <1>2, <3>4
  <2>4. VectorRefill * TicksSince(i) \in Int /\ RequestRefill * TicksSince(i) \in Int
    BY <1>2, <2>3
  <2>5. /\ RequestCost * ((n + 1) - i + 1) = RequestCost * (n - i + 1) + RequestCost
        /\ RequestCost * (n - i + 1) \in Int
    <3>1. (n + 1) - i + 1 = (n - i + 1) + 1 /\ n - i + 1 \in Int /\ RequestCost \in Int
      BY <1>2, <2>1
    <3>2. RequestCost * ((n - i + 1) + 1) = RequestCost * (n - i + 1) + RequestCost * 1
      BY <3>1, Products
    <3>3. RequestCost * (n - i + 1) \in Int /\ RequestCost * 1 = RequestCost
      BY <3>1, Products
    <3>4. QED
      BY <3>1, <3>2, <3>3
  <2>6. VectorsLeft(i)' = VectorsLeft(i) - count[c]
    <3>1. VectorsLeft(i)' = VectorCap + VectorRefill * TicksSince(i) - (Load(i, Len(log)) + count[c])
      <4>1. VectorsLeft(i)' = VectorCap + VectorRefill * TicksSince(i)' - Load(i, Len(log))'
        BY <1>4
      <4>2. QED
        BY <2>3, <4>1
    <3>2. PICK p, l : p = VectorRefill * TicksSince(i) /\ l = Load(i, Len(log))
      OBVIOUS
    <3>3. /\ VectorsLeft(i)' = VectorCap + p - (l + count[c])
          /\ VectorsLeft(i) = VectorCap + p - l /\ p \in Int /\ l \in Int
      BY <2>3, <2>4, <3>1, <3>2 DEF VectorsLeft
    <3>4. QED
      BY <1>2, <3>3
  <2>7. RequestsLeft(i)' = RequestsLeft(i) - RequestCost
    <3>1. RequestsLeft(i)' = RequestCap + RequestRefill * TicksSince(i) - (RequestCost * (n - i + 1) + RequestCost)
      BY <1>4, <2>3, <2>5
    <3>2. QED
      BY <1>2, <2>4, <2>5, <3>1 DEF RequestsLeft
  <2>8. QED
    BY <2>6, <2>7
<1>6. /\ VectorsLeft(n + 1)' = VectorCap - count[c]
      /\ RequestsLeft(n + 1)' = RequestCap - RequestCost
  <2>1. (n + 1) - (n + 1) + 1 = 1
    BY <1>2
  <2>2. /\ Load(n + 1, Len(log))' = Admission(c).before + count[c] - Admission(c).before
        /\ TicksSince(n + 1)' = 0 + (Admission(c).at - Admission(c).at)
    BY <1>3, <1>4
  <2>4. Load(n + 1, Len(log))' = count[c] /\ TicksSince(n + 1)' = 0
    BY <1>2, <1>3, <2>2
  <2>5. VectorsLeft(n + 1)' = VectorCap + VectorRefill * 0 - count[c]
    BY <1>4, <2>4, Zenon
  <2>6. RequestsLeft(n + 1)' = RequestCap + RequestRefill * 0 - RequestCost * 1
    BY <1>4, <2>1, <2>4, Zenon
  <2>7. QED
    BY <1>2, <2>5, <2>6
<1>7. QED
  BY <1>5, <1>6

-----------------------------------------------------------------------------
(* The rate *)

(* The times are those told apart, and what was asked for is what a        *)
(* request may carry.                                                      *)
ClockInv ==
  /\ elapsed <= sinceAdmission /\ sinceAdmission <= MaxElapsed
  /\ \A c \in Requests : pc[c] # "idle" => count[c] \in Counts
  /\ \A k \in DOMAIN log : log[k].vectors \in Counts

(* No bucket holds more than any admission and those since have left of a  *)
(* full one.                                                               *)
ReserveInv == \A i \in DOMAIN log : VectorsNow <= VectorsLeft(i) /\ RequestsNow <= RequestsLeft(i)

LEMMA ClockKept == TypeOK /\ ClockInv /\ [Next]_vars => ClockInv'
<1> SUFFICES ASSUME TypeOK, ClockInv, [Next]_vars PROVE ClockInv'
  OBVIOUS
<1>1. ASSUME NEW c \in Requests, ReachFront(c) \/ Wake(c) PROVE ClockInv'
  <2>1. /\ elapsed' = 0 /\ count' = count /\ count[c] \in Counts
        /\ \A a \in Requests : pc'[a] # "idle" => pc[a] # "idle"
    BY <1>1 DEF ReachFront, Wake, Attempt, Admit, Sleep, ClockInv, TypeOK
  <2>2. CASE Admit(c)
    <3>1. sinceAdmission' = 0 /\ MaxElapsed \in Nat
      BY <2>2, LimiterAssumption DEF Admit
    <3>2. ASSUME NEW k \in DOMAIN log' PROVE log'[k].vectors \in Counts
      <4>1. k = Len(log) + 1 \/ k \in 1..Len(log)
        BY <2>2, LogGrows, LogEntries
      <4>2. QED
        BY <2>1, <2>2, <4>1, LogGrows, LogEntries DEF ClockInv
    <3>3. QED
      BY <2>1, <3>1, <3>2 DEF ClockInv
  <2>3. CASE Sleep(c)
    <3>1. log' = log /\ sinceAdmission' = sinceAdmission /\ sinceAdmission \in Nat
      BY <2>3 DEF Sleep, TypeOK
    <3>2. QED
      BY <2>1, <3>1 DEF ClockInv
  <2>4. QED
    BY <1>1, <2>2, <2>3 DEF ReachFront, Wake, Attempt
<1>2. CASE Tick
  <2>1. /\ log' = log /\ pc' = pc /\ count' = count
        /\ elapsed' = Smaller(elapsed + 1, MaxElapsed)
        /\ sinceAdmission' = Smaller(sinceAdmission + 1, MaxElapsed)
        /\ elapsed \in Nat /\ sinceAdmission \in Nat /\ MaxElapsed \in Nat
    BY <1>2, LimiterAssumption DEF Tick, TypeOK
  <2>2. elapsed' <= sinceAdmission' /\ sinceAdmission' <= MaxElapsed
    BY <2>1 DEF Smaller, ClockInv
  <2>3. QED
    BY <2>1, <2>2 DEF ClockInv
<1>3. ASSUME NEW c \in Requests, Arrive(c) PROVE ClockInv'
  BY <1>3 DEF Arrive, ClockInv, TypeOK, budgetVars
<1>4. ASSUME NEW c \in Requests, Abort(c) \/ Release(c) \/ Fire(c) PROVE ClockInv'
  BY <1>4 DEF Abort, Release, Fire, ClockInv, TypeOK, budgetVars
<1>5. CASE UNCHANGED vars
  BY <1>5 DEF vars, budgetVars, ClockInv
<1>6. QED
  BY <1>1, <1>2, <1>3, <1>4, <1>5 DEF Next

LEMMA DivisionBounds ==
  ASSUME NEW n \in Int, NEW d \in Nat \ {0}
  PROVE  n \div d \in Int /\ (n \div d) * d <= n /\ n < (n \div d) * d + d
OBVIOUS

(* A wait is the fewest ticks that repay what is missing.                  *)
LEMMA WaitIsTight ==
  ASSUME TypeOK, NEW available \in Int, NEW tokens \in Nat, NEW refill \in Nat \ {0}
  PROVE  LET now    == Refilled(available, refill)
             wanted == AdmittedOn(tokens, refill)
             wait   == WaitFor(available, tokens, refill)
         IN  /\ now \in Int /\ wanted \in Int /\ wait \in Nat
             /\ wait = 0 <=> now >= wanted
             /\ wait > 0 => wanted - now > (wait - 1) * refill
<1> DEFINE now    == Refilled(available, refill)
           wanted == AdmittedOn(tokens, refill)
           wait   == WaitFor(available, tokens, refill)
           n      == wanted - now + refill - 1
<1>1. now \in Int /\ wanted \in Int /\ wait \in Nat
  BY RefillBounded, WaitTypes, LimiterAssumption DEF AdmittedOn, Smaller
<1>2. wait = IF now >= wanted THEN 0 ELSE n \div refill
  BY DEF WaitFor, Until
<1> HIDE DEF now, wanted, wait
<1>3. CASE now >= wanted
  BY <1>1, <1>2, <1>3 DEF now, wanted, wait
<1>4. CASE ~(now >= wanted)
  <2>1. n \in Int /\ n >= refill /\ wait = n \div refill
    BY <1>1, <1>2, <1>4
  <2>2. wait * refill <= n /\ n < wait * refill + refill
    <3> HIDE DEF n
    <3>1. QED
      BY <2>1, DivisionBounds
  <2>3. wait # 0
    BY <1>1, <2>1, <2>2
  <2>4. wanted - now > (wait - 1) * refill
    <3>1. wait * refill \in Int /\ (wait - 1) * refill = wait * refill - refill
      BY <1>1
    <3>2. QED
      BY <1>1, <2>2, <3>1
  <2>5. QED
    BY <1>1, <1>4, <2>3, <2>4 DEF now, wanted, wait
<1>5. QED
  BY <1>3, <1>4

(* A request is admitted on what both buckets hold.                        *)
LEMMA AdmitIsPaid ==
  ASSUME TypeOK, NEW c \in Requests, Admit(c)
  PROVE  VectorsNow >= Smaller(count[c], VectorCap) /\ RequestsNow >= Smaller(RequestCost, RequestCap)
<1>1. /\ vectors \in Int /\ requests \in Int /\ count[c] \in Nat /\ RequestCost \in Nat
      /\ VectorRefill \in Nat \ {0} /\ RequestRefill \in Nat \ {0}
  BY LimiterAssumption DEF TypeOK
<1> DEFINE v == WaitFor(vectors, count[c], VectorRefill)
           r == WaitFor(requests, RequestCost, RequestRefill)
<1>2. v \in Nat /\ (v = 0 <=> VectorsNow >= Smaller(count[c], VectorCap))
  BY <1>1, WaitIsTight DEF VectorsNow, AdmittedOn, VectorCap
<1>3. r \in Nat /\ (r = 0 <=> RequestsNow >= Smaller(RequestCost, RequestCap))
  BY <1>1, WaitIsTight DEF RequestsNow, AdmittedOn, RequestCap
<1>4. Larger(r, v) = 0
  BY DEF Admit, Wait
<1> HIDE DEF v, r
<1>5. v = 0 /\ r = 0
  BY <1>2, <1>3, <1>4 DEF Larger
<1>6. QED
  BY <1>2, <1>3, <1>5

(* After the longest time told apart every bucket may be full again.       *)
LEMMA FullAgain ==
  ASSUME TypeOK, ClockInv, RateHeld, sinceAdmission = MaxElapsed, NEW i \in DOMAIN log
  PROVE  VectorCap <= VectorsLeft(i) /\ RequestCap <= RequestsLeft(i)
<1> PICK n : n = Len(log)
  OBVIOUS
<1>1. /\ i \in Nat /\ n \in Nat /\ i \in 1..n /\ n \in 1..n /\ DOMAIN log = 1..n
      /\ Ticks(i, n) \in Int /\ Load(i, n) \in Int
      /\ log[n].vectors \in Nat /\ log[n].vectors \in Counts
  <2>1. i \in 1..n /\ n \in Nat /\ DOMAIN log = 1..n
    BY LogEntries
  <2>2. n \in 1..n
    BY <2>1
  <2>3. QED
    BY <2>1, <2>2, LogEntries, LeftTypes DEF ClockInv
<1>2. /\ VectorsLeft(i) = VectorCap + VectorRefill * (MaxElapsed + Ticks(i, n)) - Load(i, n)
      /\ RequestsLeft(i) = RequestCap + RequestRefill * (MaxElapsed + Ticks(i, n)) - RequestCost * (n - i + 1)
  BY DEF VectorsLeft, RequestsLeft, TicksSince
<1>3. /\ VectorRefill \in Nat /\ RequestRefill \in Nat /\ RequestCost \in Nat /\ MaxElapsed \in Nat
      /\ VectorCap \in Nat /\ RequestCap \in Nat
  BY LimiterAssumption, CapsArePositive
<1>4. /\ VectorRefill * (MaxElapsed + Ticks(i, n)) = VectorRefill * MaxElapsed + VectorRefill * Ticks(i, n)
      /\ RequestRefill * (MaxElapsed + Ticks(i, n)) = RequestRefill * MaxElapsed + RequestRefill * Ticks(i, n)
      /\ RequestCost * (n - i + 1) = (n - i) * RequestCost + RequestCost
  <2>1. n - i \in Int /\ n - i + 1 = (n - i) + 1 /\ RequestCost * 1 = RequestCost
    BY <1>1, <1>3
  <2>2. /\ VectorRefill \in Int /\ RequestRefill \in Int /\ RequestCost \in Int
        /\ MaxElapsed \in Int /\ Ticks(i, n) \in Int
    BY <1>1, <1>3
  <2>3. /\ RequestCost * ((n - i) + 1) = RequestCost * (n - i) + RequestCost * 1
        /\ RequestCost * (n - i) = (n - i) * RequestCost
    BY <2>1, <2>2, Products
  <2>4. VectorRefill * (MaxElapsed + Ticks(i, n)) = VectorRefill * MaxElapsed + VectorRefill * Ticks(i, n)
    BY <2>2, Products
  <2>5. RequestRefill * (MaxElapsed + Ticks(i, n)) = RequestRefill * MaxElapsed + RequestRefill * Ticks(i, n)
    BY <2>2, Products
  <2>6. RequestCost * (n - i + 1) = (n - i) * RequestCost + RequestCost
    BY <2>1, <2>3
  <2>7. QED
    BY <2>4, <2>5, <2>6
<1>5. PICK vm, rm, vt, rt, rn :
      /\ vm = VectorRefill * MaxElapsed /\ rm = RequestRefill * MaxElapsed
      /\ vt = VectorRefill * Ticks(i, n) /\ rt = RequestRefill * Ticks(i, n)
      /\ rn = (n - i) * RequestCost
  OBVIOUS
<1>6. PICK w, load : w = log[n].vectors /\ load = Load(i, n)
  OBVIOUS
<1>7. /\ vm \in Int /\ rm \in Int /\ vt \in Int /\ rt \in Int /\ rn \in Int
      /\ w \in Nat /\ load \in Int
  <2>1. /\ VectorRefill \in Int /\ RequestRefill \in Int /\ RequestCost \in Int
        /\ MaxElapsed \in Int /\ Ticks(i, n) \in Int /\ n - i \in Int
    BY <1>1, <1>3
  <2>2. vm \in Int /\ rm \in Int
    BY <1>5, <2>1, Products
  <2>3. vt \in Int /\ rt \in Int
    BY <1>5, <2>1, Products
  <2>4. rn \in Int
    BY <1>5, <2>1, Products
  <2>5. QED
    BY <1>1, <1>6, <2>2, <2>3, <2>4
<1>8. /\ VectorsLeft(i) = VectorCap + (vm + vt) - load
      /\ RequestsLeft(i) = RequestCap + (rm + rt) - (rn + RequestCost)
  BY <1>2, <1>4, <1>5, <1>6
<1>9. vm >= Larger(VectorCap, w) /\ rm >= Larger(RequestCap, RequestCost)
  BY <1>1, <1>5, <1>6, ElapsedAssumption
<1>10. CASE i = n
  <2>1. vt = 0 /\ rt = 0 /\ rn = 0 /\ load = w
    <3>1. Ticks(i, n) = log[n].at - log[n].at /\ log[n].at \in Nat
      BY <1>1, <1>10, LogEntries DEF Ticks
    <3>2. load = log[n].before + w - log[n].before /\ log[n].before \in Nat
      BY <1>1, <1>6, <1>10, LogEntries DEF Load
    <3>3. load = w /\ Ticks(i, n) = 0
      BY <1>7, <3>1, <3>2
    <3>4. n - i = 0
      BY <1>1, <1>10
    <3>5. QED
      BY <1>3, <1>5, <3>3, <3>4
  <2>2. QED
    BY <1>3, <1>7, <1>8, <1>9, <2>1 DEF Larger
<1>11. CASE i # n
  <2>1. /\ (log[n].before - log[i].before) + Smaller(w, VectorCap) <= VectorCap + vt
        /\ rn + Smaller(RequestCost, RequestCap) <= RequestCap + rt
    <3>1. i < n
      BY <1>1, <1>11
    <3>2. QED
      BY <1>1, <1>5, <1>6, <3>1 DEF RateHeld
  <2>2. /\ load = (log[n].before - log[i].before) + w
        /\ log[n].before - log[i].before \in Int
    <3>1. load = log[n].before + w - log[i].before
      BY <1>6 DEF Load
    <3>2. log[n].before \in Nat /\ log[i].before \in Nat
      BY <1>1, LogEntries
    <3>3. QED
      BY <1>7, <3>1, <3>2
  <2>3. VectorCap <= VectorsLeft(i)
    <3>1. PICK since : since = log[n].before - log[i].before
      OBVIOUS
    <3>2. since + Smaller(w, VectorCap) <= VectorCap + vt /\ load = since + w /\ since \in Int
      BY <2>1, <2>2, <3>1
    <3>3. QED
      BY <1>3, <1>7, <1>8, <1>9, <3>2 DEF Larger, Smaller
  <2>4. RequestCap <= RequestsLeft(i)
    BY <1>3, <1>7, <1>8, <1>9, <2>1 DEF Larger, Smaller
  <2>5. QED
    BY <2>3, <2>4
<1>12. QED
  BY <1>10, <1>11

(* Each admission leaves the rate held over every stretch it ends.         *)
LEMMA AdmitHoldsRate ==
  ASSUME TypeOK, ReserveInv, RateHeld, NEW c \in Requests, Admit(c)
  PROVE  RateHeld'
<1> SUFFICES ASSUME NEW i \in DOMAIN log', NEW j \in DOMAIN log', i < j
             PROVE  /\ (log'[j].before - log'[i].before) + Smaller(log'[j].vectors, VectorCap)
                         <= VectorCap + VectorRefill * Ticks(i, j)'
                    /\ (j - i) * RequestCost + Smaller(RequestCost, RequestCap)
                         <= RequestCap + RequestRefill * Ticks(i, j)'
  BY DEF RateHeld
<1> PICK n : n = Len(log)
  OBVIOUS
<1>1. /\ n \in Nat /\ i \in Nat /\ j \in Nat /\ i \in 1..(n + 1) /\ j \in 1..(n + 1)
      /\ DOMAIN log = 1..n
  BY LogGrows, LogEntries
<1>2. Ticks(i, j)' = log'[j].at - log'[i].at
  BY DEF Ticks
<1>3. i \in 1..n /\ n \in 1..n
  BY <1>1
<1>4. /\ log'[i] = log[i] /\ log[i].before \in Nat /\ log[i].at \in Nat
      /\ log[n].before \in Nat /\ log[n].vectors \in Nat /\ log[n].at \in Nat
  BY <1>3, LogGrows, LogEntries
<1>5. CASE j = n + 1
  <2>0. /\ log'[j].before = log[n].before + log[n].vectors
        /\ log'[j].at = log[n].at + sinceAdmission
    BY <1>3, <1>5, LogGrows, AdmissionTypes
  <2>1. Ticks(i, j)' = TicksSince(i) /\ log'[j].before - log'[i].before = Load(i, n)
    <3>1. /\ TicksSince(i) = sinceAdmission + (log[n].at - log[i].at)
          /\ Load(i, n) = log[n].before + log[n].vectors - log[i].before
      BY DEF TicksSince, Ticks, Load
    <3>2. sinceAdmission \in Nat
      BY DEF TypeOK
    <3>3. QED
      BY <1>2, <1>4, <2>0, <3>1, <3>2
  <2>2. log'[j].vectors = count[c] /\ j - 1 = n
    BY <1>1, <1>5, LogGrows
  <2>3. /\ Smaller(count[c], VectorCap) <= VectorsNow /\ VectorsNow <= VectorsLeft(i)
        /\ Smaller(RequestCost, RequestCap) <= RequestsNow /\ RequestsNow <= RequestsLeft(i)
        /\ VectorsNow \in Int /\ RequestsNow \in Int
    BY <1>1, <1>3, AdmitIsPaid, BucketsNow DEF ReserveInv
  <2>4. /\ VectorsLeft(i) = VectorCap + VectorRefill * TicksSince(i) - Load(i, n)
        /\ RequestsLeft(i) = RequestCap + RequestRefill * TicksSince(i) - RequestCost * (n - i + 1)
    BY DEF VectorsLeft, RequestsLeft
  <2>5. /\ Load(i, n) \in Int /\ TicksSince(i) \in Int /\ count[c] \in Nat
        /\ VectorRefill \in Nat /\ RequestRefill \in Nat /\ RequestCost \in Nat
        /\ VectorCap \in Nat /\ RequestCap \in Nat
    BY <1>1, <1>3, LeftTypes, LimiterAssumption, CapsArePositive DEF TypeOK
  <2>6. (j - i) * RequestCost = RequestCost * (n - i + 1)
    <3>1. j - i = n - i + 1 /\ n - i + 1 \in Int
      BY <1>1, <1>5
    <3>2. QED
      BY <2>5, <3>1, Products
  <2>7. PICK p, q, r : /\ p = VectorRefill * TicksSince(i) /\ q = RequestRefill * TicksSince(i)
                       /\ r = RequestCost * (n - i + 1)
    OBVIOUS
  <2>8. p \in Int /\ q \in Int /\ r \in Int
    <3>1. n - i + 1 \in Int
      BY <1>1
    <3>2. /\ VectorRefill * TicksSince(i) \in Int /\ RequestRefill * TicksSince(i) \in Int
          /\ RequestCost * (n - i + 1) \in Int
      BY <2>5, <3>1, Products
    <3>3. QED
      BY <2>7, <3>2
  <2>9. Smaller(count[c], VectorCap) \in Int /\ Smaller(RequestCost, RequestCap) \in Int
    BY <2>5 DEF Smaller
  <2>10. Load(i, n) + Smaller(count[c], VectorCap) <= VectorCap + p
    <3>1. VectorsLeft(i) = VectorCap + p - Load(i, n)
      BY <2>4, <2>7
    <3>2. QED
      BY <2>3, <2>5, <2>8, <2>9, <3>1
  <2>11. r + Smaller(RequestCost, RequestCap) <= RequestCap + q
    <3>1. RequestsLeft(i) = RequestCap + q - r
      BY <2>4, <2>7
    <3>2. QED
      BY <2>3, <2>5, <2>8, <2>9, <3>1
  <2>12. QED
    BY <1>4, <2>1, <2>2, <2>6, <2>7, <2>10, <2>11
<1>6. CASE j # n + 1
  <2>1. j \in 1..n /\ j \in 0..n
    BY <1>1, <1>6
  <2>2. log'[j] = log[j]
    BY <2>1, LogGrows
  <2>3. Ticks(i, j)' = Ticks(i, j)
    BY <1>2, <1>4, <2>2 DEF Ticks
  <2>4. QED
    BY <1>1, <1>3, <1>4, <2>1, <2>2, <2>3 DEF RateHeld
<1>7. QED
  BY <1>5, <1>6

(* Only a turn of the loop and the passing of time touch the buckets.      *)
LEMMA WhatTouchesBuckets ==
  ASSUME [Next]_vars
  PROVE  \/ \E c \in Requests : Attempt(c)
         \/ Tick
         \/ UNCHANGED <<vectors, requests, elapsed, log, sinceAdmission>>
<1>1. ASSUME NEW c \in Requests,
             Arrive(c) \/ Abort(c) \/ Release(c) \/ Fire(c)
      PROVE  UNCHANGED <<vectors, requests, elapsed, log, sinceAdmission>>
  BY <1>1 DEF Arrive, Abort, Release, Fire, budgetVars
<1>2. QED
  BY <1>1 DEF Next, vars, budgetVars, ReachFront, Wake

RateInv == TypeOK /\ ClockInv /\ ReserveInv /\ RateHeld

LEMMA RateInvKept == RateInv /\ [Next]_vars => RateInv'
<1> SUFFICES ASSUME RateInv, [Next]_vars PROVE ReserveInv' /\ RateHeld'
  BY NextTypes, ClockKept DEF RateInv
<1> USE DEF RateInv
<1>1. ASSUME NEW c \in Requests, Attempt(c) PROVE ReserveInv' /\ RateHeld'
  <2>1. CASE Admit(c) /\ VectorsNow' = VectorsNow - count[c] /\ RequestsNow' = RequestsNow - RequestCost
    <3>1. RateHeld'
      BY <2>1, AdmitHoldsRate
    <3>2. ASSUME NEW i \in DOMAIN log'
          PROVE  VectorsNow' <= VectorsLeft(i)' /\ RequestsNow' <= RequestsLeft(i)'
      <4>1. /\ VectorsNow \in Int /\ VectorsNow <= VectorCap /\ VectorCap \in Int
            /\ RequestsNow \in Int /\ RequestsNow <= RequestCap /\ RequestCap \in Int
            /\ count[c] \in Nat /\ RequestCost \in Nat
        BY BucketsNow, CapsArePositive, LimiterAssumption DEF TypeOK
      <4>2. i = Len(log) + 1 \/ i \in DOMAIN log
        BY <2>1, LogGrows, LogEntries
      <4>3. CASE i = Len(log) + 1
        <5>1. VectorsLeft(i)' = VectorCap - count[c] /\ RequestsLeft(i)' = RequestCap - RequestCost
          BY <2>1, <4>3, LeftAdmit
        <5>2. QED
          BY <2>1, <4>1, <5>1
      <4>4. CASE i \in DOMAIN log
        <5>1. /\ VectorsLeft(i)' = VectorsLeft(i) - count[c] /\ VectorsLeft(i) \in Int
              /\ RequestsLeft(i)' = RequestsLeft(i) - RequestCost /\ RequestsLeft(i) \in Int
          BY <2>1, <4>4, LeftAdmit, LeftTypes
        <5>2. VectorsNow <= VectorsLeft(i) /\ RequestsNow <= RequestsLeft(i)
          BY <4>4 DEF ReserveInv
        <5>3. QED
          BY <2>1, <4>1, <5>1, <5>2
      <4>5. QED
        BY <4>2, <4>3, <4>4
    <3>3. QED
      BY <3>1, <3>2 DEF ReserveInv
  <2>2. CASE Sleep(c) /\ VectorsNow' = VectorsNow /\ RequestsNow' = RequestsNow
    <3>1. log' = log /\ sinceAdmission' = sinceAdmission
      BY <2>2 DEF Sleep
    <3>2. /\ \A i : VectorsLeft(i)' = VectorsLeft(i) /\ RequestsLeft(i)' = RequestsLeft(i)
          /\ RateHeld'
      BY <3>1 DEF VectorsLeft, RequestsLeft, TicksSince, Ticks, Load, RateHeld
    <3>3. QED
      BY <2>2, <3>1, <3>2 DEF ReserveInv
  <2>3. QED
    BY <1>1, <2>1, <2>2, BucketsTurn
<1>2. CASE Tick
  <2>1. log' = log
    BY <1>2 DEF Tick
  <2>2. RateHeld'
    BY <2>1 DEF RateHeld, Ticks, Load
  <2>3. /\ elapsed \in Nat /\ sinceAdmission \in Nat /\ MaxElapsed \in Nat
        /\ elapsed <= MaxElapsed /\ sinceAdmission <= MaxElapsed
    BY LimiterAssumption DEF TypeOK, ClockInv
  <2>4. /\ VectorsNow \in Int /\ VectorsNow <= VectorCap /\ VectorCap \in Int
        /\ RequestsNow \in Int /\ RequestsNow <= RequestCap /\ RequestCap \in Int
        /\ VectorRefill \in Nat /\ RequestRefill \in Nat
    BY BucketsNow, CapsArePositive, LimiterAssumption
  <2>5. /\ VectorsNow' <= VectorCap /\ VectorsNow' <= VectorsNow + VectorRefill
        /\ RequestsNow' <= RequestCap /\ RequestsNow' <= RequestsNow + RequestRefill
        /\ VectorsNow' \in Int /\ RequestsNow' \in Int
    <3>1. CASE elapsed < MaxElapsed
      BY <1>2, <2>3, <2>4, <3>1, BucketsTick DEF Smaller
    <3>2. CASE elapsed = MaxElapsed
      BY <1>2, <2>3, <2>4, <3>2, BucketsTick
    <3>3. QED
      BY <2>3, <3>1, <3>2
  <2>6. ASSUME NEW i \in DOMAIN log
        PROVE  VectorsNow' <= VectorsLeft(i)' /\ RequestsNow' <= RequestsLeft(i)'
    <3>1. /\ VectorsNow <= VectorsLeft(i) /\ VectorsLeft(i) \in Int
          /\ RequestsNow <= RequestsLeft(i) /\ RequestsLeft(i) \in Int
      BY LeftTypes DEF ReserveInv
    <3>2. CASE sinceAdmission < MaxElapsed
      <4>1. /\ VectorsLeft(i)' = VectorsLeft(i) + VectorRefill
            /\ RequestsLeft(i)' = RequestsLeft(i) + RequestRefill
        BY <1>2, <2>3, <3>2, LeftTick
      <4>2. QED
        BY <2>4, <2>5, <3>1, <4>1
    <3>3. CASE sinceAdmission = MaxElapsed
      <4>1. VectorsLeft(i)' = VectorsLeft(i) /\ RequestsLeft(i)' = RequestsLeft(i)
        BY <1>2, <2>3, <3>3, LeftTick
      <4>2. VectorCap <= VectorsLeft(i) /\ RequestCap <= RequestsLeft(i)
        BY <3>3, FullAgain
      <4>3. QED
        BY <2>4, <2>5, <3>1, <4>1, <4>2
    <3>4. QED
      BY <2>3, <3>2, <3>3
  <2>7. QED
    BY <2>1, <2>2, <2>6 DEF ReserveInv
<1>3. CASE UNCHANGED <<vectors, requests, elapsed, log, sinceAdmission>>
  <2>1. RateHeld'
    BY <1>3 DEF RateHeld, Ticks, Load
  <2>2. /\ VectorsNow' = VectorsNow /\ RequestsNow' = RequestsNow
        /\ \A i : VectorsLeft(i)' = VectorsLeft(i) /\ RequestsLeft(i)' = RequestsLeft(i)
    BY <1>3 DEF VectorsNow, RequestsNow, Refilled, VectorsLeft, RequestsLeft, TicksSince,
                Ticks, Load
  <2>3. QED
    BY <1>3, <2>1, <2>2 DEF ReserveInv
<1>4. QED
  BY <1>1, <1>2, <1>3, WhatTouchesBuckets

LEMMA NothingAdmittedYet == Init => ClockInv /\ DOMAIN log = {}
BY LimiterAssumption DEF Init, ClockInv

(* Over every stretch of admissions the store stays within its rate and    *)
(* one second's burst, in vectors and in requests, for every rate, request *)
(* size and order of arrivals, timers and signals.                         *)
THEOREM RateIsHeld == Spec => []RateHeld
<1>1. Init => RateInv
  BY InitTypes, NothingAdmittedYet DEF RateInv, ReserveInv, RateHeld
<1>2. RateInv => RateHeld
  BY DEF RateInv
<1>3. QED
  BY <1>1, <1>2, RateInvKept, PTL DEF Spec

-----------------------------------------------------------------------------
(* What a wait costs, and how long it lasts *)

SpendInv == TypeOK /\ ClockInv /\ WaitsAreFree

(* WaitsAreFree, of what the buckets hold now.                             *)
LEMMA SpendNow ==
  WaitsAreFree <=>
    /\ VectorsNow = VectorCap \/ \E i \in DOMAIN log : VectorsNow >= VectorsLeft(i)
    /\ RequestsNow = RequestCap \/ \E i \in DOMAIN log : RequestsNow >= RequestsLeft(i)
BY DEF WaitsAreFree, VectorsNow, RequestsNow, VectorsLeft, RequestsLeft

LEMMA SpendKept == SpendInv /\ [Next]_vars => SpendInv'
<1> SUFFICES ASSUME SpendInv, [Next]_vars PROVE WaitsAreFree'
  BY NextTypes, ClockKept DEF SpendInv
<1> USE DEF SpendInv
<1>1. /\ VectorsNow \in Int /\ VectorsNow <= VectorCap /\ VectorCap \in Int
      /\ RequestsNow \in Int /\ RequestsNow <= RequestCap /\ RequestCap \in Int
      /\ VectorRefill \in Nat /\ RequestRefill \in Nat /\ RequestCost \in Nat
  BY BucketsNow, CapsArePositive, LimiterAssumption
<1>2. ASSUME NEW c \in Requests, Attempt(c) PROVE WaitsAreFree'
  <2>1. CASE Admit(c) /\ VectorsNow' = VectorsNow - count[c] /\ RequestsNow' = RequestsNow - RequestCost
    <3>1. count[c] \in Nat
      BY DEF TypeOK
    <3>2. PICK n : n = Len(log) + 1
      OBVIOUS
    <3>3. /\ n \in DOMAIN log' /\ \A i \in DOMAIN log : i \in DOMAIN log'
          /\ VectorsLeft(n)' = VectorCap - count[c] /\ RequestsLeft(n)' = RequestCap - RequestCost
      <4>1. Len(log) \in Nat /\ DOMAIN log = 1..Len(log) /\ DOMAIN log' = 1..(Len(log) + 1)
        BY <2>1, LogGrows, LogEntries
      <4>2. QED
        BY <2>1, <3>2, <4>1, LeftAdmit
    <3>4. \E i \in DOMAIN log' : VectorsNow' >= VectorsLeft(i)'
      <4>1. CASE VectorsNow = VectorCap
        BY <1>1, <2>1, <3>1, <3>3, <4>1
      <4>2. ASSUME NEW i \in DOMAIN log, VectorsNow >= VectorsLeft(i)
            PROVE  i \in DOMAIN log' /\ VectorsNow' >= VectorsLeft(i)'
        <5>1. VectorsLeft(i)' = VectorsLeft(i) - count[c] /\ VectorsLeft(i) \in Int
          BY <2>1, LeftAdmit, LeftTypes
        <5>2. QED
          BY <1>1, <2>1, <3>1, <3>3, <4>2, <5>1
      <4>3. QED
        BY <4>1, <4>2, SpendNow
    <3>5. \E i \in DOMAIN log' : RequestsNow' >= RequestsLeft(i)'
      <4>1. CASE RequestsNow = RequestCap
        BY <1>1, <2>1, <3>3, <4>1
      <4>2. ASSUME NEW i \in DOMAIN log, RequestsNow >= RequestsLeft(i)
            PROVE  i \in DOMAIN log' /\ RequestsNow' >= RequestsLeft(i)'
        <5>1. RequestsLeft(i)' = RequestsLeft(i) - RequestCost /\ RequestsLeft(i) \in Int
          BY <2>1, LeftAdmit, LeftTypes
        <5>2. QED
          BY <1>1, <2>1, <3>3, <4>2, <5>1
      <4>3. QED
        BY <4>1, <4>2, SpendNow
    <3>6. QED
      BY <3>4, <3>5
         DEF WaitsAreFree, VectorsNow, RequestsNow, VectorsLeft, RequestsLeft
  <2>2. CASE Sleep(c) /\ VectorsNow' = VectorsNow /\ RequestsNow' = RequestsNow
    <3>1. log' = log /\ sinceAdmission' = sinceAdmission
      BY <2>2 DEF Sleep
    <3>2. \A i : VectorsLeft(i)' = VectorsLeft(i) /\ RequestsLeft(i)' = RequestsLeft(i)
      BY <3>1 DEF VectorsLeft, RequestsLeft, TicksSince, Ticks, Load
    <3>3. /\ VectorsNow' = VectorCap \/ \E i \in DOMAIN log' : VectorsNow' >= VectorsLeft(i)'
          /\ RequestsNow' = RequestCap \/ \E i \in DOMAIN log' : RequestsNow' >= RequestsLeft(i)'
      BY <2>2, <3>1, <3>2, SpendNow
    <3>4. QED
      BY <3>3 DEF WaitsAreFree, VectorsNow, RequestsNow, VectorsLeft, RequestsLeft
  <2>3. QED
    BY <1>2, <2>1, <2>2, BucketsTurn
<1>3. CASE Tick
  <2>1. log' = log
    BY <1>3 DEF Tick
  <2>2. /\ elapsed \in Nat /\ sinceAdmission \in Nat /\ MaxElapsed \in Nat
        /\ elapsed <= sinceAdmission /\ sinceAdmission <= MaxElapsed
    BY LimiterAssumption DEF TypeOK, ClockInv
  <2>3. ASSUME NEW i \in DOMAIN log
        PROVE  /\ VectorsLeft(i) \in Int /\ RequestsLeft(i) \in Int
               /\ VectorsLeft(i)' = VectorsLeft(i) + VectorRefill \/ VectorsLeft(i)' = VectorsLeft(i)
               /\ RequestsLeft(i)' = RequestsLeft(i) + RequestRefill \/ RequestsLeft(i)' = RequestsLeft(i)
               /\ elapsed = MaxElapsed =>
                    VectorsLeft(i)' = VectorsLeft(i) /\ RequestsLeft(i)' = RequestsLeft(i)
    <3>1. VectorsLeft(i) \in Int /\ RequestsLeft(i) \in Int
      BY LeftTypes
    <3>2. CASE sinceAdmission < MaxElapsed
      BY <1>3, <2>2, <3>1, <3>2, LeftTick
    <3>3. CASE sinceAdmission = MaxElapsed
      BY <1>3, <2>2, <3>1, <3>3, LeftTick
    <3>4. QED
      BY <2>2, <3>2, <3>3
  <2>4. CASE elapsed < MaxElapsed
    <3>1. /\ VectorsNow' = VectorCap \/ VectorsNow' = VectorsNow + VectorRefill
          /\ RequestsNow' = RequestCap \/ RequestsNow' = RequestsNow + RequestRefill
          /\ VectorsNow = VectorCap => VectorsNow' = VectorCap
          /\ RequestsNow = RequestCap => RequestsNow' = RequestCap
      BY <1>1, <1>3, <2>2, <2>4, BucketsTick DEF Smaller
    <3>2. VectorsNow' = VectorCap \/ \E i \in DOMAIN log' : VectorsNow' >= VectorsLeft(i)'
      BY <1>1, <2>1, <2>3, <3>1, SpendNow
    <3>3. RequestsNow' = RequestCap \/ \E i \in DOMAIN log' : RequestsNow' >= RequestsLeft(i)'
      BY <1>1, <2>1, <2>3, <3>1, SpendNow
    <3>4. QED
      BY <3>2, <3>3 DEF WaitsAreFree, VectorsNow, RequestsNow, VectorsLeft, RequestsLeft
  <2>5. CASE elapsed = MaxElapsed
    <3>1. VectorsNow' = VectorsNow /\ RequestsNow' = RequestsNow
      BY <1>3, <2>2, <2>5, BucketsTick
    <3>2. VectorsNow' = VectorCap \/ \E i \in DOMAIN log' : VectorsNow' >= VectorsLeft(i)'
      BY <2>1, <2>3, <2>5, <3>1, SpendNow
    <3>3. RequestsNow' = RequestCap \/ \E i \in DOMAIN log' : RequestsNow' >= RequestsLeft(i)'
      BY <2>1, <2>3, <2>5, <3>1, SpendNow
    <3>4. QED
      BY <3>2, <3>3 DEF WaitsAreFree, VectorsNow, RequestsNow, VectorsLeft, RequestsLeft
  <2>6. QED
    BY <2>2, <2>4, <2>5
<1>4. CASE UNCHANGED <<vectors, requests, elapsed, log, sinceAdmission>>
  BY <1>4 DEF WaitsAreFree, Refilled, TicksSince, Ticks, Load
<1>5. QED
  BY <1>2, <1>3, <1>4, WhatTouchesBuckets

(* A budget pays for admissions and for nothing else: however often a turn *)
(* of the loop finds the other budget short, waiting costs nothing.        *)
THEOREM WaitingIsFree == Spec => []WaitsAreFree
<1>1. Init => SpendInv
  <2> SUFFICES ASSUME Init PROVE WaitsAreFree
    BY InitTypes, NothingAdmittedYet DEF SpendInv
  <2>1. VectorsNow = Held(VectorCap, VectorRefill, 0) /\ RequestsNow = Held(RequestCap, RequestRefill, 0)
    BY DEF Init, VectorsNow, RequestsNow, Refilled, Held
  <2>2. VectorsNow = VectorCap /\ RequestsNow = RequestCap
    BY <2>1, HeldAtOnce, LimiterAssumption, CapsArePositive DEF VectorCap, RequestCap
  <2>3. QED
    BY <2>2, SpendNow
<1>2. SpendInv => WaitsAreFree
  BY DEF SpendInv
<1>3. QED
  BY <1>1, <1>2, SpendKept, PTL DEF Spec

(* What is missing is more than is refilled before the last tick.          *)
Missing(wanted, now, refill, ticks) == wanted - now > (ticks - 1) * refill

(* A sleeper's timer is as short as the debt it waits for.                 *)
SleepInv ==
  \A c \in Requests : pc[c] = "sleeping" /\ timer[c] > 0 =>
    \/ Missing(AdmittedOn(count[c], VectorRefill), VectorsNow, VectorRefill, timer[c])
    \/ Missing(AdmittedOn(RequestCost, RequestRefill), RequestsNow, RequestRefill, timer[c])

LEMMA WantedTypes ==
  ASSUME NEW tokens \in Nat, NEW refill \in Nat PROVE AdmittedOn(tokens, refill) \in Int
BY LimiterAssumption DEF AdmittedOn, Smaller

(* A shorter sleep, a fuller bucket by no more than is refilled in it.     *)
LEMMA MissingLater ==
  ASSUME NEW wanted \in Int, NEW now \in Int, NEW later \in Int, NEW refill \in Nat,
         NEW ticks \in Nat
  PROVE  /\ later <= now /\ Missing(wanted, now, refill, ticks) => Missing(wanted, later, refill, ticks)
         /\ later <= now + refill /\ Missing(wanted, now, refill, ticks)
              => Missing(wanted, later, refill, ticks - 1)
         /\ \A t \in Nat : t <= ticks /\ Missing(wanted, now, refill, ticks)
              => Missing(wanted, now, refill, t)
<1>1. /\ (ticks - 1) * refill \in Int
      /\ ((ticks - 1) - 1) * refill = (ticks - 1) * refill - refill
  OBVIOUS
<1>2. \A t \in Nat : t <= ticks => (t - 1) * refill \in Int /\ (t - 1) * refill <= (ticks - 1) * refill
  <2> SUFFICES ASSUME NEW t \in Nat, t <= ticks
               PROVE  (t - 1) * refill \in Int /\ (t - 1) * refill <= (ticks - 1) * refill
    OBVIOUS
  <2>1. PICK d \in Nat : ticks = t + d
    <3>1. ticks - t \in Nat /\ ticks = t + (ticks - t)
      OBVIOUS
    <3>2. QED
      BY <3>1
  <2>2. (ticks - 1) * refill = (t - 1) * refill + d * refill /\ d * refill \in Nat
        /\ (t - 1) * refill \in Int
    BY <2>1
  <2>3. QED
    BY <2>2
<1>3. QED
  BY <1>1, <1>2 DEF Missing

LEMMA SleepInit == Init => SleepInv
BY DEF Init, SleepInv

LEMMA SleepKept == TypeOK /\ ClockInv /\ SleepInv /\ [Next]_vars => SleepInv'
<1> SUFFICES ASSUME TypeOK, ClockInv, SleepInv, [Next]_vars,
                    NEW c \in Requests, pc'[c] = "sleeping", timer'[c] > 0
             PROVE  \/ Missing(AdmittedOn(count'[c], VectorRefill), VectorsNow', VectorRefill, timer'[c])
                    \/ Missing(AdmittedOn(RequestCost, RequestRefill), RequestsNow', RequestRefill, timer'[c])
  BY DEF SleepInv, Missing, AdmittedOn
<1> PICK v, r : v = AdmittedOn(count[c], VectorRefill) /\ r = AdmittedOn(RequestCost, RequestRefill)
  OBVIOUS
<1>1. /\ VectorsNow \in Int /\ RequestsNow \in Int
      /\ VectorRefill \in Nat /\ RequestRefill \in Nat /\ RequestCost \in Nat
      /\ count[c] \in Nat /\ timer[c] \in Nat /\ v \in Int /\ r \in Int
  <2>1. count[c] \in Nat /\ timer[c] \in Nat
    BY LimiterAssumption DEF TypeOK
  <2>2. VectorRefill \in Nat /\ RequestRefill \in Nat /\ RequestCost \in Nat
    BY LimiterAssumption
  <2>3. v \in Int /\ r \in Int
    BY <2>1, <2>2, WantedTypes
  <2>4. QED
    BY <2>1, <2>2, <2>3, BucketsNow
<1>2. pc[c] = "sleeping" /\ timer[c] > 0 =>
        \/ Missing(v, VectorsNow, VectorRefill, timer[c])
        \/ Missing(r, RequestsNow, RequestRefill, timer[c])
  BY DEF SleepInv
<1>3. ASSUME NEW a \in Requests, Attempt(a)
      PROVE  \/ Missing(v, VectorsNow', VectorRefill, timer'[c])
             \/ Missing(r, RequestsNow', RequestRefill, timer'[c])
  <2>1. CASE Admit(a) /\ VectorsNow' = VectorsNow - count[a] /\ RequestsNow' = RequestsNow - RequestCost
    <3>1. pc[c] = "sleeping" /\ timer'[c] = timer[c]
      BY <2>1 DEF Admit, TypeOK
    <3>2. /\ VectorsNow' \in Int /\ VectorsNow' <= VectorsNow
          /\ RequestsNow' \in Int /\ RequestsNow' <= RequestsNow
      <4>1. count[a] \in Nat
        BY DEF TypeOK
      <4>2. QED
        BY <1>1, <2>1, <4>1
    <3>3. timer[c] > 0
      BY <3>1
    <3>4. QED
      BY <1>1, <1>2, <3>1, <3>2, <3>3, MissingLater
  <2>2. CASE Sleep(a) /\ VectorsNow' = VectorsNow /\ RequestsNow' = RequestsNow
    <3>1. CASE a = c
      <4>1. timer'[c] = Smaller(Wait(c), TicksPerSecond) /\ Wait(c) > 0
        BY <2>2, <3>1 DEF Sleep, TypeOK
      <4>2. PICK wv, wr : /\ wv = WaitFor(vectors, count[c], VectorRefill)
                          /\ wr = WaitFor(requests, RequestCost, RequestRefill)
        OBVIOUS
      <4>3. wv \in Nat /\ (wv > 0 => Missing(v, VectorsNow, VectorRefill, wv))
        BY <1>1, <4>2, WaitIsTight, LimiterAssumption DEF Missing, VectorsNow, TypeOK
      <4>4. wr \in Nat /\ (wr > 0 => Missing(r, RequestsNow, RequestRefill, wr))
        BY <1>1, <4>2, WaitIsTight, LimiterAssumption DEF Missing, RequestsNow, TypeOK
      <4>5. Wait(c) = Larger(wr, wv)
        BY <4>2 DEF Wait
      <4>6. timer'[c] \in Nat /\ Wait(c) \in Nat /\ timer'[c] <= Wait(c)
        <5>1. Wait(c) \in Nat /\ TicksPerSecond \in Nat
          BY <4>3, <4>4, <4>5, LimiterAssumption DEF Larger
        <5>2. QED
          BY <4>1, <5>1 DEF Smaller
      <4>7. \/ wv = Wait(c) /\ Missing(v, VectorsNow, VectorRefill, wv)
            \/ wr = Wait(c) /\ Missing(r, RequestsNow, RequestRefill, wr)
        BY <4>1, <4>3, <4>4, <4>5 DEF Larger
      <4>8. /\ Missing(v, VectorsNow, VectorRefill, Wait(c)) =>
                 Missing(v, VectorsNow, VectorRefill, timer'[c])
            /\ Missing(r, RequestsNow, RequestRefill, Wait(c)) =>
                 Missing(r, RequestsNow, RequestRefill, timer'[c])
        BY <1>1, <4>6, MissingLater
      <4>9. QED
        BY <2>2, <4>7, <4>8
    <3>2. CASE a # c
      <4>1. pc[c] = "sleeping" /\ timer'[c] = timer[c]
        BY <2>2, <3>2 DEF Sleep, TypeOK
      <4>2. QED
        BY <1>2, <2>2, <4>1
    <3>3. QED
      BY <3>1, <3>2
  <2>3. QED
    BY <1>3, <2>1, <2>2, BucketsTurn
<1>4. CASE Tick
  <2>1. pc' = pc /\ count' = count /\ timer'[c] = Larger(timer[c] - 1, 0)
    BY <1>4 DEF Tick
  <2>2. timer'[c] = timer[c] - 1 /\ timer[c] > 0
    BY <1>1, <2>1 DEF Larger
  <2>3. /\ VectorsNow' \in Int /\ VectorsNow' <= VectorsNow + VectorRefill
        /\ RequestsNow' \in Int /\ RequestsNow' <= RequestsNow + RequestRefill
    <3>1. elapsed \in Nat /\ MaxElapsed \in Nat /\ elapsed <= MaxElapsed
      <4>1. elapsed \in Nat /\ sinceAdmission \in Nat /\ MaxElapsed \in Nat
            /\ elapsed <= sinceAdmission /\ sinceAdmission <= MaxElapsed
        BY LimiterAssumption DEF TypeOK, ClockInv
      <4>2. QED
        BY <4>1
    <3>2. VectorCap \in Int /\ RequestCap \in Int
      BY CapsArePositive
    <3>3. CASE elapsed < MaxElapsed
      BY <1>1, <1>4, <3>1, <3>2, <3>3, BucketsTick DEF Smaller
    <3>4. CASE elapsed = MaxElapsed
      BY <1>1, <1>4, <3>1, <3>4, BucketsTick
    <3>5. QED
      BY <3>1, <3>3, <3>4
  <2>4. pc[c] = "sleeping" /\ timer[c] > 0
    BY <2>1, <2>2
  <2>5. \/ Missing(v, VectorsNow', VectorRefill, timer'[c])
        \/ Missing(r, RequestsNow', RequestRefill, timer'[c])
    <3>1. /\ Missing(v, VectorsNow, VectorRefill, timer[c]) =>
               Missing(v, VectorsNow', VectorRefill, timer[c] - 1)
          /\ Missing(r, RequestsNow, RequestRefill, timer[c]) =>
               Missing(r, RequestsNow', RequestRefill, timer[c] - 1)
      BY <1>1, <2>3, MissingLater
    <3>2. QED
      BY <1>2, <2>2, <2>4, <3>1
  <2>6. QED
    BY <2>1, <2>5
<1>5. ASSUME NEW a \in Requests, Arrive(a) \/ Abort(a) \/ Release(a) \/ Fire(a)
      PROVE  pc[c] = "sleeping" /\ timer' = timer /\ count'[c] = count[c]
  BY <1>5 DEF Arrive, Abort, Release, Fire, TypeOK
<1>6. CASE UNCHANGED vars
  <2>1. pc[c] = "sleeping" /\ timer' = timer /\ count'[c] = count[c]
    BY <1>6 DEF vars
  <2>2. VectorsNow' = VectorsNow /\ RequestsNow' = RequestsNow
    BY <1>6 DEF vars, budgetVars, VectorsNow, RequestsNow, Refilled
  <2>3. QED
    BY <1>2, <2>1, <2>2
<1>7. ASSUME NEW a \in Requests, Arrive(a) \/ Abort(a) \/ Release(a) \/ Fire(a)
      PROVE  VectorsNow' = VectorsNow /\ RequestsNow' = RequestsNow
  BY <1>7 DEF Arrive, Abort, Release, Fire, budgetVars, VectorsNow, RequestsNow, Refilled
<1>8. ASSUME NEW a \in Requests, Attempt(a) PROVE count' = count
  BY <1>8 DEF Attempt
<1>9. QED
  BY <1>2, <1>3, <1>4, <1>5, <1>6, <1>7, <1>8 DEF Next, ReachFront, Wake

LEMMA ShortMeansWait ==
  ASSUME TypeOK, SleepInv PROVE NoIdleBudget
<1> SUFFICES ASSUME NEW c \in Requests, pc[c] = "sleeping", timer[c] > 0 PROVE Wait(c) > 0
  BY DEF NoIdleBudget
<1> PICK wv, wr, v, r : /\ wv = WaitFor(vectors, count[c], VectorRefill)
                        /\ wr = WaitFor(requests, RequestCost, RequestRefill)
                        /\ v = AdmittedOn(count[c], VectorRefill)
                        /\ r = AdmittedOn(RequestCost, RequestRefill)
  OBVIOUS
<1>1. /\ VectorsNow \in Int /\ v \in Int /\ wv \in Nat /\ (wv = 0 <=> VectorsNow >= v)
      /\ RequestsNow \in Int /\ r \in Int /\ wr \in Nat /\ (wr = 0 <=> RequestsNow >= r)
  BY WaitIsTight, LimiterAssumption DEF VectorsNow, RequestsNow, TypeOK
<1>2. timer[c] \in Nat /\ VectorRefill \in Nat /\ RequestRefill \in Nat
  BY LimiterAssumption DEF TypeOK
<1>3. (timer[c] - 1) * VectorRefill \in Nat /\ (timer[c] - 1) * RequestRefill \in Nat
  <2>1. timer[c] - 1 \in Nat
    BY <1>2
  <2>2. QED
    BY <1>2, <2>1
<1>4. \/ v - VectorsNow > (timer[c] - 1) * VectorRefill
      \/ r - RequestsNow > (timer[c] - 1) * RequestRefill
  BY DEF SleepInv, Missing
<1>5. wv # 0 \/ wr # 0
  BY <1>1, <1>3, <1>4
<1>6. Wait(c) = Larger(wr, wv)
  BY DEF Wait
<1>7. QED
  BY <1>1, <1>5, <1>6 DEF Larger

(* A sleeper's timer never outlasts what it waits for: while it runs, at   *)
(* least one budget is still short.                                        *)
THEOREM NoBudgetIdles == Spec => []NoIdleBudget
<1>1. Init => TypeOK /\ ClockInv /\ SleepInv
  BY InitTypes, NothingAdmittedYet, SleepInit
<1>2. TypeOK /\ ClockInv /\ SleepInv /\ [Next]_vars => (TypeOK /\ ClockInv /\ SleepInv)'
  BY NextTypes, ClockKept, SleepKept
<1>3. TypeOK /\ ClockInv /\ SleepInv => NoIdleBudget
  BY ShortMeansWait
<1>4. QED
  BY <1>1, <1>2, <1>3, PTL DEF Spec

=============================================================================
