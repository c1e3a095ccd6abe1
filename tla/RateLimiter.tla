---------------------------- MODULE RateLimiter ----------------------------
(***************************************************************************)
(* The write rate limiter of one store (src/internal/rate-limit.ts): two   *)
(* token buckets, vectors and requests, consulted together, behind a line  *)
(* of promises that admits requests in the order they arrived.             *)
(*                                                                         *)
(* Time passes in ticks, the resolution of the clock.  It is kept only as  *)
(* the time since something happened, up to MaxElapsed: a bound past which *)
(* every debt is repaid and every bucket full.  A timer may fire late.     *)
(***************************************************************************)
EXTENDS Integers, Sequences

CONSTANTS
  Requests,        \* calls of acquire, each made at most once
  Counts,          \* how many vectors a request may carry
  Signalled,       \* the requests that were given an AbortSignal
  NoRequest,       \* the promise `line` starts with, already resolved
  VectorRefill,    \* vectors a tick
  RequestRefill,   \* units of the request budget a tick
  RequestCost,     \* units a request costs: less than one request may go a second
  TicksPerSecond,  \* LONGEST_SLEEP_MS, and what a bucket holds
  MaxElapsed       \* bound: the longest time told apart

ASSUME LimiterAssumption ==
  /\ NoRequest \notin Requests /\ Signalled \subseteq Requests
  /\ Counts \subseteq Nat \ {0}
  /\ VectorRefill \in Nat \ {0} /\ RequestRefill \in Nat \ {0}
  /\ RequestCost \in Nat \ {0} /\ TicksPerSecond \in Nat \ {0} /\ MaxElapsed \in Nat

VARIABLES
  line,       \* the request at the end of the line
  ahead,      \* whom each request found at the end of the line
  left,       \* the requests whose promise has been resolved
  pc, count, timer, fired,
  vectors,    \* what the vectors bucket held when last refilled; a debt below 0
  requests,   \* the same of the requests bucket
  elapsed,    \* ticks since the buckets were refilled
  arrived,    \* history: the requests in the order they asked
  log,        \* history: each admission
  sinceAdmission

lineVars == <<line, ahead, left, arrived>>
budgetVars == <<vectors, requests, elapsed>>
vars == <<lineVars, budgetVars, pc, count, timer, fired, log, sinceAdmission>>

Settled == {"admitted", "aborted"}

VectorCap  == VectorRefill * TicksPerSecond
RequestCap == RequestRefill * TicksPerSecond

(* What one carries, what those before it carried, and its tick.           *)
Admissions == [vectors: Nat, before: Nat, at: Nat]

TypeOK ==
  /\ line \in Requests \cup {NoRequest}
  /\ ahead \in [Requests -> Requests \cup {NoRequest}]
  /\ left \subseteq Requests /\ fired \subseteq Signalled
  /\ pc \in [Requests -> {"idle", "inLine", "sleeping"} \cup Settled]
  /\ count \in [Requests -> Nat] /\ timer \in [Requests -> 0..TicksPerSecond]
  /\ vectors \in Int /\ vectors <= VectorCap
  /\ requests \in Int /\ requests <= RequestCap
  /\ elapsed \in Nat /\ sinceAdmission \in Nat
  /\ arrived \in Seq(Requests) /\ log \in Seq(Admissions)

Init ==
  /\ line = NoRequest /\ ahead = [c \in Requests |-> NoRequest] /\ left = {}
  /\ pc = [c \in Requests |-> "idle"] /\ count = [c \in Requests |-> 0]
  /\ timer = [c \in Requests |-> 0] /\ fired = {}
  /\ vectors = VectorCap /\ requests = RequestCap /\ elapsed = 0
  /\ arrived = <<>> /\ log = <<>> /\ sinceAdmission = 0

Smaller(m, n) == IF m < n THEN m ELSE n
Larger(m, n) == IF m < n THEN n ELSE m

(* After MaxElapsed ticks a bucket is full, whatever was charged last.     *)
ASSUME ElapsedAssumption ==
  /\ \A n \in Counts : VectorRefill * MaxElapsed >= Larger(VectorCap, n)
  /\ RequestRefill * MaxElapsed >= Larger(RequestCap, RequestCost)

-----------------------------------------------------------------------------
(* A bucket *)

Refilled_PastASecond(available, refill) == available + elapsed * refill

Refilled(available, refill) ==
  Smaller(refill * TicksPerSecond, available + elapsed * refill)

(* Admitted on at most a second's worth, charged what it carries.          *)
AdmittedOn_Everything(tokens, refill) == tokens

AdmittedOn(tokens, refill) == Smaller(tokens, refill * TicksPerSecond)

(* Ticks until `wanted` is there, rounded up.                              *)
Until(available, wanted, refill) ==
  IF available >= wanted THEN 0 ELSE (wanted - available + refill - 1) \div refill

WaitFor(available, tokens, refill) ==
  Until(Refilled(available, refill), AdmittedOn(tokens, refill), refill)

Wait(c) == Larger(WaitFor(requests, RequestCost, RequestRefill),
                  WaitFor(vectors, count[c], VectorRefill))

-----------------------------------------------------------------------------
(* acquire *)

Arrive(c) ==
  /\ pc[c] = "idle" /\ c \notin fired
  /\ \E n \in Counts : count' = [count EXCEPT ![c] = n]
  /\ ahead' = [ahead EXCEPT ![c] = line] /\ line' = c
  /\ pc' = [pc EXCEPT ![c] = "inLine"]
  /\ arrived' = Append(arrived, c)
  /\ UNCHANGED <<left, budgetVars, timer, fired, log, sinceAdmission>>

Resolved(c) == c = NoRequest \/ c \in left

Admission(c) ==
  LET last == IF log = <<>> THEN [vectors |-> 0, before |-> 0, at |-> 0] ELSE log[Len(log)]
  IN  [vectors |-> count[c], before |-> last.before + last.vectors,
       at |-> last.at + sinceAdmission]

Admit_ChargedForAdmission(c) ==
  /\ Wait(c) = 0
  /\ vectors' = Refilled(vectors, VectorRefill) - AdmittedOn(count[c], VectorRefill)
  /\ requests' = Refilled(requests, RequestRefill) - RequestCost
  /\ pc' = [pc EXCEPT ![c] = "admitted"]
  /\ log' = Append(log, Admission(c))
  /\ sinceAdmission' = 0
  /\ UNCHANGED timer

(* Both budgets are asked; both are charged, or neither.                   *)
Admit(c) ==
  /\ Wait(c) = 0
  /\ vectors' = Refilled(vectors, VectorRefill) - count[c]
  /\ requests' = Refilled(requests, RequestRefill) - RequestCost
  /\ pc' = [pc EXCEPT ![c] = "admitted"]
  /\ log' = Append(log, Admission(c))
  /\ sinceAdmission' = 0
  /\ UNCHANGED timer

Sleep_AWholeSlice(c) ==
  /\ Wait(c) > 0
  /\ vectors' = Refilled(vectors, VectorRefill)
  /\ requests' = Refilled(requests, RequestRefill)
  /\ pc' = [pc EXCEPT ![c] = "sleeping"]
  /\ timer' = [timer EXCEPT ![c] = TicksPerSecond]
  /\ UNCHANGED <<log, sinceAdmission>>

(* What is ready pays for nothing while the other budget is not.           *)
Sleep_Charged(c) ==
  /\ Wait(c) > 0
  /\ vectors' = Refilled(vectors, VectorRefill)
  /\ requests' = Refilled(requests, RequestRefill)
                   - (IF WaitFor(requests, RequestCost, RequestRefill) = 0
                        THEN RequestCost ELSE 0)
  /\ pc' = [pc EXCEPT ![c] = "sleeping"]
  /\ timer' = [timer EXCEPT ![c] = Smaller(Wait(c), TicksPerSecond)]
  /\ UNCHANGED <<log, sinceAdmission>>

Sleep(c) ==
  /\ Wait(c) > 0
  /\ vectors' = Refilled(vectors, VectorRefill)
  /\ requests' = Refilled(requests, RequestRefill)
  /\ pc' = [pc EXCEPT ![c] = "sleeping"]
  /\ timer' = [timer EXCEPT ![c] = Smaller(Wait(c), TicksPerSecond)]
  /\ UNCHANGED <<log, sinceAdmission>>

(* One turn of the loop, at the front of the line or after a sleep.        *)
Attempt(c) ==
  /\ Admit(c) \/ Sleep(c)
  /\ elapsed' = 0
  /\ UNCHANGED <<lineVars, count, fired>>

ReachFront(c) ==
  pc[c] = "inLine" /\ Resolved(ahead[c]) /\ c \notin fired /\ Attempt(c)

Wake(c) == pc[c] = "sleeping" /\ timer[c] = 0 /\ c \notin fired /\ Attempt(c)

(* The wait is raced against the signal, in the line and asleep.           *)
Abort(c) ==
  /\ c \in fired /\ pc[c] \in {"inLine", "sleeping"}
  /\ pc' = [pc EXCEPT ![c] = "aborted"]
  /\ UNCHANGED <<lineVars, budgetVars, count, timer, fired, log, sinceAdmission>>

(* `ahead.then(leave)`: one that leaves early releases the one behind it   *)
(* only once everyone in front of it has gone.                             *)
Release_AtOnce(c) ==
  /\ pc[c] \in Settled /\ c \notin left
  /\ left' = left \cup {c}
  /\ UNCHANGED <<line, ahead, arrived, budgetVars, pc, count, timer, fired, log,
                 sinceAdmission>>

Release(c) ==
  /\ pc[c] \in Settled /\ c \notin left /\ Resolved(ahead[c])
  /\ left' = left \cup {c}
  /\ UNCHANGED <<line, ahead, arrived, budgetVars, pc, count, timer, fired, log,
                 sinceAdmission>>

Fire(c) ==
  /\ c \in Signalled \ fired /\ pc[c] \in {"inLine", "sleeping"}
  /\ fired' = fired \cup {c}
  /\ UNCHANGED <<lineVars, budgetVars, pc, count, timer, log, sinceAdmission>>

Tick ==
  /\ \E c \in Requests : pc[c] \notin Settled
  /\ elapsed' = Smaller(elapsed + 1, MaxElapsed)
  /\ sinceAdmission' = Smaller(sinceAdmission + 1, MaxElapsed)
  /\ timer' = [c \in Requests |-> Larger(timer[c] - 1, 0)]
  /\ UNCHANGED <<lineVars, vectors, requests, pc, count, fired, log>>

Next ==
  \/ \E c \in Requests : \/ Arrive(c) \/ ReachFront(c) \/ Wake(c)
                         \/ Abort(c) \/ Release(c) \/ Fire(c)
  \/ Tick

Spec == Init /\ [][Next]_vars

(* The event loop runs what is ready, and time passes.                     *)
FairSpec ==
  /\ Spec /\ WF_vars(Tick)
  /\ \A c \in Requests : WF_vars(ReachFront(c) \/ Wake(c) \/ Abort(c) \/ Release(c))

-----------------------------------------------------------------------------
(* Properties *)

Admits(c) == pc[c] # "admitted" /\ pc'[c] = "admitted"

Before(b, c) ==
  \E i, j \in DOMAIN arrived : i < j /\ arrived[i] = b /\ arrived[j] = c

(* Requests are admitted in the order they asked, whatever their sizes,    *)
(* and one that gives up moves nobody past those in front.                 *)
NoOvertaking ==
  [][\A b, c \in Requests : Admits(c) /\ Before(b, c) => pc[b] \in Settled]_vars

(* What admissions i to j carried, and the ticks from the one to the other.*)
Load(i, j)  == log[j].before + log[j].vectors - log[i].before
Ticks(i, j) == log[j].at - log[i].at

(* In every stretch of time, the admissions but the last carry at most     *)
(* what the rate allows in it and one second's burst - in vectors and in   *)
(* requests, at rates below the size of one request too.                   *)
RateHeld ==
  \A i, j \in DOMAIN log : i < j =>
    /\ (log[j].before - log[i].before) + Smaller(log[j].vectors, VectorCap)
         <= VectorCap + VectorRefill * Ticks(i, j)
    /\ (j - i) * RequestCost + Smaller(RequestCost, RequestCap)
         <= RequestCap + RequestRefill * Ticks(i, j)

(* A budget is charged for what was admitted and for nothing else - turns   *)
(* of the loop that had to wait for the other budget cost nothing: it is   *)
(* full, or holds at least what some admission and those since have left   *)
(* of a full one, and what has been refilled since.                        *)
TicksSince(i) == sinceAdmission + Ticks(i, Len(log))

WaitsAreFree ==
  /\ \/ Refilled(vectors, VectorRefill) = VectorCap
     \/ \E i \in DOMAIN log :
          Refilled(vectors, VectorRefill) >=
            VectorCap + VectorRefill * TicksSince(i)
              - Load(i, Len(log))
  /\ \/ Refilled(requests, RequestRefill) = RequestCap
     \/ \E i \in DOMAIN log :
          Refilled(requests, RequestRefill) >=
            RequestCap + RequestRefill * TicksSince(i) - RequestCost * (Len(log) - i + 1)

(* Nobody is kept asleep once both budgets have what it is admitted on.    *)
NoIdleBudget ==
  \A c \in Requests : pc[c] = "sleeping" /\ timer[c] > 0 => Wait(c) > 0

(* Every request that asked goes or gives up: none waits for a budget that *)
(* can never be there, or for a place that is never released.              *)
EveryoneLeaves == \A c \in Requests : pc[c] = "inLine" ~> pc[c] \in Settled

=============================================================================
