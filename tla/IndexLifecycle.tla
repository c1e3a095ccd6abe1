--------------------------- MODULE IndexLifecycle ---------------------------
(***************************************************************************)
(* The index lifecycle of one store (src/internal/index-lifecycle.ts):     *)
(* whether the index is remembered to exist, the one lookup concurrent     *)
(* writes share, and deleteIndex, next to the calls that use them          *)
(* (writes, reads) and the S3 Vectors service.                             *)
(*                                                                         *)
(* JavaScript runs a step from one await to the next without interruption, *)
(* so an action is such a step.  A request is sent, applied at the         *)
(* service, and answered in three different steps: an answer may be old    *)
(* when it is handled.                                                     *)
(*                                                                         *)
(* A call is made at most once: Writes, Reads and Deletes are sets of      *)
(* calls.  A lookup is named after the write that started it.              *)
(***************************************************************************)
EXTENDS Naturals, Sequences

CONSTANTS
  Writes,          \* calls that ensure the index, then send vectors
  Reads,           \* data requests that do not ensure it (queries, gets, later batches)
  Deletes,         \* deleteIndex calls
  Signalled,       \* the calls that were given an AbortSignal
  NoLookup,        \* memo === null
  MaxDisturbances  \* bound: outside changes and lost answers in a behaviour

Calls == Writes \cup Reads \cup Deletes

ASSUME CallsAssumption ==
  /\ Writes \cap Reads = {} /\ Writes \cap Deletes = {} /\ Reads \cap Deletes = {}
  /\ NoLookup \notin Writes
  /\ Signalled \subseteq Calls
  /\ MaxDisturbances \in Nat

VARIABLES
  (* the store *)
  knownToExist,    \* existence is remembered
  generation,      \* how many times it was forgotten
  memo,            \* the lookup in flight, or NoLookup
  lookup,          \* every lookup ever started: phase, reply, incarnation read
  (* the calls *)
  pc,              \* where each call is
  waitsOn,         \* the lookup it awaits or awaited
  goneAt,          \* the last incarnation its request's answer proves gone
  fired,           \* the calls whose signal has fired
  (* the service *)
  bucket,          \* the vector bucket is there
  present,         \* the index is there
  built,           \* the configuration of every index ever built under the name
  disturbances,
  (* history *)
  seen,            \* the incarnation the remembered existence was read from
  toldGone         \* the last incarnation the store was told is gone

storeVars   == <<knownToExist, generation, memo, lookup>>
callVars    == <<pc, waitsOn, goneAt, fired>>
serviceVars == <<bucket, present, built>>
history     == <<seen, toldGone>>
vars == <<storeVars, callVars, serviceVars, disturbances, history>>

(* An index agrees with the store's key set and metric, differs from them, *)
(* or answers GetIndex with a body that states neither.                    *)
Configs == {"agrees", "differs", "unstated"}

Incarnation == Len(built)

Settled == {"done", "failed", "aborted"}
Running == {"describe", "create", "redescribe"}

Lookups == [phase: Running \cup {"unused", "resolved", "rejected"},
            startedAt: Nat,
            reply: {"none", "found", "absent", "created", "conflict"},
            incarnation: Nat]

Places == {"idle", "waiting", "sent", "ok", "missing", "asking"} \cup Settled

StoreTypeOK ==
  /\ knownToExist \in BOOLEAN /\ generation \in Nat
  /\ memo \in Writes \cup {NoLookup} /\ lookup \in [Writes -> Lookups]
  /\ seen \in Nat /\ toldGone \in Nat

CallTypeOK ==
  /\ pc \in [Calls -> Places] /\ waitsOn \in [Calls -> Writes \cup {NoLookup}]
  /\ goneAt \in [Calls -> Nat] /\ fired \in SUBSET Signalled

ServiceTypeOK ==
  /\ bucket \in BOOLEAN /\ present \in BOOLEAN /\ built \in Seq(Configs)
  /\ disturbances \in Nat

TypeOK == StoreTypeOK /\ CallTypeOK /\ ServiceTypeOK

Init ==
  /\ knownToExist = FALSE /\ generation = 0 /\ memo = NoLookup
  /\ lookup = [w \in Writes |-> [phase |-> "unused", startedAt |-> 0,
                                 reply |-> "none", incarnation |-> 0]]
  /\ pc = [c \in Calls |-> "idle"]
  /\ waitsOn = [c \in Calls |-> NoLookup]
  /\ goneAt = [c \in Calls |-> 0]
  /\ fired = {}
  /\ bucket \in BOOLEAN
  /\ \/ present = FALSE /\ built = <<>>
     \/ bucket /\ present = TRUE /\ \E config \in Configs : built = <<config>>
  /\ disturbances = 0
  /\ seen = 0 /\ toldGone = 0

Larger(m, n) == IF m < n THEN n ELSE m

Goes(c, to) == pc' = [pc EXCEPT ![c] = to]

-----------------------------------------------------------------------------
(* The shared lookup *)

(* The last statement of the lookup: remember, unless something forgot the *)
(* index since the lookup started.                                         *)
(* (Here and below, a definition named X_How stands before X and is a      *)
(* defective X: one mistake, which a property has to notice.)              *)
NothingForgotten_Unchecked(l) == TRUE

NothingForgotten(l) == generation = lookup[l].startedAt

(* A lookup that ends clears the memo, whichever way it ends.              *)
Ends_MemoKept(l, how) ==
  /\ lookup' = [lookup EXCEPT ![l] = [phase |-> how, startedAt |-> 0,
                                      reply |-> "none", incarnation |-> 0]]
  /\ UNCHANGED <<memo, generation>>

Ends(l, how) ==
  /\ lookup' = [lookup EXCEPT ![l] = [phase |-> how, startedAt |-> 0,
                                      reply |-> "none", incarnation |-> 0]]
  /\ memo' = NoLookup
  /\ UNCHANGED generation

Remembers(l) ==
  /\ Ends(l, "resolved")
  /\ IF NothingForgotten(l)
       THEN knownToExist' = TRUE /\ seen' = lookup[l].incarnation
       ELSE UNCHANGED <<knownToExist, seen>>

ResolvesUnremembered_Remembers(l) == Remembers(l)

ResolvesUnremembered(l) ==
  Ends(l, "resolved") /\ UNCHANGED <<knownToExist, seen>>

Rejects(l) == Ends(l, "rejected") /\ UNCHANGED <<knownToExist, seen>>

Proceeds(l, phase) ==
  /\ lookup' = [lookup EXCEPT ![l].phase = phase, ![l].reply = "none"]
  /\ UNCHANGED <<knownToExist, generation, memo, seen>>

Answered(l, phase, reply) == lookup[l].phase = phase /\ lookup[l].reply = reply

(* The key set and the metric are compared; what was not stated is not.    *)
Accepted(l) == built[lookup[l].incarnation] # "differs"

Described(l) ==
  /\ \/ Answered(l, "describe", "found") /\ Accepted(l) /\ Remembers(l)
     \/ Answered(l, "describe", "found") /\ ~Accepted(l) /\ Rejects(l)
     \/ Answered(l, "describe", "absent") /\ Proceeds(l, "create")
  /\ UNCHANGED <<callVars, serviceVars, disturbances, toldGone>>

Created(l) ==
  /\ \/ Answered(l, "create", "created") /\ Remembers(l)
     \/ Answered(l, "create", "conflict") /\ Proceeds(l, "redescribe")
  /\ UNCHANGED <<callVars, serviceVars, disturbances, toldGone>>

(* Another writer won the race: its index is read back, and an index that  *)
(* could not be read is not remembered.                                    *)
Winner(l) ==
  /\ \/ Answered(l, "redescribe", "found") /\ Accepted(l) /\ Remembers(l)
     \/ Answered(l, "redescribe", "found") /\ ~Accepted(l) /\ Rejects(l)
     \/ Answered(l, "redescribe", "absent") /\ ResolvesUnremembered(l)
  /\ UNCHANGED <<callVars, serviceVars, disturbances, toldGone>>

(* A request of the lookup fails, applied or not; so does a configuration  *)
(* CreateIndex may not be sent.                                            *)
LookupFails(l) ==
  /\ lookup[l].phase \in Running
  /\ Rejects(l)
  /\ UNCHANGED <<callVars, serviceVars, disturbances, toldGone>>

-----------------------------------------------------------------------------
(* Writes: ensureExists, then PutVectors *)

StartsLookup(w) ==
  /\ lookup' = [lookup EXCEPT ![w] = [phase |-> "describe", startedAt |-> generation,
                                      reply |-> "none", incarnation |-> 0]]
  /\ memo' = w
  /\ waitsOn' = [waitsOn EXCEPT ![w] = w]

JoinsLookup(w) ==
  waitsOn' = [waitsOn EXCEPT ![w] = memo] /\ UNCHANGED <<lookup, memo>>

BeginWrite(w) ==
  /\ pc[w] = "idle" /\ w \notin fired
  /\ \/ knownToExist /\ Goes(w, "sent") /\ UNCHANGED <<lookup, memo, waitsOn>>
     \/ /\ ~knownToExist /\ Goes(w, "waiting")
        /\ \/ memo = NoLookup /\ StartsLookup(w)
           \/ memo # NoLookup /\ JoinsLookup(w)
  /\ UNCHANGED <<knownToExist, generation, goneAt, fired, serviceVars, disturbances, history>>

ResumeWrite_IfResolved(w) ==
  /\ pc[w] = "waiting" /\ w \notin fired
  /\ lookup[waitsOn[w]].phase = "resolved" /\ Goes(w, "sent")
  /\ UNCHANGED <<storeVars, waitsOn, goneAt, fired, serviceVars, disturbances, history>>

ResumeWrite(w) ==
  /\ pc[w] = "waiting" /\ w \notin fired
  /\ \/ lookup[waitsOn[w]].phase = "resolved" /\ Goes(w, "sent")
     \/ lookup[waitsOn[w]].phase = "rejected" /\ Goes(w, "failed")
  /\ UNCHANGED <<storeVars, waitsOn, goneAt, fired, serviceVars, disturbances, history>>

BeginRead(r) ==
  /\ pc[r] = "idle" /\ r \notin fired
  /\ Goes(r, "sent")
  /\ UNCHANGED <<storeVars, waitsOn, goneAt, fired, serviceVars, disturbances, history>>

(* markAbsent, and the last two statements of deleteIndex.                 *)
Forget_SameGeneration == knownToExist' = FALSE /\ UNCHANGED generation

Forget == knownToExist' = FALSE /\ generation' = generation + 1

IsTold(c) == toldGone' = Larger(toldGone, goneAt[c])

(* A data request's answer is handled: a 404 forgets the index.            *)
DataAnswered(c) ==
  /\ \/ pc[c] = "ok" /\ Goes(c, "done") /\ UNCHANGED <<knownToExist, generation, toldGone>>
     \/ pc[c] = "missing" /\ Goes(c, "failed") /\ Forget /\ IsTold(c)
  /\ UNCHANGED <<memo, lookup, waitsOn, goneAt, fired, serviceVars, disturbances, seen>>

-----------------------------------------------------------------------------
(* deleteIndex *)

SendsDelete(d) == Goes(d, "sent") /\ generation' = generation + 1

BeginDelete_NoWait(d) ==
  /\ pc[d] = "idle" /\ d \notin fired
  /\ waitsOn' = [waitsOn EXCEPT ![d] = memo]
  /\ SendsDelete(d)
  /\ UNCHANGED <<knownToExist, memo, lookup, goneAt, fired, serviceVars, disturbances, history>>

BeginDelete(d) ==
  /\ pc[d] = "idle" /\ d \notin fired
  /\ waitsOn' = [waitsOn EXCEPT ![d] = memo]
  /\ \/ memo = NoLookup /\ SendsDelete(d)
     \/ memo # NoLookup /\ Goes(d, "waiting") /\ UNCHANGED generation
  /\ UNCHANGED <<knownToExist, memo, lookup, goneAt, fired, serviceVars, disturbances, history>>

(* However the lookup ended, the delete goes on.                           *)
ResumeDelete(d) ==
  /\ pc[d] = "waiting" /\ d \notin fired
  /\ lookup[waitsOn[d]].phase \notin Running
  /\ SendsDelete(d)
  /\ UNCHANGED <<knownToExist, memo, lookup, waitsOn, goneAt, fired, serviceVars,
                 disturbances, history>>

(* The 404 forgets without a new generation, then asks for the bucket.     *)
DeleteAnswered(d) ==
  /\ \/ pc[d] = "ok" /\ Goes(d, "done") /\ Forget /\ IsTold(d)
     \/ /\ pc[d] = "missing" /\ Goes(d, "asking")
        /\ knownToExist' = FALSE /\ UNCHANGED <<generation, toldGone>>
  /\ UNCHANGED <<memo, lookup, waitsOn, goneAt, fired, serviceVars, disturbances, seen>>

(* Only a definite "absent" fails the call; any other failure is "unknown".*)
BucketAnswered(d) ==
  /\ pc[d] = "asking"
  /\ \/ Goes(d, "done") /\ Forget /\ IsTold(d)
     \/ ~bucket /\ Goes(d, "failed") /\ UNCHANGED <<knownToExist, generation, toldGone>>
  /\ UNCHANGED <<memo, lookup, waitsOn, goneAt, fired, serviceVars, disturbances, seen>>

-----------------------------------------------------------------------------
(* Signals *)

Fire(c) ==
  /\ c \in Signalled \ fired /\ pc[c] \notin Settled
  /\ fired' = fired \cup {c}
  /\ UNCHANGED <<storeVars, pc, waitsOn, goneAt, serviceVars, disturbances, history>>

Abort_NotWhileWaiting(c) ==
  /\ c \in fired /\ pc[c] \notin Settled \cup {"waiting"}
  /\ Goes(c, "aborted")
  /\ UNCHANGED <<storeVars, waitsOn, goneAt, fired, serviceVars, disturbances, history>>

(* A fired signal ends the call and nothing else: the lookup goes on, and  *)
(* a request already sent may still be applied (see OtherDeletes).         *)
Abort(c) ==
  /\ c \in fired /\ pc[c] \notin Settled
  /\ Goes(c, "aborted")
  /\ UNCHANGED <<storeVars, waitsOn, goneAt, fired, serviceVars, disturbances, history>>

-----------------------------------------------------------------------------
(* The service, and everyone else *)

Reply(l, reply, incarnation) ==
  lookup' = [lookup EXCEPT ![l].reply = reply, ![l].incarnation = incarnation]

ServiceDescribes(l) ==
  /\ lookup[l].phase \in {"describe", "redescribe"} /\ lookup[l].reply = "none"
  /\ \/ present /\ Reply(l, "found", Incarnation)
     \/ ~present /\ Reply(l, "absent", 0)
  /\ UNCHANGED <<knownToExist, generation, memo, callVars, serviceVars, disturbances, history>>

(* CreateIndex in a bucket that is not there can only fail (LookupFails).  *)
ServiceCreates(l) ==
  /\ Answered(l, "create", "none") /\ bucket
  /\ \/ present /\ Reply(l, "conflict", 0) /\ UNCHANGED <<present, built>>
     \/ /\ ~present /\ Reply(l, "created", Incarnation + 1)
        /\ present' = TRUE /\ built' = Append(built, "agrees")
  /\ UNCHANGED <<knownToExist, generation, memo, callVars, bucket, disturbances, history>>

ServiceServes(c) ==
  /\ pc[c] = "sent" /\ c \notin Deletes
  /\ \/ present /\ Goes(c, "ok") /\ UNCHANGED goneAt
     \/ ~present /\ Goes(c, "missing") /\ goneAt' = [goneAt EXCEPT ![c] = Incarnation]
  /\ UNCHANGED <<storeVars, waitsOn, fired, serviceVars, disturbances, history>>

ServiceDeletes(d) ==
  /\ pc[d] = "sent"
  /\ Goes(d, IF present THEN "ok" ELSE "missing")
  /\ goneAt' = [goneAt EXCEPT ![d] = Incarnation]
  /\ present' = FALSE
  /\ UNCHANGED <<storeVars, waitsOn, fired, bucket, built, disturbances, history>>

(* A call's request fails otherwise than 404, applied or not.              *)
RequestFails(c) ==
  /\ pc[c] \in {"sent", "ok", "missing"}
  /\ Goes(c, "failed")
  /\ UNCHANGED <<storeVars, waitsOn, goneAt, fired, serviceVars, disturbances, history>>

Disturbs == disturbances < MaxDisturbances /\ disturbances' = disturbances + 1

(* An answer is lost and the SDK sends the request again.                  *)
AnswerLost(c) ==
  /\ Disturbs /\ pc[c] \in {"ok", "missing"} /\ Goes(c, "sent")
  /\ UNCHANGED <<storeVars, waitsOn, goneAt, fired, serviceVars, history>>

LookupAnswerLost(l) ==
  /\ Disturbs /\ lookup[l].reply # "none"
  /\ Reply(l, "none", 0)
  /\ UNCHANGED <<knownToExist, generation, memo, callVars, serviceVars, history>>

OtherCreates ==
  /\ Disturbs /\ bucket /\ ~present
  /\ present' = TRUE /\ \E config \in Configs : built' = Append(built, config)
  /\ UNCHANGED <<storeVars, callVars, bucket, history>>

(* Another process, or an aborted DeleteIndex of this one, that lands now. *)
OtherDeletes ==
  /\ Disturbs /\ present /\ present' = FALSE
  /\ UNCHANGED <<storeVars, callVars, bucket, built, history>>

OtherChangesBucket ==
  /\ Disturbs /\ ~present /\ bucket' = ~bucket
  /\ UNCHANGED <<storeVars, callVars, present, built, history>>

-----------------------------------------------------------------------------

LookupStep(l) == Described(l) \/ Created(l) \/ Winner(l)
LookupRequest(l) == ServiceDescribes(l) \/ ServiceCreates(l) \/ LookupFails(l)

WriteStep(w) == ResumeWrite(w) \/ DataAnswered(w)
ReadStep(r) == DataAnswered(r)
DeleteStep(d) == ResumeDelete(d) \/ DeleteAnswered(d)
Request(c) == ServiceServes(c) \/ RequestFails(c)
DeleteRequest(d) == ServiceDeletes(d) \/ RequestFails(d) \/ BucketAnswered(d)

Outside == OtherCreates \/ OtherDeletes \/ OtherChangesBucket

Next ==
  \/ \E w \in Writes : \/ BeginWrite(w) \/ WriteStep(w)
                       \/ LookupStep(w) \/ LookupRequest(w) \/ LookupAnswerLost(w)
  \/ \E r \in Reads : BeginRead(r) \/ ReadStep(r)
  \/ \E c \in Writes \cup Reads : Request(c)
  \/ \E d \in Deletes : BeginDelete(d) \/ DeleteStep(d) \/ DeleteRequest(d)
  \/ \E c \in Calls : Fire(c) \/ Abort(c) \/ AnswerLost(c)
  \/ Outside

Spec == Init /\ [][Next]_vars

(* Fairness of the store: the event loop runs what is ready to run.        *)
StoreFairness ==
  /\ \A w \in Writes : WF_vars(WriteStep(w)) /\ WF_vars(LookupStep(w))
  /\ \A r \in Reads : WF_vars(ReadStep(r))
  /\ \A d \in Deletes : WF_vars(DeleteStep(d))
  /\ \A c \in Calls : WF_vars(Abort(c))

(* Fairness of the service: every request is answered or fails, as the     *)
(* SDK's own timeouts see to.                                              *)
ServiceFairness ==
  /\ \A w \in Writes : WF_vars(LookupRequest(w))
  /\ \A c \in Writes \cup Reads : WF_vars(Request(c))
  /\ \A d \in Deletes : WF_vars(DeleteRequest(d))

FairSpec == Spec /\ StoreFairness

-----------------------------------------------------------------------------
(* Properties *)

(* Concurrent writes share one lookup: the lookups running are the one in  *)
(* memo, and memo never holds one that has ended (`memo ??= ...`,          *)
(* `finally { memo = null }`), so a failure is retried and never reused.   *)
OneLookup == {l \in Writes : lookup[l].phase \in Running} = {memo} \ {NoLookup}

(* The remembered existence was never read from an index the store has     *)
(* since been told is gone - by its own DeleteIndex, or by a data request's *)
(* 404 - so the next write looks again (`generation`).                     *)
NeverRemembersGone == knownToExist => seen > toldGone

(* The index remembered is one whose configuration was compared with the   *)
(* store's and did not differ, or that the store itself created: also      *)
(* after a lost creation race.                                             *)
RememberedAgrees ==
  knownToExist => seen \in 1..Incarnation /\ built[seen] # "differs"

(* No index is built for a lookup that was running when deleteIndex was    *)
(* called, once that DeleteIndex is sent: a creation that started first    *)
(* cannot undo the delete.                                                 *)
Builds(l) == lookup[l].reply # "created" /\ lookup'[l].reply = "created"

NoResurrection ==
  [][\A l \in Writes, d \in Deletes :
       Builds(l) /\ waitsOn[d] = l
         => pc[d] \notin {"sent", "ok", "missing", "asking", "done"}]_vars

(* A signal ends its call even when the service never answers: the wait    *)
(* for a shared lookup is raced against it.                                *)
FiredSettles == \A c \in Calls : c \in fired ~> pc[c] \in Settled

(* Every call that began ends, when every request is answered or fails:    *)
(* the writes sharing a lookup, whichever way it ended, and a delete that  *)
(* waits for it.                                                           *)
BegunSettles ==
  ServiceFairness => \A c \in Calls : pc[c] # "idle" ~> pc[c] \in Settled

(* What the store remembers implements the existence memory, whose only    *)
(* rule is that nothing told gone is learnt.                               *)
Memory == INSTANCE ExistenceMemory
            WITH known <- knownToExist, witness <- seen, gone <- toldGone

ImplementsMemory == Memory!Spec

=============================================================================
