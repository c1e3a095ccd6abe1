------------------------ MODULE IndexLifecycleProofs ------------------------
(***************************************************************************)
(* IndexLifecycle for every number of calls and of outside changes: its    *)
(* type invariant, the safety invariants its runs check, and that it       *)
(* implements ExistenceMemory.                                             *)
(***************************************************************************)
EXTENDS IndexLifecycle, SequenceTheorems, TLAPS

Runs(l) == lookup[l].phase \in Running

HasRead(l) == lookup[l].reply \in {"found", "created"}

(* memo and the lookups agree, and a lookup is never ahead of generation.  *)
LookupInv ==
  /\ \A l \in Writes : Runs(l) => memo = l /\ lookup[l].startedAt <= generation
  /\ memo # NoLookup => Runs(memo)

(* What a lookup has read is an index that was built, and what it created  *)
(* agrees with the store.                                                  *)
ReadInv ==
  \A l \in Writes :
    /\ HasRead(l) => Runs(l) /\ lookup[l].incarnation \in 1..Len(built)
    /\ lookup[l].reply = "created" => built[lookup[l].incarnation] = "agrees"

(* An index that is there is newer than every one told, or about to be     *)
(* told, gone.                                                             *)
GoneInv ==
  /\ toldGone <= Len(built) /\ (present => toldGone < Len(built))
  /\ \A c \in Calls : goneAt[c] <= Len(built) /\ (present => goneAt[c] < Len(built))

(* A lookup since whose start nothing was forgotten has read an index that *)
(* nobody has called gone.                                                 *)
FreshInv ==
  \A l \in Writes :
    HasRead(l) /\ lookup[l].startedAt = generation => lookup[l].incarnation > toldGone

(* A delete past its wait has seen the lookup it found settle, and a       *)
(* settled lookup is never started again: its write has begun.             *)
PastWait == {"sent", "ok", "missing", "asking", "done"}

AwaitInv ==
  /\ \A w \in Writes : pc[w] = "idle" => lookup[w].phase = "unused"
  /\ \A d \in Deletes : waitsOn[d] # NoLookup =>
       /\ pc[d] # "idle" /\ lookup[waitsOn[d]].phase # "unused"
       /\ pc[d] \in PastWait => ~Runs(waitsOn[d])

MemoryInv == NeverRemembersGone /\ RememberedAgrees

IInv == TypeOK /\ LookupInv /\ ReadInv /\ GoneInv /\ FreshInv /\ MemoryInv
-----------------------------------------------------------------------------
(* Types, one part of the state at a time *)

LEMMA StoreTypes == TypeOK /\ [Next]_vars => StoreTypeOK'
<1> SUFFICES ASSUME TypeOK, [Next]_vars PROVE StoreTypeOK'
  OBVIOUS
<1> USE CallsAssumption DEF Calls, TypeOK, StoreTypeOK, history
<1>1. ASSUME NEW w \in Writes, BeginWrite(w) PROVE StoreTypeOK'
  BY <1>1 DEF BeginWrite, StartsLookup, JoinsLookup, Lookups, Running
<1>2. ASSUME NEW c \in Calls, DataAnswered(c) \/ DeleteAnswered(c) \/ BucketAnswered(c)
      PROVE StoreTypeOK'
  <2>1. goneAt[c] \in Nat /\ Larger(toldGone, goneAt[c]) \in Nat
    BY DEF CallTypeOK, Larger
  <2>2. CASE Forget /\ IsTold(c) /\ UNCHANGED <<memo, lookup, seen>>
    <3>1. generation' \in Nat
      BY <2>2 DEF Forget
    <3>2. toldGone' \in Nat
      BY <2>1, <2>2 DEF IsTold
    <3>3. knownToExist' \in BOOLEAN
      BY <2>2 DEF Forget
    <3>4. QED
      BY <2>2, <3>1, <3>2, <3>3
  <2>3. CASE knownToExist' \in BOOLEAN /\ UNCHANGED <<generation, toldGone, memo, lookup, seen>>
    BY <2>3
  <2>4. QED
    BY <1>2, <2>2, <2>3 DEF DataAnswered, DeleteAnswered, BucketAnswered
<1>3. ASSUME NEW l \in Writes, LookupStep(l) \/ LookupFails(l) PROVE StoreTypeOK'
  <2>1. /\ lookup' \in [Writes -> Lookups] /\ memo' \in Writes \cup {NoLookup}
        /\ generation' = generation
    BY <1>3 DEF LookupStep, Described, Created, Winner, LookupFails, Remembers, Rejects,
                ResolvesUnremembered, Proceeds, Ends, Lookups, Running
  <2>2. knownToExist' \in BOOLEAN /\ seen' \in Nat /\ UNCHANGED toldGone
    <3>1. lookup[l].incarnation \in Nat
      BY DEF Lookups
    <3>2. QED
      BY <1>3, <3>1 DEF LookupStep, Described, Created, Winner, LookupFails, Remembers, Rejects,
                        ResolvesUnremembered, Proceeds
  <2>3. QED
    BY <2>1, <2>2
<1>4. ASSUME NEW l \in Writes,
             ServiceDescribes(l) \/ ServiceCreates(l) \/ LookupAnswerLost(l)
      PROVE StoreTypeOK'
  <2>1. Incarnation \in Nat
    BY LenProperties DEF ServiceTypeOK, Incarnation
  <2>2. PICK reply \in {"none", "found", "absent", "created", "conflict"}, n \in Nat :
          Reply(l, reply, n)
    BY <1>4, <2>1 DEF ServiceDescribes, ServiceCreates, LookupAnswerLost
  <2>3. lookup' \in [Writes -> Lookups]
    <3>1. [lookup[l] EXCEPT !.reply = reply, !.incarnation = n] \in Lookups
      BY <2>2 DEF Lookups
    <3>2. lookup' = [lookup EXCEPT ![l] = [lookup[l] EXCEPT !.reply = reply, !.incarnation = n]]
      BY <2>2 DEF Reply
    <3>3. QED
      BY <3>1, <3>2
  <2>4. QED
    BY <1>4, <2>3 DEF ServiceDescribes, ServiceCreates, LookupAnswerLost
<1>5. ASSUME NEW d \in Deletes, BeginDelete(d) \/ ResumeDelete(d) PROVE StoreTypeOK'
  BY <1>5 DEF BeginDelete, ResumeDelete, SendsDelete
<1>6. CASE UNCHANGED <<storeVars, history>>
  BY <1>6 DEF storeVars
<1>7. QED
  BY <1>1, <1>2, <1>3, <1>4, <1>5, <1>6
     DEF Next, vars, WriteStep, ReadStep, DeleteStep, LookupRequest, Request, DeleteRequest,
         Outside, ResumeWrite, BeginRead, ServiceServes, RequestFails, ServiceDeletes, Fire,
         Abort, AnswerLost, OtherCreates, OtherDeletes, OtherChangesBucket

LEMMA CallTypes == TypeOK /\ [Next]_vars => CallTypeOK'
<1> SUFFICES ASSUME TypeOK, [Next]_vars PROVE CallTypeOK'
  OBVIOUS
<1> USE CallsAssumption DEF Calls, TypeOK, CallTypeOK, Places, Settled, Goes, history
<1>1. ASSUME NEW w \in Writes, BeginWrite(w) \/ ResumeWrite(w) PROVE CallTypeOK'
  BY <1>1 DEF StoreTypeOK, BeginWrite, StartsLookup, JoinsLookup, ResumeWrite
<1>2. ASSUME NEW c \in Calls, DataAnswered(c) \/ DeleteAnswered(c) \/ BucketAnswered(c)
      PROVE CallTypeOK'
  BY <1>2 DEF DataAnswered, DeleteAnswered, BucketAnswered
<1>3. ASSUME NEW d \in Deletes, BeginDelete(d) \/ ResumeDelete(d) PROVE CallTypeOK'
  BY <1>3 DEF StoreTypeOK, BeginDelete, ResumeDelete, SendsDelete
<1>4. ASSUME NEW c \in Calls, ServiceServes(c) \/ ServiceDeletes(c) PROVE CallTypeOK'
  <2>1. Incarnation \in Nat
    BY LenProperties DEF ServiceTypeOK, Incarnation
  <2>2. QED
    BY <1>4, <2>1 DEF ServiceServes, ServiceDeletes
<1>5. ASSUME NEW c \in Calls,
             BeginRead(c) \/ RequestFails(c) \/ Fire(c) \/ Abort(c) \/ AnswerLost(c)
      PROVE CallTypeOK'
  BY <1>5 DEF BeginRead, RequestFails, Fire, Abort, AnswerLost
<1>6. CASE UNCHANGED callVars
  BY <1>6 DEF callVars
<1>7. QED
  BY <1>1, <1>2, <1>3, <1>4, <1>5, <1>6
     DEF Next, vars, WriteStep, ReadStep, DeleteStep, LookupStep, LookupRequest, Request,
         DeleteRequest, Outside, Described, Created, Winner, LookupFails, ServiceDescribes,
         ServiceCreates, LookupAnswerLost, OtherCreates, OtherDeletes, OtherChangesBucket

LEMMA ServiceTypes == TypeOK /\ [Next]_vars => ServiceTypeOK'
<1> SUFFICES ASSUME TypeOK, [Next]_vars PROVE ServiceTypeOK'
  OBVIOUS
<1> USE CallsAssumption DEF TypeOK, ServiceTypeOK, Disturbs, serviceVars
<1>1. ASSUME NEW l \in Writes, ServiceCreates(l) PROVE ServiceTypeOK'
  <2>1. Append(built, "agrees") \in Seq(Configs)
    BY AppendProperties DEF Configs
  <2>2. QED
    BY <1>1, <2>1 DEF ServiceCreates
<1>2. ASSUME NEW d \in Deletes, ServiceDeletes(d) PROVE ServiceTypeOK'
  BY <1>2 DEF ServiceDeletes
<1>3. CASE Outside
  <2>1. \A config \in Configs : Append(built, config) \in Seq(Configs)
    BY AppendProperties
  <2>2. disturbances' \in Nat
    BY <1>3 DEF Outside, OtherCreates, OtherDeletes, OtherChangesBucket
  <2>3. built' \in Seq(Configs) /\ bucket' \in BOOLEAN /\ present' \in BOOLEAN
    BY <1>3, <2>1 DEF Outside, OtherCreates, OtherDeletes, OtherChangesBucket
  <2>4. QED
    BY <2>2, <2>3
<1>4. CASE UNCHANGED serviceVars /\ disturbances' \in Nat
  BY <1>4
<1>5. QED
  BY <1>1, <1>2, <1>3, <1>4
     DEF Next, vars, WriteStep, ReadStep, DeleteStep, LookupStep, LookupRequest, Request,
         DeleteRequest, BeginWrite, ResumeWrite, DataAnswered, Described, Created, Winner,
         LookupFails, ServiceDescribes, LookupAnswerLost, BeginRead, ServiceServes,
         RequestFails, BeginDelete, ResumeDelete, DeleteAnswered, BucketAnswered, Fire, Abort,
         AnswerLost

LEMMA InitTypes == Init => TypeOK
<1> SUFFICES ASSUME Init PROVE TypeOK
  OBVIOUS
<1>1. StoreTypeOK
  BY DEF Init, StoreTypeOK, Lookups
<1>2. CallTypeOK
  BY DEF Init, CallTypeOK, Places
<1>3. ServiceTypeOK
  <2>1. <<>> \in Seq(Configs) /\ \A config \in Configs : <<config>> \in Seq(Configs)
    OBVIOUS
  <2>2. bucket \in BOOLEAN /\ present \in BOOLEAN /\ disturbances \in Nat
    BY DEF Init
  <2>3. built \in Seq(Configs)
    BY <2>1 DEF Init
  <2>4. QED
    BY <2>2, <2>3 DEF ServiceTypeOK
<1>4. QED
  BY <1>1, <1>2, <1>3 DEF TypeOK

(* Every variable keeps its type: the memo, the lookups, the calls and the *)
(* service's history of indexes.                                           *)
THEOREM TypeCorrect == Spec => []TypeOK
<1>1. Init => TypeOK
  BY InitTypes
<1>2. TypeOK /\ [Next]_vars => TypeOK'
  BY StoreTypes, CallTypes, ServiceTypes DEF TypeOK
<1>3. QED
  BY <1>1, <1>2, PTL DEF Spec

-----------------------------------------------------------------------------
(* The inductive invariant, one group of actions at a time *)

(* A lookup's own step ends it or moves it to its next request, and leaves *)
(* nothing behind that was read.                                           *)
LEMMA LookupMoves ==
  ASSUME IInv, NEW l \in Writes, LookupStep(l) \/ LookupFails(l)
  PROVE  LookupInv' /\ ReadInv' /\ FreshInv' /\ GoneInv'
<1> USE DEF IInv, TypeOK, StoreTypeOK, Lookups
<1>1. /\ Runs(l)
      /\ \/ \E how \in {"resolved", "rejected"} : Ends(l, how)
         \/ \E phase \in Running : Proceeds(l, phase)
      /\ UNCHANGED <<generation, built, present, goneAt, toldGone>>
  BY DEF LookupStep, Described, Created, Winner, LookupFails, Answered, Remembers, Rejects,
         ResolvesUnremembered, Proceeds, Ends, Runs, Running, callVars, serviceVars
<1>2. lookup'[l].reply = "none" /\ \A m \in Writes \ {l} : lookup'[m] = lookup[m]
  <2>1. CASE \E how \in {"resolved", "rejected"} : Ends(l, how)
    BY <2>1 DEF Ends
  <2>2. CASE \E phase \in Running : Proceeds(l, phase)
    BY <2>2 DEF Proceeds
  <2>3. QED
    BY <1>1, <2>1, <2>2
<1>3. LookupInv'
  <2>1. CASE \E how \in {"resolved", "rejected"} : Ends(l, how)
    <3>1. memo' = NoLookup /\ ~Runs(l)'
      BY <2>1 DEF Ends, Runs, Running
    <3>2. \A m \in Writes : ~Runs(m)'
      BY <1>1, <1>2, <3>1 DEF LookupInv, Runs
    <3>3. QED
      BY <3>1, <3>2 DEF LookupInv
  <2>2. CASE \E phase \in Running : Proceeds(l, phase)
    <3>1. /\ memo' = memo /\ Runs(l)' /\ lookup'[l].startedAt = lookup[l].startedAt
      BY <2>2 DEF Proceeds, Runs
    <3>2. QED
      BY <1>1, <1>2, <3>1 DEF LookupInv, Runs
  <2>3. QED
    BY <1>1, <2>1, <2>2
<1>4. ReadInv'
  BY <1>1, <1>2 DEF ReadInv, HasRead, Runs
<1>5. FreshInv'
  BY <1>1, <1>2 DEF FreshInv, HasRead
<1>6. GoneInv'
  BY <1>1 DEF GoneInv
<1>7. QED
  BY <1>3, <1>4, <1>5, <1>6

(* The service's answer to a lookup names the index that is there, which   *)
(* is newer than every one told gone.                                      *)
LEMMA LookupAnswers ==
  ASSUME IInv, CallsAssumption, NEW l \in Writes, ServiceDescribes(l) \/ ServiceCreates(l)
  PROVE  LookupInv' /\ ReadInv' /\ FreshInv' /\ GoneInv'
<1> USE DEF IInv, TypeOK, StoreTypeOK, CallTypeOK, ServiceTypeOK, Lookups
<1>1. PICK reply \in {"none", "found", "absent", "created", "conflict"}, n \in Nat :
        /\ Reply(l, reply, n)
        /\ reply \in {"found", "created"} => n = Len(built') /\ present'
        /\ reply = "created" => n \in 1..Len(built') /\ built'[n] = "agrees"
  BY DEF ServiceDescribes, ServiceCreates, Incarnation, serviceVars
<1>2. /\ Runs(l) /\ UNCHANGED <<generation, memo, goneAt, toldGone>>
  BY DEF ServiceDescribes, ServiceCreates, Answered, Runs, Running, callVars, history
<1>3. /\ Len(built) <= Len(built')
      /\ \A i \in 1..Len(built) : built'[i] = built[i]
      /\ present' => present \/ Len(built') = Len(built) + 1
  BY DEF ServiceDescribes, ServiceCreates, serviceVars
<1>4. /\ lookup'[l].reply = reply /\ lookup'[l].incarnation = n
      /\ lookup'[l].phase = lookup[l].phase /\ lookup'[l].startedAt = lookup[l].startedAt
      /\ \A m \in Writes \ {l} : lookup'[m] = lookup[m]
  BY <1>1 DEF Reply
<1>5. GoneInv'
  BY <1>2, <1>3, LenProperties DEF GoneInv, Calls
<1>6. LookupInv'
  BY <1>2, <1>4 DEF LookupInv, Runs
<1>7. ReadInv'
  BY <1>1, <1>2, <1>3, <1>4, <1>5, LenProperties DEF ReadInv, HasRead, Runs, GoneInv
<1>8. FreshInv'
  BY <1>1, <1>2, <1>4, <1>5 DEF FreshInv, HasRead, GoneInv
<1>9. QED
  BY <1>5, <1>6, <1>7, <1>8

(* What is remembered changes only when a lookup ends with nothing         *)
(* forgotten since it started, or is dropped.                              *)
LEMMA MemoryKept ==
  ASSUME IInv, TypeOK', CallsAssumption, [Next]_vars PROVE MemoryInv'
<1> USE DEF IInv, TypeOK, StoreTypeOK, ServiceTypeOK, MemoryInv, NeverRemembersGone,
            RememberedAgrees, Incarnation
<1>1. ASSUME NEW l \in Writes, Described(l) \/ Created(l) \/ Winner(l) PROVE MemoryInv'
  <2>1. UNCHANGED <<toldGone, built>>
    BY <1>1 DEF Described, Created, Winner, serviceVars
  <2>2. \/ UNCHANGED <<knownToExist, seen>>
        \/ /\ HasRead(l) /\ (lookup[l].reply = "found" => Accepted(l))
           /\ NothingForgotten(l) /\ seen' = lookup[l].incarnation
    BY <1>1 DEF Described, Created, Winner, Answered, Remembers, Rejects, Proceeds,
                ResolvesUnremembered, HasRead
  <2>3. CASE HasRead(l) /\ (lookup[l].reply = "found" => Accepted(l)) /\ NothingForgotten(l)
    <3>1. built[lookup[l].incarnation] # "differs" /\ lookup[l].incarnation \in 1..Len(built)
      BY <2>3 DEF HasRead, ReadInv, Accepted
    <3>2. lookup[l].incarnation > toldGone
      BY <2>3 DEF FreshInv, NothingForgotten
    <3>3. QED
      BY <2>1, <2>2, <3>1, <3>2
  <2>4. QED
    BY <2>1, <2>2, <2>3
<1>2. ASSUME NEW c \in Calls, DataAnswered(c) \/ DeleteAnswered(c) \/ BucketAnswered(c)
      PROVE MemoryInv'
  BY <1>2 DEF DataAnswered, DeleteAnswered, BucketAnswered, Forget, serviceVars
<1>3. ASSUME NEW l \in Writes, ServiceCreates(l) PROVE MemoryInv'
  BY <1>3, LenProperties DEF ServiceCreates, history
<1>4. CASE OtherCreates
  BY <1>4, LenProperties DEF OtherCreates, storeVars, history
<1>5. CASE UNCHANGED <<knownToExist, seen, toldGone, built>>
  BY <1>5
<1>6. QED
  BY <1>1, <1>2, <1>3, <1>4, <1>5
     DEF Next, vars, storeVars, serviceVars, history, WriteStep, ReadStep, DeleteStep,
         LookupStep, LookupRequest, Request, DeleteRequest, Outside, Calls, BeginWrite,
         ResumeWrite, LookupFails, Rejects, ServiceDescribes, LookupAnswerLost, BeginRead,
         ServiceServes, RequestFails, BeginDelete, ResumeDelete, ServiceDeletes, Fire, Abort,
         AnswerLost, OtherDeletes, OtherChangesBucket

(* An answer to a call, and a change from outside, keep what is there      *)
(* newer than what is gone.                                                *)
LEMMA GoneKept ==
  ASSUME IInv, CallsAssumption,
         (\E c \in Writes \cup Reads : ServiceServes(c)) \/ (\E d \in Deletes : ServiceDeletes(d))
         \/ OtherCreates \/ OtherDeletes
  PROVE  GoneInv' /\ LookupInv' /\ ReadInv' /\ FreshInv'
<1> USE DEF IInv, TypeOK, StoreTypeOK, CallTypeOK, ServiceTypeOK, Calls
<1>1. UNCHANGED <<generation, memo, lookup, toldGone>>
  BY DEF ServiceServes, ServiceDeletes, OtherCreates, OtherDeletes, storeVars, history
<1>2. /\ Len(built) <= Len(built')
      /\ \A i \in 1..Len(built) : built'[i] = built[i]
      /\ present' => present \/ Len(built') = Len(built) + 1
  BY DEF ServiceServes, ServiceDeletes, OtherCreates, OtherDeletes, serviceVars
<1>3. \/ goneAt' = goneAt
      \/ ~present' /\ built' = built /\ \E c \in Calls : goneAt' = [goneAt EXCEPT ![c] = Len(built)]
  BY DEF ServiceServes, ServiceDeletes, OtherCreates, OtherDeletes, serviceVars, callVars,
         Incarnation
<1>4. GoneInv'
  <2>1. Len(built) \in Nat /\ Len(built') \in Nat
    BY <1>2, LenProperties DEF ServiceServes, ServiceDeletes, OtherCreates, OtherDeletes,
                               serviceVars
  <2>2. CASE goneAt' = goneAt
    BY <1>1, <1>2, <2>1, <2>2 DEF GoneInv
  <2>3. CASE ~present' /\ built' = built /\ \E c \in Calls : goneAt' = [goneAt EXCEPT ![c] = Len(built)]
    BY <1>1, <2>1, <2>3 DEF GoneInv
  <2>4. QED
    BY <1>3, <2>2, <2>3
<1>5. LookupInv' /\ FreshInv'
  BY <1>1 DEF LookupInv, FreshInv, Runs, HasRead
<1>6. ReadInv'
  BY <1>1, <1>2, LenProperties DEF ReadInv, HasRead, Runs
<1>7. QED
  BY <1>4, <1>5, <1>6

(* Forgetting starts a new generation, so no lookup in flight is fresh.    *)
LEMMA ForgetKept ==
  ASSUME IInv, CallsAssumption, NEW c \in Calls,
         DataAnswered(c) \/ DeleteAnswered(c) \/ BucketAnswered(c)
  PROVE  LookupInv' /\ ReadInv' /\ GoneInv' /\ FreshInv'
<1> USE DEF IInv, TypeOK, StoreTypeOK, CallTypeOK, ServiceTypeOK
<1>1. /\ UNCHANGED <<memo, lookup, built, present, goneAt>>
      /\ \/ generation' = generation + 1 /\ toldGone' \in {toldGone, goneAt[c]}
         \/ UNCHANGED <<generation, toldGone>>
  BY DEF DataAnswered, DeleteAnswered, BucketAnswered, Forget, IsTold, Larger, serviceVars
<1>2. LookupInv' /\ ReadInv'
  BY <1>1 DEF LookupInv, ReadInv, HasRead, Runs, Lookups
<1>3. GoneInv'
  BY <1>1 DEF GoneInv
<1>4. FreshInv'
  BY <1>1 DEF FreshInv, ReadInv, LookupInv, HasRead, Runs, Lookups
<1>5. QED
  BY <1>2, <1>3, <1>4

LEMMA Inductive == ASSUME IInv, CallsAssumption, [Next]_vars PROVE IInv'
<1>1. TypeOK'
  BY StoreTypes, CallTypes, ServiceTypes DEF IInv, TypeOK
<1>2. MemoryInv'
  BY <1>1, MemoryKept
<1>3. LookupInv' /\ ReadInv' /\ GoneInv' /\ FreshInv'
  <2> DEFINE Kept == LookupInv' /\ ReadInv' /\ GoneInv' /\ FreshInv'
  <2>1. ASSUME NEW l \in Writes, LookupStep(l) \/ LookupFails(l) PROVE Kept
    BY <2>1, LookupMoves
  <2>2. ASSUME NEW l \in Writes, ServiceDescribes(l) \/ ServiceCreates(l) PROVE Kept
    BY <2>2, LookupAnswers
  <2>3. ASSUME NEW c \in Calls, DataAnswered(c) \/ DeleteAnswered(c) \/ BucketAnswered(c)
        PROVE Kept
    BY <2>3, ForgetKept
  <2>4. CASE \/ \E c \in Writes \cup Reads : ServiceServes(c)
             \/ \E d \in Deletes : ServiceDeletes(d)
             \/ OtherCreates \/ OtherDeletes
    BY <2>4, GoneKept
  <2>5. ASSUME NEW w \in Writes, BeginWrite(w) PROVE Kept
    <3> USE DEF IInv, TypeOK, StoreTypeOK, Lookups
    <3>1. LookupInv' /\ GoneInv'
      BY <2>5 DEF LookupInv, GoneInv, BeginWrite, StartsLookup, JoinsLookup, Runs, Running,
                  serviceVars, history
    <3>2. ReadInv'
      <4>1. /\ built' = built
            /\ \A m \in Writes : lookup'[m] = lookup[m] \/ lookup'[m].reply = "none"
        BY <2>5 DEF BeginWrite, StartsLookup, JoinsLookup, serviceVars
      <4>2. QED
        BY <4>1 DEF ReadInv, HasRead, Runs
    <3>3. FreshInv'
      BY <2>5 DEF FreshInv, HasRead, BeginWrite, StartsLookup, JoinsLookup, history
    <3>4. QED
      BY <3>1, <3>2, <3>3
  <2>6. ASSUME NEW l \in Writes, LookupAnswerLost(l) PROVE Kept
    <3> USE DEF IInv, TypeOK, StoreTypeOK, Lookups
    <3>1. LookupInv' /\ GoneInv'
      BY <2>6 DEF LookupInv, GoneInv, LookupAnswerLost, Reply, Runs, callVars, serviceVars, history
    <3>2. ReadInv' /\ FreshInv'
      BY <2>6 DEF ReadInv, FreshInv, HasRead, Runs, LookupAnswerLost, Reply, serviceVars, history
    <3>3. QED
      BY <3>1, <3>2
  <2>7. ASSUME NEW d \in Deletes, BeginDelete(d) \/ ResumeDelete(d) PROVE Kept
    <3> USE DEF IInv, TypeOK, StoreTypeOK
    <3>1. /\ UNCHANGED <<memo, lookup, built, present, goneAt, toldGone>>
          /\ generation' \in {generation, generation + 1}
      BY <2>7 DEF BeginDelete, ResumeDelete, SendsDelete, serviceVars, history
    <3>2. QED
      BY <3>1 DEF LookupInv, ReadInv, GoneInv, FreshInv, HasRead, Runs, Lookups
  <2>8. CASE UNCHANGED <<generation, memo, lookup, built, present, goneAt, toldGone>>
    BY <2>8 DEF IInv, LookupInv, ReadInv, GoneInv, FreshInv, HasRead, Runs
  <2>9. QED
    BY <2>1, <2>2, <2>3, <2>4, <2>5, <2>6, <2>7, <2>8
       DEF Next, vars, storeVars, callVars, serviceVars, history, WriteStep, ReadStep,
           DeleteStep, LookupRequest, Request, DeleteRequest, Outside, Calls, ResumeWrite,
           BeginRead, RequestFails, Fire, Abort, AnswerLost, OtherChangesBucket
<1>4. QED
  BY <1>1, <1>2, <1>3 DEF IInv

LEMMA Initial == Init /\ CallsAssumption => IInv
<1> SUFFICES ASSUME Init, CallsAssumption PROVE IInv
  OBVIOUS
<1>1. TypeOK
  BY InitTypes
<1>2. LookupInv /\ ReadInv /\ FreshInv
  BY DEF Init, LookupInv, ReadInv, FreshInv, HasRead, Runs, Running
<1>3. GoneInv
  BY DEF Init, GoneInv, Calls
<1>4. MemoryInv
  BY DEF Init, MemoryInv, NeverRemembersGone, RememberedAgrees
<1>5. QED
  BY <1>1, <1>2, <1>3, <1>4 DEF IInv

LEMMA Invariant == Spec => []IInv
<1>1. Init => IInv
  BY Initial, CallsAssumption
<1>2. IInv /\ [Next]_vars => IInv'
  BY Inductive, CallsAssumption
<1>3. QED
  BY <1>1, <1>2, PTL DEF Spec

-----------------------------------------------------------------------------
(* What follows from it *)

(* Concurrent writes share one lookup, whatever their number: `memo ??=`   *)
(* and `finally { memo = null }`.                                          *)
THEOREM LookupIsShared == Spec => []OneLookup
<1>1. IInv => OneLookup
  <2> SUFFICES ASSUME IInv, NEW l PROVE
                 l \in {m \in Writes : Runs(m)} <=> l \in {memo} \ {NoLookup}
    BY DEF OneLookup, Runs
  <2>1. QED
    BY CallsAssumption DEF IInv, TypeOK, StoreTypeOK, LookupInv
<1>2. QED
  BY <1>1, Invariant, PTL

(* Existence is never remembered from an index the store was told is gone: *)
(* what `generation` is for.                                               *)
THEOREM GoneIsForgotten == Spec => []NeverRemembersGone
<1>1. IInv => NeverRemembersGone
  BY DEF IInv, MemoryInv
<1>2. QED
  BY <1>1, Invariant, PTL

(* An index that differs from the store's configuration is never           *)
(* remembered, raced or not.                                               *)
THEOREM OnlyAgreeingRemembered == Spec => []RememberedAgrees
<1>1. IInv => RememberedAgrees
  BY DEF IInv, MemoryInv
<1>2. QED
  BY <1>1, Invariant, PTL

(* The lifecycle implements the existence memory: every step that changes  *)
(* what is remembered learns an index not known to be gone, or forgets.    *)
THEOREM MemoryImplemented == Spec => ImplementsMemory
<1> USE DEF Memory!Learn, Memory!Forget, Memory!memory, Memory!Init
<1>1. Init => Memory!Init
  BY DEF Init
<1>2. IInv /\ IInv' /\ [Next]_vars => [Memory!Learn \/ Memory!Forget]_Memory!memory
  <2> SUFFICES ASSUME IInv, IInv', [Next]_vars
               PROVE  [Memory!Learn \/ Memory!Forget]_Memory!memory
    OBVIOUS
  <2> USE DEF IInv, TypeOK, StoreTypeOK, CallTypeOK
  <2>1. ASSUME NEW l \in Writes, LookupStep(l) \/ LookupFails(l)
        PROVE  [Memory!Learn \/ Memory!Forget]_Memory!memory
    <3>1. /\ toldGone' = toldGone
          /\ \/ knownToExist' = TRUE
             \/ UNCHANGED <<knownToExist, seen>>
      BY <2>1 DEF LookupStep, Described, Created, Winner, LookupFails, Remembers, Rejects,
                  ResolvesUnremembered, Proceeds
    <3>2. QED
      BY <3>1 DEF MemoryInv, NeverRemembersGone
  <2>2. ASSUME NEW c \in Calls, DataAnswered(c) \/ DeleteAnswered(c) \/ BucketAnswered(c)
        PROVE  [Memory!Learn \/ Memory!Forget]_Memory!memory
    <3>1. /\ seen' = seen
          /\ \/ knownToExist' = FALSE /\ toldGone' \in Nat /\ toldGone' >= toldGone
             \/ UNCHANGED <<knownToExist, toldGone>>
      BY <2>2 DEF DataAnswered, DeleteAnswered, BucketAnswered, Forget, IsTold, Larger
    <3>2. QED
      BY <3>1
  <2>3. CASE UNCHANGED <<knownToExist, seen, toldGone>>
    BY <2>3
  <2>4. QED
    BY <2>1, <2>2, <2>3
       DEF Next, vars, storeVars, history, WriteStep, ReadStep, DeleteStep, LookupRequest,
           Request, DeleteRequest, Outside, Calls, BeginWrite, ResumeWrite, BeginRead,
           ServiceDescribes, ServiceCreates, LookupAnswerLost, ServiceServes, RequestFails,
           BeginDelete, ResumeDelete, ServiceDeletes, Fire, Abort, AnswerLost, OtherCreates,
           OtherDeletes, OtherChangesBucket
<1>3. QED
  BY <1>1, <1>2, Invariant, PTL DEF Spec, ImplementsMemory, Memory!Spec

-----------------------------------------------------------------------------
(* deleteIndex behind the lookup in flight *)

LEMMA AwaitKept == ASSUME IInv, AwaitInv, CallsAssumption, [Next]_vars PROVE AwaitInv'
<1> USE DEF IInv, TypeOK, StoreTypeOK, CallTypeOK, Calls
<1>1. ASSUME NEW w \in Writes, BeginWrite(w) PROVE AwaitInv'
  <2>1. /\ \A c \in Calls \ {w} : pc'[c] = pc[c] /\ waitsOn'[c] = waitsOn[c]
        /\ pc'[w] \in {"sent", "waiting"} /\ \A m \in Writes \ {w} : lookup'[m] = lookup[m]
    BY <1>1 DEF BeginWrite, StartsLookup, JoinsLookup, Goes
  <2>2. pc[w] = "idle" /\ lookup[w].phase = "unused"
    BY <1>1 DEF BeginWrite, AwaitInv
  <2>3. QED
    BY <2>1, <2>2 DEF AwaitInv, Runs
<1>2. ASSUME NEW l \in Writes, LookupStep(l) \/ LookupFails(l) \/ ServiceDescribes(l)
                               \/ ServiceCreates(l) \/ LookupAnswerLost(l)
      PROVE  AwaitInv'
  <2>1. UNCHANGED <<pc, waitsOn>> /\ \A m \in Writes \ {l} : lookup'[m] = lookup[m]
    BY <1>2 DEF LookupStep, Described, Created, Winner, LookupFails, ServiceDescribes,
                ServiceCreates, LookupAnswerLost, Reply, Remembers, Rejects,
                ResolvesUnremembered, Proceeds, Ends, callVars
  <2>2. \/ Runs(l) /\ lookup'[l].phase # "unused"
        \/ lookup'[l].phase = lookup[l].phase
    <3> DEFINE End(how) == [phase |-> how, startedAt |-> 0, reply |-> "none", incarnation |-> 0]
    <3>1. CASE LookupStep(l) \/ LookupFails(l)
      <4>1. /\ Runs(l)
            /\ \/ \E how \in {"resolved", "rejected"} :
                    lookup' = [lookup EXCEPT ![l] = End(how)]
               \/ \E phase \in Running :
                    lookup' = [lookup EXCEPT ![l].phase = phase, ![l].reply = "none"]
        BY <3>1 DEF LookupStep, Described, Created, Winner, Answered, LookupFails, Remembers,
                    Rejects, ResolvesUnremembered, Proceeds, Ends, Runs, Running
      <4>2. QED
        BY <4>1 DEF Running, Lookups
    <3>2. CASE ServiceDescribes(l) \/ ServiceCreates(l) \/ LookupAnswerLost(l)
      <4>1. \E reply, n : Reply(l, reply, n)
        BY <3>2 DEF ServiceDescribes, ServiceCreates, LookupAnswerLost
      <4>2. QED
        BY <4>1 DEF Reply, Lookups
    <3>3. QED
      BY <1>2, <3>1, <3>2
  <2>3. lookup[l].phase = "unused" => ~Runs(l)
    BY DEF Runs, Running
  <2>4. QED
    BY <2>1, <2>2, <2>3 DEF AwaitInv, Runs
<1>3. ASSUME NEW d \in Deletes, BeginDelete(d) PROVE AwaitInv'
  <2>1. /\ lookup' = lookup /\ pc[d] = "idle" /\ waitsOn'[d] = memo
        /\ \A c \in Calls \ {d} : pc'[c] = pc[c] /\ waitsOn'[c] = waitsOn[c]
        /\ pc'[d] = IF memo = NoLookup THEN "sent" ELSE "waiting"
    BY <1>3 DEF BeginDelete, SendsDelete, Goes
  <2>2. memo # NoLookup => memo \in Writes /\ lookup[memo].phase # "unused"
    BY DEF LookupInv, Runs, Running
  <2>3. QED
    BY <2>1, <2>2 DEF AwaitInv, Runs, PastWait
<1>4. ASSUME NEW d \in Deletes, ResumeDelete(d) PROVE AwaitInv'
  <2>1. /\ UNCHANGED <<lookup, waitsOn>> /\ ~Runs(waitsOn[d]) /\ pc'[d] = "sent"
        /\ \A c \in Calls \ {d} : pc'[c] = pc[c]
    BY <1>4 DEF ResumeDelete, SendsDelete, Goes, Runs
  <2>2. QED
    BY <2>1 DEF AwaitInv, Runs
<1>5. ASSUME NEW c \in Calls, UNCHANGED <<lookup, waitsOn>>,
             \A b \in Calls \ {c} : pc'[b] = pc[b], pc'[c] # "idle",
             c \in Deletes => pc[c] \in PastWait \/ pc'[c] \notin PastWait
      PROVE  AwaitInv'
  BY <1>5 DEF AwaitInv, Runs
<1>6. ASSUME NEW c \in Writes \cup Reads,
             ResumeWrite(c) \/ DataAnswered(c) \/ BeginRead(c) \/ ServiceServes(c)
               \/ RequestFails(c) \/ Abort(c) \/ AnswerLost(c)
      PROVE  AwaitInv'
  <2>1. UNCHANGED <<lookup, waitsOn>> /\ \E to \in Places \ {"idle"} : Goes(c, to)
    BY <1>6 DEF ResumeWrite, DataAnswered, BeginRead, ServiceServes, RequestFails, Abort,
                AnswerLost, storeVars, Places, Settled
  <2>2. c \notin Deletes
    BY CallsAssumption
  <2>3. QED
    BY <1>5, <2>1, <2>2 DEF Goes
<1>7. ASSUME NEW d \in Deletes,
             DeleteAnswered(d) \/ BucketAnswered(d) \/ ServiceDeletes(d)
               \/ RequestFails(d) \/ Abort(d) \/ AnswerLost(d)
      PROVE  AwaitInv'
  <2>1. /\ UNCHANGED <<lookup, waitsOn>>
        /\ \/ pc[d] \in PastWait /\ \E to \in Places \ {"idle"} : Goes(d, to)
           \/ Goes(d, "aborted")
    BY <1>7 DEF DeleteAnswered, BucketAnswered, ServiceDeletes, RequestFails, Abort,
                AnswerLost, storeVars, Places, Settled, PastWait
  <2>2. QED
    BY <1>5, <2>1 DEF Goes, PastWait
<1>8. CASE UNCHANGED <<pc, waitsOn, lookup>>
  BY <1>8 DEF AwaitInv, Runs
<1>9. ASSUME NEW c \in Calls, Abort(c) \/ AnswerLost(c) PROVE AwaitInv'
  BY <1>6, <1>7, <1>9
<1>10. QED
  BY <1>1, <1>2, <1>3, <1>4, <1>6, <1>7, <1>8, <1>9
     DEF Next, vars, storeVars, callVars, WriteStep, ReadStep, DeleteStep, LookupRequest,
         Request, DeleteRequest, Outside, Fire, OtherCreates, OtherDeletes,
         OtherChangesBucket

(* No creation that started before a deleteIndex lands after its           *)
(* DeleteIndex was sent.                                                   *)
THEOREM NothingResurrected == Spec => NoResurrection
<1>1. Init => AwaitInv
  BY CallsAssumption DEF Init, AwaitInv, Calls
<1>2. IInv /\ AwaitInv /\ [Next]_vars => AwaitInv'
  BY AwaitKept, CallsAssumption
<1>3. ASSUME IInv, AwaitInv, [Next]_vars,
             NEW l \in Writes, NEW d \in Deletes, Builds(l), waitsOn[d] = l
      PROVE  pc[d] \notin PastWait
  <2>1. Runs(l)
    <3> USE DEF IInv, TypeOK, StoreTypeOK, Lookups
    <3>1. ASSUME NEW m \in Writes, LookupStep(m) \/ LookupFails(m)
          PROVE  lookup'[l].reply \in {"none", lookup[l].reply}
      BY <1>3, <3>1 DEF LookupStep, Described, Created, Winner, LookupFails, Remembers, Rejects,
                  ResolvesUnremembered, Proceeds, Ends
    <3>2. ASSUME NEW m \in Writes, BeginWrite(m)
          PROVE  lookup'[l].reply \in {"none", lookup[l].reply}
      BY <1>3, <3>2 DEF BeginWrite, StartsLookup, JoinsLookup
    <3>3. ASSUME NEW m \in Writes, ServiceDescribes(m) \/ LookupAnswerLost(m)
          PROVE  lookup'[l].reply \in {"none", "found", "absent", lookup[l].reply}
      BY <1>3, <3>3 DEF ServiceDescribes, LookupAnswerLost, Reply
    <3>4. ASSUME NEW m \in Writes, ServiceCreates(m), m # l
          PROVE  lookup'[l].reply = lookup[l].reply
      BY <1>3, <3>4 DEF ServiceCreates, Reply
    <3>5. lookup' # lookup /\ lookup'[l].reply = "created" /\ lookup[l].reply # "created"
      BY <1>3 DEF Builds
    <3>6. ServiceCreates(l)
      BY <1>3, <3>1, <3>2, <3>3, <3>4, <3>5
         DEF Next, vars, storeVars, callVars, WriteStep, ReadStep, DeleteStep, LookupRequest,
             Request, DeleteRequest, Outside, ResumeWrite, BeginRead, DataAnswered,
             ServiceServes, RequestFails, BeginDelete, ResumeDelete, DeleteAnswered,
             BucketAnswered, ServiceDeletes, Fire, Abort, AnswerLost, OtherCreates,
             OtherDeletes, OtherChangesBucket
    <3>7. QED
      BY <3>6 DEF ServiceCreates, Answered, Runs, Running
  <2>2. QED
    BY <1>3, <2>1, CallsAssumption DEF AwaitInv
<1>4. IInv /\ AwaitInv /\ [Next]_vars =>
        [\A l \in Writes, d \in Deletes :
           Builds(l) /\ waitsOn[d] = l
             => pc[d] \notin {"sent", "ok", "missing", "asking", "done"}]_vars
  BY <1>3 DEF PastWait
<1>5. QED
  BY <1>1, <1>2, <1>4, Invariant, PTL DEF Spec, NoResurrection

=============================================================================
