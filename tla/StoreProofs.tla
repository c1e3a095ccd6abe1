---------------------------- MODULE StoreProofs ----------------------------
(***************************************************************************)
(* Store for every finite set of calls, every number of requests and every *)
(* width of the window: its type invariant, the line that the calls share, *)
(* the window of each call, and which writes can still fail on an index    *)
(* that a call has reported missing.                                       *)
(***************************************************************************)
EXTENDS StoreReports, SequenceTheorems, FiniteSetTheorems, TLAPS

Stages == [Batches -> {"new", "ensuring", "line", "sent", "ok", "failed"}]

TypeOK ==
  /\ known \in BOOLEAN /\ stale \in BOOLEAN
  /\ lookup \in {"none", "describe", "create", "recheck", "found", "gone", "failed"}
  /\ line \in Seq(Calls \X Batches)
  /\ kind \in [Calls -> {"none", "write", "delete", "read"}]
  /\ stage \in [Calls -> Stages]
  /\ failure \in [Calls -> {"none", "NOT_FOUND", "OTHER"}]
  /\ fired \in [Calls -> BOOLEAN]
  /\ exists \in BOOLEAN

ReportTypes ==
  /\ told \in BOOLEAN /\ sighted \in BOOLEAN
  /\ since \in SUBSET Calls /\ joined \in SUBSET Calls

(* A call that is not being made has left nothing behind.                  *)
UnmadeInv == \A c \in Calls : kind[c] = "none" => stage[c] = Unmade /\ failure[c] = "none"

(* What was told gone, and is, is remembered by nobody, and by no lookup   *)
(* that would say it is there.                                             *)
MemoryInv == told => ~exists /\ ~known /\ (lookup = "found" => stale)

(* A lookup that gets as far after the report has met the index, and the   *)
(* report counts for nothing then; one that got as far before it is the    *)
(* one sighted stands for.                                                 *)
SightInv ==
  /\ sighted => Sighting \/ lookup = "failed"
  /\ told /\ Sighting => sighted

(* A write that is not misled: none of its requests has gone past the      *)
(* lookup, and it waits for no lookup from before.                         *)
Sound(c) ==
  /\ \A b \in Batches : stage[c][b] \notin {"line", "sent", "ok"}
  /\ stage[c][1] = "ensuring" => ~sighted
  /\ failure[c] # "NOT_FOUND"

SinceInv ==
  /\ since # {} => told
  /\ \A c \in since : kind[c] = "write"
  /\ \A c \in since \ joined : Sound(c)

RecoveryInv == UnmadeInv /\ MemoryInv /\ SightInv /\ SinceInv

Places == 1..Len(line)

(* The line holds the requests that wait in it, each once, and no ghost of *)
(* an aborted one: whoever is at its front can be let through.             *)
LineExact ==
  /\ \A i \in Places : stage[line[i][1]][line[i][2]] = "line"
  /\ \A i, j \in Places : i # j => line[i] # line[j]
  /\ \A c \in Calls, b \in Batches : stage[c][b] = "line" => \E i \in Places : line[i] = <<c, b>>

(* Only a first request waits for a lookup, and there is one to wait for.  *)
NobodyStranded ==
  \A c \in Calls, b \in Batches : stage[c][b] = "ensuring" => b = 1 /\ lookup # "none"

(* A call never has more requests under way than its window holds.         *)
WindowHeld == \A c \in Calls : Cardinality(UnderWay(c)) <= MaxConcurrent
-----------------------------------------------------------------------------
(* Sequences of the requests that wait *)

LEMMA BatchesAreFinite ==
  /\ 1 \in Batches /\ Batches \subseteq Nat
  /\ \A S \in SUBSET Batches : IsFiniteSet(S) /\ Cardinality(S) \in Nat
<1>1. IsFiniteSet(Batches)
  BY StoreAssumption, FS_Interval DEF Batches
<1>2. \A S \in SUBSET Batches : IsFiniteSet(S)
  BY <1>1, FS_Subset
<1>3. QED
  BY <1>2, StoreAssumption, FS_CardinalityType DEF Batches

(* The requests that waited for a lookup go to the line together, each     *)
(* once.                                                                   *)
LEMMA Arrivals ==
  ASSUME NEW S \in SUBSET (Calls \X Batches), NEW s \in SetToSeqs(S)
  PROVE  /\ s \in Seq(Calls \X Batches)
         /\ \A i \in 1..Len(s) : s[i] \in S
         /\ \A i, j \in 1..Len(s) : i # j => s[i] # s[j]
         /\ \A request \in S : \E i \in 1..Len(s) : s[i] = request
<1>1. IsFiniteSet(S) /\ Cardinality(S) \in Nat
  <2>1. IsFiniteSet(Batches)
    BY StoreAssumption, FS_Interval DEF Batches
  <2>2. IsFiniteSet(Calls \X Batches)
    BY <2>1, StoreAssumption, FS_Product
  <2>3. QED
    BY <2>2, FS_Subset, FS_CardinalityType
<1> DEFINE n == Cardinality(S)
<1>2. /\ s \in [1..n -> S]
      /\ \A i, j \in 1..n : i # j => s[i] # s[j]
  BY DEF SetToSeqs
<1>3. s \in Seq(Calls \X Batches) /\ Len(s) = n
  BY <1>1, <1>2
<1>4. s \in Injection(1..n, S)
  BY <1>2 DEF Injection, IsInjective
<1>5. IsFiniteSet(1..n) /\ Cardinality(1..n) = n
  BY <1>1, FS_Interval
<1>6. s \in Surjection(1..n, S)
  BY <1>1, <1>4, <1>5, FS_Injection
<1>7. QED
  BY <1>2, <1>3, <1>6 DEF Surjection

LEMMA LeavesOne ==
  ASSUME NEW T, NEW s \in Seq(T), NEW i \in 1..Len(s)
  PROVE  /\ RemoveAt(s, i) \in Seq(T) /\ Len(RemoveAt(s, i)) = Len(s) - 1
         /\ \A j \in 1..(Len(s) - 1) : RemoveAt(s, i)[j] = IF j < i THEN s[j] ELSE s[j + 1]
<1> DEFINE before == SubSeq(s, 1, i - 1)
           after == SubSeq(s, i + 1, Len(s))
<1>1. before \in Seq(T) /\ Len(before) = i - 1 /\ \A j \in 1..(i - 1) : before[j] = s[j]
  BY SubSeqProperties
<1>2. /\ after \in Seq(T) /\ Len(after) = Len(s) - i
      /\ \A j \in 1..(Len(s) - i) : after[j] = s[j + i]
  BY SubSeqProperties
<1> HIDE DEF before, after
<1>3. RemoveAt(s, i) = before \o after
  BY DEF RemoveAt, before, after
<1>4. Len(before) + Len(after) = Len(s) - 1 /\ Len(s) \in Nat
  BY <1>1, <1>2, LenProperties
<1>5. /\ before \o after \in Seq(T) /\ Len(before \o after) = Len(before) + Len(after)
      /\ \A j \in 1..(Len(before) + Len(after)) :
           (before \o after)[j] = IF j <= Len(before) THEN before[j] ELSE after[j - Len(before)]
  BY <1>1, <1>2, ConcatProperties
<1>6. QED
  BY <1>1, <1>2, <1>3, <1>4, <1>5

-----------------------------------------------------------------------------
(* Types *)

(* One request moves to another stage.                                     *)
LEMMA Moves ==
  ASSUME TypeOK, NEW c \in Calls, NEW b \in Batches,
         NEW to \in {"new", "ensuring", "line", "sent", "ok", "failed"}, Becomes(c, b, to)
  PROVE  /\ stage' \in [Calls -> Stages]
         /\ stage'[c][b] = to
         /\ \A a \in Batches \ {b} : stage'[c][a] = stage[c][a]
         /\ \A d \in Calls \ {c} : stage'[d] = stage[d]
BY DEF TypeOK, Stages, Becomes

LEMMA InitTypes == Init => TypeOK
<1> SUFFICES ASSUME Init PROVE TypeOK
  OBVIOUS
<1>1. <<>> \in Seq(Calls \X Batches)
  OBVIOUS
<1>2. /\ stage \in [Calls -> Stages]
      /\ kind \in [Calls -> {"none", "write", "delete", "read"}]
      /\ failure \in [Calls -> {"none", "NOT_FOUND", "OTHER"}] /\ fired \in [Calls -> BOOLEAN]
  BY DEF Init, Unmade, Stages
<1>3. QED
  BY <1>1, <1>2 DEF Init, TypeOK

LEMMA TypeStep == TypeOK /\ [Next]_vars => TypeOK'
<1> SUFFICES ASSUME TypeOK, [Next]_vars PROVE TypeOK'
  OBVIOUS
<1> USE DEF TypeOK, memory, calls
<1>1. ASSUME NEW c \in Calls, Begin(c) \/ Fire(c) PROVE TypeOK'
  BY <1>1 DEF Begin, Fire
<1>2. ASSUME NEW c \in Calls, NEW b \in Batches, Launch(c, b) PROVE TypeOK'
  <2>1. Append(line, <<c, b>>) \in Seq(Calls \X Batches)
    BY AppendProperties
  <2>2. stage' \in [Calls -> Stages]
    <3>1. \E to \in {"sent", "ensuring", "line"} : Becomes(c, b, to)
      BY <1>2 DEF Launch
    <3>2. QED
      BY <3>1, Moves
  <2>3. /\ known' = known /\ lookup' \in {lookup, "describe"} /\ stale' \in {stale, FALSE}
        /\ line' \in {line, Append(line, <<c, b>>)}
        /\ UNCHANGED <<kind, failure, fired, exists>>
    BY <1>2 DEF Launch, Becomes
  <2>4. QED
    BY <2>1, <2>2, <2>3
<1>3. ASSUME NEW c \in Calls, NEW b \in Batches, Answered(c, b) PROVE TypeOK'
  <2>1. /\ \E to \in {"ok", "failed"} : Becomes(c, b, to)
        /\ failure' \in [Calls -> {"none", "NOT_FOUND", "OTHER"}]
        /\ UNCHANGED <<memory, line, kind, fired, exists>>
    BY <1>3 DEF Answered, FailsWith
  <2>2. QED
    BY <2>1, Moves
<1>4. ASSUME NEW c \in Calls, NEW b \in Batches, Abort(c, b) PROVE TypeOK'
  <2>1. line' \in Seq(Calls \X Batches)
    BY <1>4, LeavesOne DEF Abort, LeaveLine
  <2>2. stage' \in [Calls -> Stages]
    BY <1>4, Moves DEF Abort, FailsWith
  <2>3. QED
    BY <1>4, <2>1, <2>2 DEF Abort, FailsWith
<1>5. ASSUME NEW c \in Calls, Settle(c) PROVE TypeOK'
  BY <1>5 DEF Settle, MarkAbsent, Unmade, Stages
<1>6. CASE LookupServed
  BY <1>6 DEF LookupServed
<1>7. CASE LookupArrives
  <2>1. line' \in Seq(Calls \X Batches)
    <3>1. CASE lookup = "failed"
      BY <1>7, <3>1 DEF LookupArrives
    <3>2. CASE lookup # "failed"
      <4>1. PICK s \in SetToSeqs({<<c, 1>> : c \in Ensuring}) : line' = line \o s
        BY <1>7, <3>2 DEF LookupArrives
      <4>2. {<<c, 1>> : c \in Ensuring} \in SUBSET (Calls \X Batches)
        BY BatchesAreFinite DEF Ensuring
      <4>3. QED
        BY <4>1, <4>2, Arrivals, ConcatProperties
    <3>3. QED
      BY <3>1, <3>2
  <2>2. stage' \in [Calls -> Stages]
    <3>1. /\ \A c \in Calls : [stage[c] EXCEPT ![1] = "failed"] \in Stages
          /\ \A c \in Calls : [stage[c] EXCEPT ![1] = "line"] \in Stages
      BY DEF Stages
    <3>2. QED
      BY <1>7, <3>1 DEF LookupArrives
  <2>3. /\ known' \in BOOLEAN /\ lookup' = "none" /\ stale' = FALSE
        /\ failure' \in [Calls -> {"none", "NOT_FOUND", "OTHER"}]
        /\ UNCHANGED <<kind, fired, exists>>
    BY <1>7 DEF LookupArrives
  <2>4. QED
    BY <2>1, <2>2, <2>3
<1>8. CASE Admit
  <2>1. Tail(line) \in Seq(Calls \X Batches)
    BY <1>8, HeadTailProperties DEF Admit
  <2>2. stage' \in [Calls -> Stages]
    <3>1. Head(line) \in Calls \X Batches
      BY <1>8, HeadTailProperties DEF Admit
    <3>2. QED
      BY <1>8, <3>1, Moves DEF Admit
  <2>3. line' = Tail(line) /\ UNCHANGED <<memory, kind, failure, fired, exists>>
    BY <1>8 DEF Admit
  <2>4. QED
    BY <2>1, <2>2, <2>3
<1>9. CASE OthersDelete \/ OthersCreate \/ UNCHANGED vars
  BY <1>9 DEF OthersDelete, OthersCreate, vars
<1>10. QED
  BY <1>1, <1>2, <1>3, <1>4, <1>5, <1>6, <1>7, <1>8, <1>9 DEF Next, CallStep, Lookup

(* Every variable keeps its type.                                          *)
THEOREM TypeCorrect == Spec => []TypeOK
BY InitTypes, TypeStep, PTL DEF Spec

-----------------------------------------------------------------------------
(* The line and the lookup that calls share *)

LEMMA InLine ==
  ASSUME TypeOK, NEW i \in Places
  PROVE  line[i][1] \in Calls /\ line[i][2] \in Batches /\ line[i] = <<line[i][1], line[i][2]>>
<1>1. line[i] \in Calls \X Batches
  BY ElementOfSeq DEF TypeOK, Places
<1>2. QED
  BY <1>1

(* A step that moves nothing into the line or out of it.                   *)
LEMMA LineKept ==
  ASSUME TypeOK, LineExact, line' = line,
         \A c \in Calls, b \in Batches : stage'[c][b] = "line" <=> stage[c][b] = "line"
  PROVE  LineExact'
BY InLine DEF LineExact, Places

(* A step that takes the request at one place out of the line.             *)
LEMMA LineShortened ==
  ASSUME TypeOK, LineExact, NEW n \in Places, Becomes(line[n][1], line[n][2], "sent")
                                    \/ Becomes(line[n][1], line[n][2], "failed"),
         line' \in Seq(Calls \X Batches), Len(line') = Len(line) - 1,
         \A j \in 1..(Len(line) - 1) : line'[j] = IF j < n THEN line[j] ELSE line[j + 1]
  PROVE  LineExact'
<1> DEFINE from(j) == IF j < n THEN j ELSE j + 1
<1>1. /\ Len(line) \in Nat /\ n \in 1..Len(line) /\ Places' = 1..(Len(line) - 1)
      /\ \A j \in Places' : from(j) \in Places /\ from(j) # n /\ line'[j] = line[from(j)]
      /\ \A i, j \in Places' : i # j => from(i) # from(j)
      /\ \A i \in Places \ {n} : \E j \in Places' : from(j) = i
  <2>1. Len(line) \in Nat /\ Places = 1..Len(line) /\ Places' = 1..(Len(line) - 1)
    BY LenProperties DEF TypeOK, Places
  <2>2. \A i \in Places \ {n} : \E j \in Places' : from(j) = i
    <3> TAKE i \in Places \ {n}
    <3>1. CASE i < n
      <4>1. i \in Places' /\ from(i) = i
        BY <2>1, <3>1
      <4>2. QED
        BY <4>1
    <3>2. CASE i > n
      <4>1. i - 1 \in Places' /\ from(i - 1) = i
        BY <2>1, <3>2
      <4>2. QED
        BY <4>1
    <3>3. QED
      BY <2>1, <3>1, <3>2
  <2>3. QED
    BY <2>1, <2>2
<1>2. \A i \in Places : line[i] \in Calls \X Batches
  BY ElementOfSeq DEF TypeOK, Places
<1>3. \A c \in Calls, b \in Batches :
        stage'[c][b] = "line" <=> stage[c][b] = "line" /\ <<c, b>> # line[n]
  BY <1>2, InLine, Moves
<1> HIDE DEF from
<1>4. \A i, j \in Places' : i # j => line'[i] # line'[j]
  <2> TAKE i, j \in Places'
  <2> HAVE i # j
  <2>1. from(i) \in Places /\ from(j) \in Places /\ from(i) # from(j)
    BY <1>1
  <2>2. line[from(i)] # line[from(j)]
    BY <2>1 DEF LineExact
  <2>3. QED
    BY <1>1, <2>2
<1>5. \A j \in Places' : stage'[line'[j][1]][line'[j][2]] = "line"
  <2> TAKE j \in Places'
  <2>1. from(j) \in Places /\ from(j) # n /\ line'[j] = line[from(j)]
    BY <1>1
  <2>2. stage[line'[j][1]][line'[j][2]] = "line" /\ line'[j] # line[n]
    BY <2>1 DEF LineExact
  <2>3. QED
    BY <1>3, <2>1, <2>2, InLine
<1>6. ASSUME NEW c \in Calls, NEW b \in Batches, stage'[c][b] = "line"
      PROVE \E j \in Places' : line'[j] = <<c, b>>
  <2>1. stage[c][b] = "line" /\ <<c, b>> # line[n]
    BY <1>3, <1>6
  <2>2. PICK i \in Places : line[i] = <<c, b>>
    BY <2>1 DEF LineExact
  <2>3. PICK j \in Places' : from(j) = i
    BY <1>1, <2>1, <2>2
  <2>4. QED
    BY <1>1, <2>2, <2>3
<1>7. QED
  BY <1>4, <1>5, <1>6 DEF LineExact

LEMMA LineStep == TypeOK /\ LineExact /\ NobodyStranded /\ [Next]_vars => LineExact'
<1> SUFFICES ASSUME TypeOK, LineExact, NobodyStranded, [Next]_vars PROVE LineExact'
  OBVIOUS
<1> USE DEF memory, calls
<1>1. ASSUME NEW c \in Calls, NEW b \in Batches, Launch(c, b) PROVE LineExact'
  <2>1. stage[c][b] = "new"
    BY <1>1 DEF Launch, NextBatch, Unlaunched
  <2>2. CASE line' = line /\ \E to \in {"sent", "ensuring"} : Becomes(c, b, to)
    BY <2>1, <2>2, Moves, LineKept
  <2>3. CASE line' = Append(line, <<c, b>>) /\ Becomes(c, b, "line")
    <3>1. /\ Len(line) \in Nat /\ Len(line') = Len(line) + 1
          /\ line'[Len(line) + 1] = <<c, b>> /\ \A i \in Places : line'[i] = line[i]
      BY <2>3, AppendProperties, LenProperties DEF TypeOK, Places
    <3>2. \A i \in Places : line[i] # <<c, b>>
      BY <2>1, InLine DEF LineExact
    <3>3. /\ \A d \in Calls, a \in Batches :
               stage'[d][a] = "line" <=> stage[d][a] = "line" \/ <<d, a>> = <<c, b>>
      BY <2>3, Moves
    <3>4. Places' = Places \cup {Len(line) + 1} /\ Len(line) + 1 \notin Places
      BY <3>1 DEF Places
    <3>5. \A i \in Places' : stage'[line'[i][1]][line'[i][2]] = "line"
      BY <3>1, <3>3, <3>4, InLine DEF LineExact
    <3>6. \A i, j \in Places' : i # j => line'[i] # line'[j]
      BY <3>1, <3>2, <3>4 DEF LineExact
    <3>7. \A d \in Calls, a \in Batches :
             stage'[d][a] = "line" => \E i \in Places' : line'[i] = <<d, a>>
      <4> TAKE d \in Calls, a \in Batches
      <4>1. stage[d][a] = "line" => \E i \in Places : line[i] = <<d, a>>
        BY DEF LineExact
      <4>2. stage[d][a] = "line" => \E i \in Places' : line'[i] = <<d, a>>
        BY <3>1, <3>4, <4>1
      <4>3. Len(line) + 1 \in Places' /\ line'[Len(line) + 1] = <<c, b>>
        BY <3>1, <3>4
      <4>4. <<d, a>> = <<c, b>> => \E i \in Places' : line'[i] = <<d, a>>
        BY <4>3
      <4>5. QED
        BY <3>3, <4>2, <4>4
    <3>8. QED
      BY <3>5, <3>6, <3>7 DEF LineExact
  <2>4. QED
    BY <1>1, <2>2, <2>3 DEF Launch
<1>2. ASSUME NEW c \in Calls, NEW b \in Batches, Answered(c, b) PROVE LineExact'
  <2>1. stage[c][b] = "sent" /\ line' = line /\ \E to \in {"ok", "failed"} : Becomes(c, b, to)
    BY <1>2 DEF Answered, FailsWith
  <2>2. QED
    BY <2>1, Moves, LineKept
<1>3. ASSUME NEW c \in Calls, NEW b \in Batches, Abort(c, b) PROVE LineExact'
  <2>1. Becomes(c, b, "failed")
    BY <1>3 DEF Abort, FailsWith
  <2>2. CASE stage[c][b] # "line" /\ line' = line
    BY <2>1, <2>2, Moves, LineKept
  <2>3. CASE \E i \in DOMAIN line : line[i] = <<c, b>> /\ line' = RemoveAt(line, i)
    <3>1. PICK i \in Places : line[i] = <<c, b>> /\ line' = RemoveAt(line, i)
      BY <2>3 DEF TypeOK, Places
    <3>2. Becomes(line[i][1], line[i][2], "failed")
      BY <2>1, <3>1
    <3>3. QED
      BY <3>1, <3>2, LeavesOne, LineShortened DEF TypeOK, Places
  <2>4. QED
    BY <1>3, <2>2, <2>3 DEF Abort, LeaveLine
<1>4. CASE Admit
  <2>1. /\ line # <<>> /\ line' = Tail(line) /\ 1 \in Places /\ Head(line) = line[1]
        /\ Becomes(line[1][1], line[1][2], "sent")
    BY <1>4, LenProperties, EmptySeq DEF Admit, TypeOK, Places
  <2>2. QED
    BY <2>1, HeadTailProperties, LineShortened DEF TypeOK, Places
<1>5. ASSUME NEW c \in Calls, Settle(c) PROVE LineExact'
  <2>1. \A b \in Batches : stage[c][b] # "line" /\ stage'[c][b] = "new"
    BY <1>5 DEF Settle, UnderWay, TypeOK, Unmade
  <2>2. line' = line /\ \A d \in Calls \ {c} : stage'[d] = stage[d]
    BY <1>5 DEF Settle, TypeOK
  <2>3. QED
    BY <2>1, <2>2, LineKept
<1>6. CASE LookupArrives
  <2>1. CASE lookup = "failed"
    <3>1. /\ line' = line
          /\ \A c \in Calls, b \in Batches :
               stage'[c][b] = stage[c][b] \/ (b = 1 /\ c \in Ensuring /\ stage'[c][b] = "failed")
      BY <1>6, <2>1 DEF LookupArrives, TypeOK, Stages
    <3>2. \A c \in Ensuring : stage[c][1] = "ensuring"
      BY DEF Ensuring, NobodyStranded
    <3>3. QED
      BY <3>1, <3>2, LineKept
  <2>2. CASE lookup # "failed"
    <3> DEFINE S == {<<c, 1>> : c \in Ensuring}
               n == Len(line)
    <3>1. PICK s \in SetToSeqs(S) : line' = line \o s
      BY <1>6, <2>2 DEF LookupArrives
    <3>2. /\ S \in SUBSET (Calls \X Batches)
          /\ \A c \in Calls, b \in Batches : <<c, b>> \in S <=> b = 1 /\ c \in Ensuring
          /\ \A c \in Ensuring : stage[c][1] = "ensuring"
      <4>1. \A c \in Ensuring : c \in Calls /\ stage[c][1] = "ensuring"
        BY DEF Ensuring, NobodyStranded
      <4>2. 1 \in Batches
        BY BatchesAreFinite
      <4>3. S \in SUBSET (Calls \X Batches)
        BY <4>1, <4>2
      <4>4. \A c \in Calls, b \in Batches : <<c, b>> \in S <=> b = 1 /\ c \in Ensuring
        OBVIOUS
      <4>5. QED
        BY <4>1, <4>3, <4>4
    <3>3. \A c \in Calls, b \in Batches :
            stage'[c][b] = "line" <=> stage[c][b] = "line" \/ <<c, b>> \in S
      BY <1>6, <2>2, <3>2, BatchesAreFinite DEF LookupArrives, TypeOK, Stages
    <3>4. /\ s \in Seq(Calls \X Batches)
          /\ \A i \in 1..Len(s) : s[i] \in S
          /\ \A i, j \in 1..Len(s) : i # j => s[i] # s[j]
          /\ \A request \in S : \E i \in 1..Len(s) : s[i] = request
      <4> HIDE DEF S, n
      <4>1. S \in SUBSET (Calls \X Batches) /\ s \in SetToSeqs(S)
        BY <3>1, <3>2
      <4>2. QED
        BY <4>1, Arrivals
    <3>5. /\ n \in Nat /\ Len(s) \in Nat /\ Places = 1..n /\ Places' = 1..(n + Len(s))
          /\ \A i \in Places' : line'[i] = IF i <= n THEN line[i] ELSE s[i - n]
      BY <3>1, <3>4, ConcatProperties, LenProperties DEF TypeOK, Places
    <3> HIDE DEF S, n
    <3>6. \A i \in Places : line[i] \notin S
      BY <3>2, InLine DEF LineExact
    <3>7. \A i \in Places' :
            \/ i \in Places /\ line'[i] = line[i]
            \/ i - n \in 1..Len(s) /\ line'[i] = s[i - n] /\ i \notin Places
      BY <3>5
    <3>8. \A i \in Places' : stage'[line'[i][1]][line'[i][2]] = "line"
      <4> TAKE i \in Places'
      <4>1. CASE i \in Places /\ line'[i] = line[i]
        <5>1. stage[line[i][1]][line[i][2]] = "line"
          BY <4>1 DEF LineExact
        <5>2. stage'[line[i][1]][line[i][2]] = "line"
          BY <3>3, <4>1, <5>1, InLine
        <5>3. QED
          BY <4>1, <5>2
      <4>2. CASE i - n \in 1..Len(s) /\ line'[i] = s[i - n]
        <5>1. line'[i] \in S
          BY <3>4, <4>2
        <5>2. PICK c \in Ensuring : line'[i] = <<c, 1>>
          BY <5>1 DEF S
        <5>3. c \in Calls /\ 1 \in Batches /\ <<c, 1>> \in S
          BY <5>1, <5>2, BatchesAreFinite DEF Ensuring
        <5>4. stage'[c][1] = "line"
          BY <3>3, <5>3
        <5>5. QED
          BY <5>2, <5>4
      <4>3. QED
        BY <3>7, <4>1, <4>2
    <3>9. \A i, j \in Places' : i # j => line'[i] # line'[j]
      <4> TAKE i, j \in Places'
      <4> HAVE i # j
      <4>1. CASE i \in Places /\ j \in Places
        BY <3>7, <4>1 DEF LineExact
      <4>2. CASE i \notin Places /\ j \notin Places
        <5>1. i - n # j - n
          BY <3>5
        <5>2. QED
          BY <3>4, <3>7, <4>2, <5>1
      <4>3. CASE (i \in Places) # (j \in Places)
        BY <3>4, <3>6, <3>7, <4>3
      <4>4. QED
        BY <4>1, <4>2, <4>3
    <3>10. ASSUME NEW c \in Calls, NEW b \in Batches, stage'[c][b] = "line"
           PROVE \E i \in Places' : line'[i] = <<c, b>>
      <4>1. CASE stage[c][b] = "line"
        <5>1. PICK i \in Places : line[i] = <<c, b>>
          BY <4>1 DEF LineExact
        <5>2. i \in Places' /\ line'[i] = line[i]
          BY <3>5
        <5>3. QED
          BY <5>1, <5>2
      <4>2. CASE <<c, b>> \in S
        <5>1. PICK i \in 1..Len(s) : s[i] = <<c, b>>
          BY <3>4, <4>2
        <5>2. i + n \in Places' /\ line'[i + n] = s[i]
          BY <3>5
        <5>3. QED
          BY <5>1, <5>2
      <4>3. QED
        BY <3>3, <3>10, <4>1, <4>2
    <3>11. QED
      BY <3>8, <3>9, <3>10 DEF LineExact
  <2>3. QED
    BY <2>1, <2>2
<1>7. CASE \/ \E c \in Calls : Begin(c) \/ Fire(c)
          \/ LookupServed \/ OthersDelete \/ OthersCreate \/ UNCHANGED vars
  <2>1. UNCHANGED <<line, stage>>
    BY <1>7 DEF Begin, Fire, LookupServed, OthersDelete, OthersCreate, vars
  <2>2. QED
    BY <2>1, LineKept
<1>8. QED
  BY <1>1, <1>2, <1>3, <1>4, <1>5, <1>6, <1>7 DEF Next, CallStep, Lookup

LEMMA StrandedStep == TypeOK /\ NobodyStranded /\ [Next]_vars => NobodyStranded'
<1> SUFFICES ASSUME TypeOK, NobodyStranded, [Next]_vars PROVE NobodyStranded'
  OBVIOUS
<1> USE DEF memory, calls
<1>1. ASSUME NEW c \in Calls, NEW b \in Batches, Launch(c, b) PROVE NobodyStranded'
  <2>1. \E to \in {"sent", "ensuring", "line"} :
          Becomes(c, b, to) /\ (to = "ensuring" => b = 1 /\ lookup' # "none")
    BY <1>1 DEF Launch
  <2>2. lookup # "none" => lookup' = lookup
    BY <1>1 DEF Launch
  <2>3. QED
    BY <2>1, <2>2, Moves DEF NobodyStranded
<1>2. ASSUME NEW c \in Calls, NEW b \in Batches, Answered(c, b) \/ Abort(c, b)
      PROVE NobodyStranded'
  <2>1. lookup' = lookup /\ \E to \in {"ok", "failed"} : Becomes(c, b, to)
    BY <1>2 DEF Answered, Abort, FailsWith
  <2>2. QED
    BY <2>1, Moves DEF NobodyStranded
<1>3. ASSUME NEW c \in Calls, Settle(c) PROVE NobodyStranded'
  BY <1>3 DEF Settle, MarkAbsent, NobodyStranded, TypeOK, Unmade
<1>4. CASE LookupServed
  BY <1>4 DEF LookupServed, NobodyStranded
<1>5. CASE LookupArrives
  <2>1. \A c \in Ensuring : stage[c][1] = "ensuring"
    BY DEF Ensuring, NobodyStranded
  <2>2. \A c \in Calls, b \in Batches :
          stage'[c][b] = stage[c][b] \/ stage'[c][b] \in {"failed", "line"}
    BY <1>5 DEF LookupArrives, TypeOK, Stages
  <2>3. \A c \in Ensuring : stage'[c][1] \in {"failed", "line"}
    BY <1>5, BatchesAreFinite DEF LookupArrives, TypeOK, Stages, Ensuring
  <2>4. \A c \in Calls, b \in Batches : stage'[c][b] # "ensuring"
    BY <2>2, <2>3 DEF Ensuring, NobodyStranded
  <2>5. QED
    BY <2>4 DEF NobodyStranded
<1>6. CASE Admit
  <2>1. Head(line) \in Calls \X Batches
    BY <1>6, HeadTailProperties DEF Admit, TypeOK
  <2>2. lookup' = lookup /\ Becomes(Head(line)[1], Head(line)[2], "sent")
    BY <1>6 DEF Admit
  <2>3. QED
    BY <2>1, <2>2, Moves DEF NobodyStranded
<1>7. CASE \/ \E c \in Calls : Begin(c) \/ Fire(c)
          \/ OthersDelete \/ OthersCreate \/ UNCHANGED vars
  BY <1>7 DEF Begin, Fire, OthersDelete, OthersCreate, vars, NobodyStranded
<1>8. QED
  BY <1>1, <1>2, <1>3, <1>4, <1>5, <1>6, <1>7 DEF Next, CallStep, Lookup

(* However calls join, are let through and are aborted, the line lists the *)
(* requests that wait in it and nothing else, each once, so that whoever   *)
(* is at its front can be let through; and a request that waits for a      *)
(* lookup waits for one that is on its way.                                *)
THEOREM NobodyIsForgotten == Spec => [](LineExact /\ NobodyStranded)
<1>1. Init => LineExact /\ NobodyStranded
  BY DEF Init, LineExact, NobodyStranded, Places, Unmade
<1>2. QED
  BY <1>1, TypeCorrect, LineStep, StrandedStep, PTL DEF Spec

-----------------------------------------------------------------------------
(* The memory of the index *)

LEMMA ReportTypesStep ==
  TypeOK /\ ReportTypes /\ [ReportNext]_reportVars => TypeOK' /\ ReportTypes'
<1> SUFFICES ASSUME TypeOK, ReportTypes, [ReportNext]_reportVars PROVE TypeOK' /\ ReportTypes'
  OBVIOUS
<1>1. [Next]_vars
  BY DEF ReportNext, reportVars
<1>2. TypeOK'
  BY <1>1, TypeStep
<1>3. ReportTypes'
  BY DEF ReportNext, reportVars, Record, ReportTypes
<1>4. QED
  BY <1>2, <1>3

(* A report is about an index that is gone before the step and after it,   *)
(* and only a call that ends makes it.                                     *)
LEMMA WhatIsTold ==
  ASSUME TypeOK, ReportTypes, Record
  PROVE  /\ told' => ~exists /\ ~exists'
         /\ told' => told \/ \E c \in Calls : Reports(c)
         /\ told' /\ UNCHANGED kind => told
<1>1. ~(exists \/ exists') => told' = (told \/ \E c \in Calls : Reports(c))
  BY DEF Record
<1>2. exists \/ exists' => ~told'
  BY DEF Record
<1>3. (\E c \in Calls : Reports(c)) => ~UNCHANGED kind
  BY DEF Reports
<1>4. QED
  BY <1>1, <1>2, <1>3

(* A step records a write as one that is not misled only if it was not     *)
(* before, or is only beginning.                                           *)
LEMMA WhoIsRecorded ==
  ASSUME TypeOK, ReportTypes, UnmadeInv, SinceInv, Record
  PROVE  /\ \A c \in since' : told /\ told' /\ kind'[c] = "write"
         /\ \A c \in since' \ joined' :
              /\ c \in Calls /\ Sound(c)
              /\ stage'[c][1] = "ensuring" => ~sighted'
              /\ stage[c][1] = "ensuring" => ~sighted /\ kind[c] = "write"
<1>1. CASE exists \/ exists'
  BY <1>1 DEF Record
<1>2. CASE ~(exists \/ exists')
  <2>1. /\ told' = (told \/ \E c \in Calls : Reports(c))
        /\ sighted' = (lookup' # "none" /\ (sighted \/ (~told /\ told' /\ Sighting)))
        /\ since' = {c \in Calls : kind'[c] = "write" /\ (c \in since \/ (told /\ kind[c] = "none"))}
        /\ joined' = {c \in since' : c \in joined \/ (sighted /\ stage'[c][1] = "ensuring")}
    BY <1>2 DEF Record
  <2>2. \A c \in since' : told /\ told' /\ kind'[c] = "write" /\ c \in Calls
    BY <2>1 DEF SinceInv, ReportTypes
  <2>3. ASSUME NEW c \in since' \ joined'
        PROVE  /\ Sound(c)
               /\ stage'[c][1] = "ensuring" => ~sighted'
               /\ stage[c][1] = "ensuring" => ~sighted /\ kind[c] = "write"
    <3>1. c \in Calls /\ told /\ c \notin joined
      BY <2>1, <2>2
    <3>2. stage'[c][1] = "ensuring" => ~sighted'
      BY <2>1, <3>1
    <3>3. CASE c \in since
      BY <3>1, <3>2, <3>3 DEF SinceInv, Sound
    <3>4. CASE kind[c] = "none"
      <4>1. failure[c] = "none" /\ \A b \in Batches : stage[c][b] = "new"
        BY <3>1, <3>4 DEF UnmadeInv, Unmade
      <4>2. 1 \in Batches
        BY BatchesAreFinite
      <4>3. QED
        BY <3>2, <4>1, <4>2 DEF Sound
    <3>5. QED
      BY <2>1, <3>3, <3>4
  <2>4. QED
    BY <2>2, <2>3
<1>3. QED
  BY <1>1, <1>2

(* What a step has to show of each request of a write that is not misled.  *)
LEMMA StaysSound ==
  ASSUME TypeOK, ReportTypes, UnmadeInv, SinceInv, Record,
         \A c \in since' \ joined' :
           /\ \A b \in Batches : stage'[c][b] \notin {"line", "sent", "ok"}
           /\ failure'[c] # "NOT_FOUND"
  PROVE  SinceInv'
<1>1. \A c \in since' \ joined' : Sound(c)'
  BY WhoIsRecorded DEF Sound
<1>2. QED
  BY <1>1, WhoIsRecorded DEF SinceInv

(* The lookup is where it was, or starts anew.                             *)
LEMMA SightKept ==
  ASSUME TypeOK, ReportTypes, SightInv, Record,
         lookup' = lookup \/ (lookup \in {"none", "found", "gone", "failed"}
                              /\ lookup' \in {"none", "describe"}
                              /\ (lookup' = "describe" => lookup = "none"))
  PROVE  SightInv'
<1>1. CASE exists \/ exists'
  BY <1>1 DEF Record, SightInv
<1>2. CASE ~(exists \/ exists')
  <2>1. sighted' = (lookup' # "none" /\ (sighted \/ (~told /\ told' /\ Sighting)))
    BY <1>2 DEF Record
  <2>2. QED
    BY <2>1 DEF SightInv, Sighting, TypeOK, ReportTypes
<1>3. QED
  BY <1>1, <1>2

(* A step before or after which the index is there ends what was reported. *)
LEMMA NothingReported ==
  ASSUME Record, exists \/ exists'
  PROVE  MemoryInv' /\ SightInv' /\ SinceInv'
BY DEF Record, MemoryInv, SightInv, SinceInv

LEMMA RecoveryStep ==
  TypeOK /\ ReportTypes /\ NobodyStranded /\ RecoveryInv /\ [ReportNext]_reportVars
    => RecoveryInv'
<1> SUFFICES ASSUME TypeOK, ReportTypes, NobodyStranded, RecoveryInv, Next, Record PROVE RecoveryInv'
  <2>1. CASE UNCHANGED reportVars
    BY <2>1 DEF reportVars, vars, memory, calls, RecoveryInv, UnmadeInv, MemoryInv, SightInv,
                Sighting, SinceInv, Sound
  <2>2. QED
    BY <2>1 DEF ReportNext
<1> USE DEF memory, calls
<1>0. UnmadeInv /\ MemoryInv /\ SightInv /\ SinceInv
  BY DEF RecoveryInv
<1>1. told' => ~exists /\ ~exists' /\ (told \/ \E c \in Calls : Reports(c))
  BY WhatIsTold
<1>2. UNCHANGED kind => (told' => told)
  BY WhatIsTold
<1>3. ASSUME NEW c \in Calls, Begin(c) PROVE RecoveryInv'
  <2>1. /\ UNCHANGED <<memory, line, stage, failure, fired, exists>>
        /\ kind[c] = "none" /\ kind'[c] # "none" /\ \A d \in Calls \ {c} : kind'[d] = kind[d]
    BY <1>3 DEF Begin, TypeOK
  <2>2. told' => told
    BY <1>1, <2>1 DEF Reports
  <2>3. UnmadeInv' /\ MemoryInv'
    BY <1>0, <1>1, <2>1, <2>2 DEF UnmadeInv, MemoryInv
  <2>4. SightInv'
    BY <1>0, <2>1, SightKept
  <2>5. SinceInv'
    BY <1>0, <2>1, WhoIsRecorded, StaysSound DEF Sound
  <2>6. QED
    BY <2>3, <2>4, <2>5 DEF RecoveryInv
<1>4. ASSUME NEW c \in Calls, NEW b \in Batches, Launch(c, b) PROVE RecoveryInv'
  <2>1. /\ kind[c] # "none" /\ (kind[c] = "write" /\ b > 1 => stage[c][1] = "ok")
        /\ UNCHANGED <<known, kind, failure, fired, exists>>
        /\ \E to \in {"sent", "ensuring", "line"} :
             /\ Becomes(c, b, to)
             /\ to # "ensuring" => kind[c] # "write" \/ b # 1 \/ known
        /\ \/ lookup' = lookup /\ stale' = stale
           \/ lookup = "none" /\ lookup' = "describe"
    BY <1>4 DEF Launch, NextBatch
  <2>2. told' => told
    BY <1>2, <2>1
  <2>3. UnmadeInv' /\ MemoryInv'
    BY <1>0, <1>1, <2>1, <2>2, Moves DEF UnmadeInv, MemoryInv
  <2>4. SightInv'
    BY <1>0, <2>1, SightKept
  <2>5. ASSUME NEW d \in since' \ joined', NEW a \in Batches,
               stage'[d][a] \in {"line", "sent", "ok"}
        PROVE  FALSE
    <3>1. d \in Calls /\ told /\ kind[d] = "write" /\ Sound(d)
      BY <1>0, <2>1, WhoIsRecorded
    <3>2. CASE d # c \/ a # b
      BY <2>1, <2>5, <3>1, <3>2, Moves DEF Sound
    <3>3. CASE d = c /\ a = b
      <4>1. known \/ b # 1
        BY <2>1, <2>5, <3>1, <3>3, Moves
      <4>2. b # 1 => b > 1 /\ 1 \in Batches
        BY BatchesAreFinite, StoreAssumption DEF Batches
      <4>3. QED
        BY <1>0, <2>1, <3>1, <3>3, <4>1, <4>2 DEF Sound, MemoryInv, TypeOK
    <3>4. QED
      BY <3>2, <3>3
  <2>6. SinceInv'
    <3>1. \A d \in since' \ joined' : failure'[d] # "NOT_FOUND"
      BY <1>0, <2>1, WhoIsRecorded DEF Sound
    <3>2. QED
      BY <1>0, <2>1, <2>5, <3>1, StaysSound
  <2>7. QED
    BY <2>3, <2>4, <2>6 DEF RecoveryInv
<1>5. ASSUME NEW c \in Calls, NEW b \in Batches, Answered(c, b) \/ Abort(c, b)
      PROVE RecoveryInv'
  <2>1. /\ UNCHANGED <<memory, kind, fired, exists>>
        /\ \/ exists /\ Becomes(c, b, "ok") /\ UNCHANGED failure
           \/ ~exists /\ stage[c][b] = "sent" /\ FailsWith(c, b, "NOT_FOUND")
           \/ FailsWith(c, b, "OTHER")
    BY <1>5 DEF Answered, Abort
  <2>2. kind[c] # "none"
    <3>1. CASE Answered(c, b)
      BY <1>0, <3>1 DEF Answered, UnmadeInv, Unmade
    <3>2. CASE Abort(c, b)
      BY <1>0, <3>2 DEF Abort, UnderWay, NextBatch, UnmadeInv, Unmade
    <3>3. QED
      BY <1>5, <3>1, <3>2
  <2>3. /\ \A d \in Calls \ {c} : stage'[d] = stage[d] /\ failure'[d] = failure[d]
        /\ \A a \in Batches \ {b} : stage'[c][a] = stage[c][a]
        /\ stage'[c][b] \in {"ok", "failed"} /\ (stage'[c][b] = "ok" => exists)
        /\ failure'[c] = "NOT_FOUND" /\ failure[c] # "NOT_FOUND" => ~exists /\ stage[c][b] = "sent"
    BY <2>1, Moves DEF FailsWith, TypeOK
  <2>4. UnmadeInv' /\ MemoryInv'
    BY <1>0, <1>1, <1>2, <2>1, <2>2, <2>3 DEF UnmadeInv, MemoryInv
  <2>5. SightInv'
    BY <1>0, <2>1, SightKept
  <2>6. SinceInv'
    <3>1. \A d \in since' \ joined' : d \in Calls /\ Sound(d) /\ ~exists
      BY <1>0, <2>1, WhoIsRecorded DEF MemoryInv
    <3>2. \A d \in since' \ joined' : failure'[d] # "NOT_FOUND"
      BY <2>3, <3>1 DEF Sound
    <3>3. \A d \in since' \ joined', a \in Batches :
            stage'[d][a] \notin {"line", "sent", "ok"}
      BY <2>3, <3>1 DEF Sound
    <3>4. QED
      BY <1>0, <2>1, <3>2, <3>3, StaysSound
  <2>7. QED
    BY <2>4, <2>5, <2>6 DEF RecoveryInv
<1>6. ASSUME NEW c \in Calls, Settle(c) PROVE RecoveryInv'
  <2>1. /\ kind' = [kind EXCEPT ![c] = "none"] /\ stage' = [stage EXCEPT ![c] = Unmade]
        /\ failure' = [failure EXCEPT ![c] = "none"] /\ UNCHANGED <<exists, lookup>>
        /\ \/ UNCHANGED <<known, stale>> /\ failure[c] # "NOT_FOUND"
           \/ known' = FALSE /\ stale' = (lookup # "none")
    BY <1>6 DEF Settle, MarkAbsent
  <2>2. failure[c] # "NOT_FOUND" => (told' => told)
    <3>1. \A d \in Calls : Reports(d) => d = c
      BY <2>1 DEF Reports, TypeOK
    <3>2. QED
      BY <1>1, <2>1, <3>1 DEF Reports
  <2>3. UnmadeInv' /\ MemoryInv'
    <3>1. UnmadeInv'
      BY <1>0, <2>1 DEF UnmadeInv, TypeOK
    <3>2. MemoryInv'
      BY <1>0, <1>1, <2>1, <2>2 DEF MemoryInv
    <3>3. QED
      BY <3>1, <3>2
  <2>4. SightInv'
    BY <1>0, <2>1, SightKept
  <2>5. SinceInv'
    <3>1. \A d \in since' \ joined' : d \in Calls /\ Sound(d)
      BY <1>0, <2>1, WhoIsRecorded
    <3>2. \A d \in since' \ joined' :
            /\ \A b \in Batches : stage'[d][b] \notin {"line", "sent", "ok"}
            /\ failure'[d] # "NOT_FOUND"
      BY <2>1, <3>1 DEF Sound, TypeOK, Unmade
    <3>3. QED
      BY <1>0, <2>1, <3>2, StaysSound
  <2>6. QED
    BY <2>3, <2>4, <2>5 DEF RecoveryInv
<1>7. CASE LookupServed
  <2>1. /\ UNCHANGED <<known, stale, line, calls>>
        /\ exists \/ exists' \/ lookup' \in {"create", "gone", "failed"}
        /\ lookup' = "gone" => lookup = "recheck"
        /\ lookup \in {"describe", "create", "recheck"}
        /\ Sighting => lookup' \in {"found", "gone", "failed"}
    BY <1>7 DEF LookupServed, TypeOK, Sighting
  <2>2. UnmadeInv'
    BY <1>0, <2>1 DEF UnmadeInv
  <2>3. CASE exists \/ exists'
    BY <2>2, <2>3, NothingReported DEF RecoveryInv
  <2>4. CASE ~(exists \/ exists')
    <3>1. told' = told
      BY <1>2, <2>1, <2>4 DEF Record, Reports, ReportTypes
    <3>2. sighted' = sighted
      BY <2>1, <2>4, <3>1 DEF Record, TypeOK, ReportTypes
    <3>3. MemoryInv' /\ SightInv'
      BY <1>0, <2>1, <2>4, <3>1, <3>2 DEF MemoryInv, SightInv, Sighting
    <3>4. SinceInv'
      BY <1>0, <2>1, WhoIsRecorded, StaysSound DEF Sound
    <3>5. QED
      BY <2>2, <3>3, <3>4 DEF RecoveryInv
  <2>5. QED
    BY <2>3, <2>4
<1>8. CASE LookupArrives
  <2>1. /\ UNCHANGED <<kind, fired, exists>> /\ lookup' = "none"
        /\ known' = (known \/ (lookup = "found" /\ ~stale))
        /\ lookup \in {"found", "gone", "failed"}
    BY <1>8 DEF LookupArrives
  <2>2. /\ \A c \in Calls \ Ensuring : stage'[c] = stage[c] /\ failure'[c] = failure[c]
        /\ \A c \in Calls, b \in Batches :
             \/ stage'[c][b] \in {stage[c][b], "failed"}
             \/ lookup # "failed" /\ b = 1 /\ c \in Ensuring
        /\ \A c \in Calls : failure'[c] \in {failure[c], "OTHER"}
    <3>1. CASE lookup = "failed"
      BY <1>8, <3>1 DEF LookupArrives, TypeOK, Stages
    <3>2. CASE lookup # "failed"
      BY <1>8, <3>2 DEF LookupArrives, TypeOK, Stages
    <3>3. QED
      BY <3>1, <3>2
  <2>3. told' => told
    BY <1>2, <2>1
  <2>4. UnmadeInv'
    <3>1. \A c \in Ensuring : kind[c] # "none"
      BY <1>0 DEF Ensuring, UnmadeInv, Unmade
    <3>2. QED
      BY <1>0, <2>1, <2>2, <3>1 DEF UnmadeInv
  <2>5. MemoryInv'
    BY <1>0, <1>1, <2>1, <2>3 DEF MemoryInv, TypeOK
  <2>6. SightInv'
    BY <1>0, <2>1, SightKept
  <2>7. SinceInv'
    <3>1. \A c \in since' \ joined' : c \in Calls /\ told /\ Sound(c)
      BY <1>0, <2>1, WhoIsRecorded
    <3>2. ASSUME NEW c \in since' \ joined', c \in Ensuring, lookup # "failed" PROVE FALSE
      <4>1. ~sighted
        BY <3>1, <3>2 DEF Ensuring, NobodyStranded, Sound
      <4>2. QED
        BY <1>0, <2>1, <3>1, <3>2, <4>1 DEF SightInv, Sighting
    <3>3. \A c \in since' \ joined', b \in Batches :
            stage'[c][b] \notin {"line", "sent", "ok"}
      BY <2>2, <3>1, <3>2 DEF Sound
    <3>4. \A c \in since' \ joined' : failure'[c] # "NOT_FOUND"
      BY <2>2, <3>1 DEF Sound
    <3>5. QED
      BY <1>0, <2>1, <3>3, <3>4, StaysSound
  <2>8. QED
    BY <2>4, <2>5, <2>6, <2>7 DEF RecoveryInv
<1>9. CASE Admit
  <2>1. PICK c \in Calls, b \in Batches :
          stage[c][b] = "line" /\ Becomes(c, b, "sent")
    <3>1. Head(line) \in Calls \X Batches
      BY <1>9, HeadTailProperties DEF Admit, TypeOK
    <3>2. QED
      BY <1>9, <3>1 DEF Admit
  <2>2. UNCHANGED <<memory, kind, failure, exists>>
    BY <1>9 DEF Admit
  <2>3. kind[c] # "none" /\ (told' => told)
    BY <1>0, <1>2, <2>1, <2>2 DEF UnmadeInv, Unmade
  <2>4. UnmadeInv' /\ MemoryInv'
    BY <1>0, <1>1, <2>1, <2>2, <2>3, Moves DEF UnmadeInv, MemoryInv
  <2>5. SightInv'
    BY <1>0, <2>2, SightKept
  <2>6. SinceInv'
    <3>1. \A d \in since' \ joined' : d \in Calls /\ Sound(d)
      BY <1>0, <2>2, WhoIsRecorded
    <3>2. \A d \in since' \ joined', a \in Batches :
            stage'[d][a] \notin {"line", "sent", "ok"}
      BY <2>1, <3>1, Moves DEF Sound
    <3>3. QED
      BY <1>0, <2>2, <3>1, <3>2, StaysSound DEF Sound
  <2>7. QED
    BY <2>4, <2>5, <2>6 DEF RecoveryInv
<1>10. CASE OthersDelete \/ OthersCreate
  <2>1. UNCHANGED <<memory, line, calls>> /\ (exists \/ exists')
    BY <1>10 DEF OthersDelete, OthersCreate
  <2>2. UnmadeInv'
    BY <1>0, <2>1 DEF UnmadeInv
  <2>3. QED
    BY <2>1, <2>2, NothingReported DEF RecoveryInv
<1>11. ASSUME NEW c \in Calls, Fire(c) PROVE RecoveryInv'
  <2>1. UNCHANGED <<memory, kind, stage, failure, exists>>
    BY <1>11 DEF Fire
  <2>2. UnmadeInv' /\ MemoryInv'
    BY <1>0, <1>2, <2>1 DEF UnmadeInv, MemoryInv
  <2>3. SightInv'
    BY <1>0, <2>1, SightKept
  <2>4. SinceInv'
    BY <1>0, <2>1, WhoIsRecorded, StaysSound DEF Sound
  <2>5. QED
    BY <2>2, <2>3, <2>4 DEF RecoveryInv
<1>12. QED
  BY <1>3, <1>4, <1>5, <1>6, <1>7, <1>8, <1>9, <1>10, <1>11 DEF Next, CallStep, Lookup

(* For every set of calls and every number of requests: once any call has  *)
(* reported the index gone, a write that begins then fails on its absence  *)
(* only if it joined the lookup that was pending at the report with an     *)
(* answer from before, as long as the index stays gone. It needs           *)
(* RecoveryInv: the memory, the pending lookup and each request of such a  *)
(* write are each a place where an old answer could have been kept.        *)
THEOREM RecoveredHolds == ReportSpec => []Recovered
<1>1. ReportInit => TypeOK /\ ReportTypes /\ NobodyStranded /\ RecoveryInv
  BY InitTypes DEF ReportInit, Init, Unmade, ReportTypes, NobodyStranded, RecoveryInv, UnmadeInv,
                   MemoryInv, SightInv, SinceInv
<1>2. RecoveryInv => Recovered
  BY DEF RecoveryInv, SinceInv, Sound, Recovered
<1>3. TypeOK /\ NobodyStranded /\ [ReportNext]_reportVars => NobodyStranded'
  BY StrandedStep DEF ReportNext, reportVars
<1>4. QED
  BY <1>1, <1>2, <1>3, ReportTypesStep, RecoveryStep, PTL DEF ReportSpec

-----------------------------------------------------------------------------
(* The window of a call *)

LEMMA WindowStep == TypeOK /\ NobodyStranded /\ WindowHeld /\ [Next]_vars => WindowHeld'
<1> SUFFICES ASSUME TypeOK, NobodyStranded, WindowHeld, [Next]_vars, NEW c \in Calls
             PROVE  Cardinality(UnderWay(c)') <= MaxConcurrent
  BY DEF WindowHeld, UnderWay
<1> USE DEF memory, calls
<1>1. /\ UnderWay(c) \in SUBSET Batches /\ UnderWay(c)' \in SUBSET Batches
      /\ MaxConcurrent \in Nat \ {0} /\ Cardinality(UnderWay(c)) <= MaxConcurrent
  BY StoreAssumption DEF UnderWay, WindowHeld
<1>2. CASE UnderWay(c)' \subseteq UnderWay(c)
  BY <1>1, <1>2, BatchesAreFinite, FS_Subset
<1>3. ASSUME NEW b \in Batches, Launch(c, b) PROVE Cardinality(UnderWay(c)') <= MaxConcurrent
  <2>1. /\ Cardinality(UnderWay(c)) < MaxConcurrent
        /\ \E to \in {"sent", "ensuring", "line"} : Becomes(c, b, to)
    BY <1>3 DEF Launch, NextBatch
  <2>2. UnderWay(c)' = UnderWay(c) \cup {b}
    BY <2>1, Moves DEF UnderWay
  <2>3. Cardinality(UnderWay(c)') <= Cardinality(UnderWay(c)) + 1
    BY <1>1, <2>2, BatchesAreFinite, FS_AddElement
  <2>4. QED
    BY <1>1, <2>1, <2>3, BatchesAreFinite
<1>4. ASSUME ~ \E b \in Batches : Launch(c, b) PROVE UnderWay(c)' \subseteq UnderWay(c)
  <2> SUFFICES ASSUME NEW b \in Batches, stage'[c][b] \in {"ensuring", "line", "sent"}
               PROVE  stage[c][b] \in {"ensuring", "line", "sent"}
    BY DEF UnderWay
  <2>1. ASSUME NEW d \in Calls \ {c}, NEW a \in Batches, Launch(d, a)
        PROVE stage[c][b] \in {"ensuring", "line", "sent"}
    <3>1. \E to \in {"sent", "ensuring", "line"} : Becomes(d, a, to)
      BY <2>1 DEF Launch
    <3>2. QED
      BY <3>1, Moves
  <2>2. ASSUME NEW d \in Calls, NEW a \in Batches, Answered(d, a) \/ Abort(d, a)
        PROVE stage[c][b] \in {"ensuring", "line", "sent"}
    <3>1. \E to \in {"ok", "failed"} : Becomes(d, a, to)
      BY <2>2 DEF Answered, Abort, FailsWith
    <3>2. QED
      BY <3>1, Moves
  <2>3. ASSUME NEW d \in Calls, Settle(d) PROVE stage[c][b] \in {"ensuring", "line", "sent"}
    BY <2>3 DEF Settle, TypeOK, Unmade
  <2>4. CASE LookupArrives
    <3>1. c \in Ensuring => stage[c][1] = "ensuring"
      BY DEF Ensuring, NobodyStranded
    <3>2. stage'[c][b] = stage[c][b] \/ (c \in Ensuring /\ b = 1)
      BY <2>4 DEF LookupArrives, TypeOK, Stages
    <3>3. QED
      BY <3>1, <3>2
  <2>5. CASE Admit
    <3>1. Head(line) \in Calls \X Batches
      BY <2>5, HeadTailProperties DEF Admit, TypeOK
    <3>2. /\ Becomes(Head(line)[1], Head(line)[2], "sent")
          /\ stage[Head(line)[1]][Head(line)[2]] = "line"
      BY <2>5 DEF Admit
    <3>3. QED
      BY <3>1, <3>2, Moves
  <2>6. CASE UNCHANGED stage
    BY <2>6
  <2>7. QED
    BY <1>4, <2>1, <2>2, <2>3, <2>4, <2>5, <2>6
       DEF Next, CallStep, Lookup, Begin, Fire, LookupServed, OthersDelete, OthersCreate, vars
<1>5. QED
  BY <1>2, <1>3, <1>4

(* No call has more requests under way than maxConcurrentBatchCalls, those *)
(* that wait for a lookup or in the line included.                         *)
THEOREM WindowIsHeld == Spec => []WindowHeld
<1>1. Init => WindowHeld
  <2> SUFFICES ASSUME Init, NEW c \in Calls PROVE Cardinality(UnderWay(c)) <= MaxConcurrent
    BY DEF WindowHeld
  <2>1. UnderWay(c) = {}
    BY DEF Init, Unmade, UnderWay
  <2>2. QED
    BY <2>1, FS_EmptySet, StoreAssumption
<1>2. QED
  BY <1>1, TypeCorrect, NobodyIsForgotten, WindowStep, PTL DEF Spec

=============================================================================
