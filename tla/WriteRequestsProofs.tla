------------------------ MODULE WriteRequestsProofs ------------------------
(***************************************************************************)
(* WriteRequests for any input, batch size and size of a record: every     *)
(* record goes out once, with its own vector and under its own id, in      *)
(* requests that fit and are of one dimension.                             *)
(***************************************************************************)
EXTENDS WriteRequests, SequenceTheorems, WellFoundedInduction, TLAPS

AnId == Ids \cup {NoId, Malformed} \cup {Minted(i) : i \in Nat}

TypeOK ==
  /\ embeds \in BOOLEAN /\ fired \in BOOLEAN /\ batchSize \in Nat
  /\ own \in Seq(AnId) /\ (given # NotGiven => given \in Seq(AnId))
  /\ bytes \in [1..Count -> Nat]
  /\ dimensions \in Seq(Nat) /\ Len(dimensions) <= Count
  /\ pc \in {"begin", "refused", "aborted", "resolved", "embedding", "writing"}
  /\ ids \in Seq(AnId) /\ established \in Nat
  /\ requests \in Seq([records : Seq(Nat), vectors : Seq(Nat), reported : Seq(AnId)])

(* The numbers after m, up to n.                                           *)
Between(m, n) == [i \in 1..(n - m) |-> m + i]

(* The numbers after `base`, up to `top`, cut into runs: the b-th holds    *)
(* those after start[b].                                                   *)
Cut(runs, start, base, top) ==
  /\ runs \in Seq(Seq(Nat)) /\ start \in [1..(Len(runs) + 1) -> base..top]
  /\ start[1] = base /\ start[Len(runs) + 1] = top
  /\ \A b \in 1..Len(runs) : start[b] < start[b + 1] /\ runs[b] = Between(start[b], start[b + 1])

(* No run is too large, nor ends early.                                    *)
Packed(runs, start, top, dimension, size) ==
  \A b \in 1..Len(runs) :
    /\ Len(runs[b]) <= size
    /\ Len(runs[b]) = 1 \/ BodyBytes(runs[b], dimension) <= Budget
    /\ \/ start[b + 1] = top \/ Len(runs[b]) = size
       \/ BodyBytes(Between(start[b], start[b + 1] + 1), dimension) > Budget

(* How many documents have been sent.                                      *)
Done == IF embeds THEN Len(dimensions) ELSE IF pc = "resolved" THEN Count ELSE 0

RecordsSent == [q \in DOMAIN requests |-> requests[q].records]

(* The requests made are the documents so far, cut into runs.              *)
SentInv == \E start : Cut(RecordsSent, start, 0, Done)

(* A call that goes on has ids for all it was given.                       *)
AcceptedInv == pc \in {"embedding", "writing", "resolved"} =>
  Len(ids) = Count /\ IsInjective(ids) /\ batchSize > 0

(* Before every batch, those before it were full.                          *)
BatchInv ==
  /\ pc = "embedding" =>
       embeds /\ Len(dimensions) < Count /\ \E n \in Nat : Len(dimensions) = n * batchSize
  /\ pc = "resolved" /\ embeds => Len(dimensions) = Count
  /\ pc = "begin" => dimensions = <<>> /\ established = 0
  /\ pc = "writing" => ~embeds /\ Count > 0

DimensionInv ==
  /\ embeds \/ pc \in {"writing", "resolved"} =>
       \A i \in 1..Len(dimensions) : dimensions[i] = dimensions[1] /\ dimensions[i] > 0
  /\ embeds => established = IF dimensions = <<>> THEN 0 ELSE dimensions[1]
  /\ ~embeds /\ pc \in {"writing", "resolved"} => Len(dimensions) = Count

IInv ==
  /\ TypeOK /\ SentInv /\ AcceptedInv /\ BatchInv /\ DimensionInv
  /\ PairedUp /\ RequestsFit

-----------------------------------------------------------------------------
(* Recursion.  The smallest number of a set stands in for induction.       *)

(* A set of numbers that has a member has a smallest one.                  *)
LEMMA Smallest ==
  ASSUME NEW S \in SUBSET Nat, S # {}
  PROVE  \E x \in S : \A y \in S : x <= y
<1> DEFINE Less == {p \in Nat \X Nat : p[1] < p[2]}
<1>1. OpToRel(<, Nat) = Less
  BY Zenon DEF OpToRel
<1>2. IsWellFoundedOn(Less, Nat)
  BY <1>1, NatLessThanWellFounded, Zenon
<1> HIDE DEF Less
<1>3. PICK x \in S : \A y \in S : ~(<<y, x>> \in Less)
  BY <1>2, WFMin
<1>4. \A y \in S : x <= y
  <2> TAKE y \in S
  <2>1. x \in Nat /\ y \in Nat
    OBVIOUS
  <2>2. ~(y < x)
    BY <1>3, <2>1 DEF Less
  <2>3. QED
    BY <2>1, <2>2
<1>5. QED
  BY <1>4

(* f is what n steps make of `base`.                                       *)
Iterates(f, S, base, step, n) ==
  f \in [0..n -> S] /\ f[0] = base /\ \A m \in 1..n : f[m] = step[<<m, f[m - 1]>>]

(* What starts in a set, and takes steps that stay in it, can be iterated  *)
(* as often as one likes.                                                  *)
LEMMA Iteration ==
  ASSUME NEW S, NEW base \in S, NEW N \in Nat, NEW step,
         \A n \in 1..N : \A s \in S : step[<<n, s>>] \in S
  PROVE  \E f : Iterates(f, S, base, step, N)
<1> DEFINE bad == {n \in 0..N : ~\E f : Iterates(f, S, base, step, n)}
<1>1. bad = {}
  <2> SUFFICES ASSUME bad # {} PROVE FALSE
    OBVIOUS
  <2>1. PICK n \in bad : \A m \in bad : n <= m
    <3>1. bad \in SUBSET Nat
      OBVIOUS
    <3> HIDE DEF bad
    <3>2. QED
      BY <3>1, Smallest
  <2>2. n \in 0..N /\ n \in Nat /\ ~\E f : Iterates(f, S, base, step, n)
    OBVIOUS
  <2>3. CASE n = 0
    <3>1. Iterates([m \in 0..0 |-> base], S, base, step, 0)
      BY DEF Iterates
    <3>2. QED
      BY <2>2, <2>3, <3>1
  <2>4. CASE n # 0
    <3>1. n - 1 \in 0..N /\ n - 1 \notin bad /\ n \in 1..N
      BY <2>1, <2>2, <2>4
    <3>2. PICK g : Iterates(g, S, base, step, n - 1)
      BY <3>1
    <3> DEFINE f == [m \in 0..n |-> IF m = n THEN step[<<n, g[n - 1]>>] ELSE g[m]]
    <3>3. \A m \in 0..n : m # n => m \in 0..(n - 1)
      BY <2>2
    <3>4. n - 1 \in 0..(n - 1) /\ n - 1 \in 0..n /\ n - 1 # n /\ 0 \in 0..(n - 1) /\ 0 \in 0..n
      BY <2>2, <2>4
    <3>5. f \in [0..n -> S]
      BY <3>1, <3>2, <3>3, <3>4 DEF Iterates
    <3>6. f[0] = base
      BY <2>4, <3>2, <3>4 DEF Iterates
    <3>7. ASSUME NEW m \in 1..n PROVE f[m] = step[<<m, f[m - 1]>>]
      <4>1. m \in 0..n /\ m - 1 \in 0..n /\ m - 1 # n /\ m \in Nat
        BY <2>2
      <4>2. CASE m = n
        BY <3>4, <4>1, <4>2
      <4>3. CASE m # n
        <5>1. m \in 1..(n - 1)
          BY <2>2, <4>3
        <5>2. g[m] = step[<<m, g[m - 1]>>]
          BY <3>2, <5>1 DEF Iterates
        <5>3. QED
          BY <4>1, <4>3, <5>2
      <4>4. QED
        BY <4>2, <4>3
    <3>8. Iterates(f, S, base, step, n)
      <4> HIDE DEF f
      <4>1. QED
        BY <3>5, <3>6, <3>7 DEF Iterates
    <3>9. QED
      BY <2>2, <3>8
  <2>5. QED
    BY <2>3, <2>4
<1>2. N \in 0..N /\ N \notin bad
  BY <1>1
<1>3. QED
  BY <1>2

-----------------------------------------------------------------------------
(* Consecutive numbers *)

LEMMA BetweenIsAList ==
  ASSUME NEW m \in Nat, NEW n \in Nat, m <= n
  PROVE  /\ Between(m, n) \in Seq(Nat) /\ Len(Between(m, n)) = n - m
         /\ DOMAIN Between(m, n) = 1..(n - m)
         /\ \A i \in 1..(n - m) : Between(m, n)[i] = m + i
         /\ Between(m, n) = <<>> <=> m = n
<1>1. n - m \in Nat
  OBVIOUS
<1>2. Between(m, n) \in Seq(Nat)
  BY <1>1 DEF Between
<1>3. Len(Between(m, n)) = n - m
  BY <1>1 DEF Between
<1>4. Between(m, n) = <<>> <=> Len(Between(m, n)) = 0
  BY <1>2, EmptySeq
<1>5. QED
  BY <1>1, <1>2, <1>3, <1>4 DEF Between

(* A list of the numbers after m is the numbers after m.                   *)
LEMMA IsBetween ==
  ASSUME NEW m \in Nat, NEW n \in Nat, m <= n, NEW s \in Seq(Nat), Len(s) = n - m,
         \A i \in 1..(n - m) : s[i] = m + i
  PROVE  s = Between(m, n)
<1>1. Between(m, n) \in Seq(Nat) /\ Len(Between(m, n)) = n - m
  BY BetweenIsAList
<1>2. \A i \in 1..Len(s) : s[i] = Between(m, n)[i]
  BY BetweenIsAList
<1>3. QED
  BY <1>1, <1>2, SeqEqual

LEMMA AppendBetween ==
  ASSUME NEW m \in Nat, NEW n \in Nat, m <= n
  PROVE  Append(Between(m, n), n + 1) = Between(m, n + 1)
<1> DEFINE s == Append(Between(m, n), n + 1)
<1>1. Between(m, n) \in Seq(Nat) /\ Len(Between(m, n)) = n - m /\ n + 1 \in Nat
      /\ \A i \in 1..(n - m) : Between(m, n)[i] = m + i
  BY BetweenIsAList
<1>2. s \in Seq(Nat) /\ Len(s) = (n + 1) - m /\ s[(n - m) + 1] = n + 1
      /\ \A i \in 1..(n - m) : s[i] = m + i
  BY <1>1, AppendProperties
<1> HIDE DEF s
<1>3. \A i \in 1..((n + 1) - m) : s[i] = m + i
  BY <1>2
<1>4. m <= n + 1 /\ n + 1 \in Nat
  OBVIOUS
<1>5. s = Between(m, n + 1)
  BY <1>2, <1>3, <1>4, IsBetween
<1>6. QED
  BY <1>5 DEF s

LEMMA ConcatBetween ==
  ASSUME NEW l \in Nat, NEW m \in Nat, NEW n \in Nat, l <= m, m <= n
  PROVE  Between(l, m) \o Between(m, n) = Between(l, n)
<1> DEFINE s == Between(l, m) \o Between(m, n)
<1>1. /\ Between(l, m) \in Seq(Nat) /\ Len(Between(l, m)) = m - l
      /\ Between(m, n) \in Seq(Nat) /\ Len(Between(m, n)) = n - m
      /\ \A i \in 1..(m - l) : Between(l, m)[i] = l + i
      /\ \A i \in 1..(n - m) : Between(m, n)[i] = m + i
  BY BetweenIsAList
<1> DEFINE a == Between(l, m)
           b == Between(m, n)
<1>2. a \in Seq(Nat) /\ b \in Seq(Nat) /\ Len(a) = m - l /\ Len(b) = n - m
  BY <1>1
<1>3. /\ s \in Seq(Nat) /\ Len(s) = Len(a) + Len(b)
      /\ \A i \in 1..(Len(a) + Len(b)) : s[i] = IF i <= Len(a) THEN a[i] ELSE b[i - Len(a)]
  BY <1>2, ConcatProperties
<1> HIDE DEF s
<1>4. \A i \in 1..(n - l) : s[i] = l + i
  BY <1>1, <1>3, <1>2
<1>5. Len(s) = n - l /\ l <= n
  BY <1>3, <1>2
<1>6. s = Between(l, n)
  BY <1>3, <1>4, <1>5, IsBetween
<1>7. QED
  BY <1>6 DEF s

(* A slice of consecutive numbers.                                         *)
LEMMA SliceOfBetween ==
  ASSUME NEW m \in Nat, NEW n \in Nat, NEW o \in Nat, NEW l \in Nat, m + o <= n
  PROVE  Slice(Between(m, n), o, l) = Between(m + o, Smaller(m + o + l, n))
<1> DEFINE end == Smaller(o + l, n - m)
           s == SubSeq(Between(m, n), o + 1, end)
<1>1. /\ Between(m, n) \in Seq(Nat) /\ Len(Between(m, n)) = n - m
      /\ \A i \in 1..(n - m) : Between(m, n)[i] = m + i
  BY BetweenIsAList
<1>2. end \in o..(n - m) /\ end \in Nat /\ m + end = Smaller(m + o + l, n)
  BY DEF Smaller
<1> HIDE DEF end
<1>3. \A i \in (o + 1)..end : Between(m, n)[i] \in Nat
  BY <1>1, <1>2
<1>4. /\ s \in Seq(Nat) /\ Len(s) = IF o + 1 <= end THEN end - (o + 1) + 1 ELSE 0
      /\ \A i \in 1..(end - (o + 1) + 1) : s[i] = Between(m, n)[(o + 1) + i - 1]
  BY <1>2, <1>3, SubSeqProperties
<1> HIDE DEF s
<1>5. Len(s) = (m + end) - (m + o) /\ m + o <= m + end /\ m + o \in Nat /\ m + end \in Nat
  BY <1>2, <1>4
<1>6. \A i \in 1..((m + end) - (m + o)) : s[i] = (m + o) + i
  <2> TAKE i \in 1..((m + end) - (m + o))
  <2>1. i \in 1..(end - (o + 1) + 1) /\ o + i \in 1..(n - m) /\ (o + 1) + i - 1 = o + i
    BY <1>2
  <2>2. QED
    BY <1>1, <1>2, <1>4, <2>1
<1>7. s = Between(m + o, m + end)
  BY <1>4, <1>5, <1>6, IsBetween
<1>8. QED
  BY <1>1, <1>2, <1>7 DEF Slice, s, end

-----------------------------------------------------------------------------
(* Batches *)

(* A batch starts where the ones before it end.                            *)
LEMMA OffsetIsStart ==
  ASSUME NEW batches \in Seq(Seq(Nat)), NEW start \in [1..(Len(batches) + 1) -> Nat],
         \A n \in 1..Len(batches) : start[n + 1] = start[n] + Len(batches[n]),
         NEW b \in 1..Len(batches)
  PROVE  Offset(batches, b, start[1]) = start[b]
<1> DEFINE equation(f) ==
             [n \in 1..b |-> IF n = 1 THEN start[1] ELSE f[n - 1] + Len(batches[n - 1])]
           offset == CHOOSE f : f = equation(f)
           first == [n \in 1..b |-> start[n]]
<1>1. Len(batches) \in Nat /\ b \in Nat /\ 1 <= b /\ b <= Len(batches)
  BY LenProperties
<1>2. first = equation(first)
  <2>1. \A n \in 1..b : start[n] = IF n = 1 THEN start[1] ELSE first[n - 1] + Len(batches[n - 1])
    <3> TAKE n \in 1..b
    <3>1. CASE n = 1
      BY <3>1
    <3>2. CASE n # 1
      <4>1. n - 1 \in 1..b /\ n - 1 \in 1..Len(batches) /\ (n - 1) + 1 = n
        BY <1>1, <3>2
      <4>2. start[(n - 1) + 1] = start[n - 1] + Len(batches[n - 1])
        BY <4>1
      <4>3. QED
        BY <3>2, <4>1, <4>2
    <3>3. QED
      BY <3>1, <3>2
  <2>2. QED
    BY <2>1
<1>3. offset = equation(offset)
  <2> HIDE DEF equation
  <2>1. \E f : f = equation(f)
    BY <1>2
  <2>2. QED
    BY <2>1
<1>4. Offset(batches, b, start[1]) = offset[b]
  BY DEF Offset
<1> HIDE DEF offset
<1>5. \A n \in 1..b : offset[n] = IF n = 1 THEN start[1] ELSE offset[n - 1] + Len(batches[n - 1])
  BY <1>3
<1> HIDE DEF equation, first
<1> DEFINE bad == {n \in 1..b : offset[n] # start[n]}
<1>6. bad = {}
  <2> SUFFICES ASSUME bad # {} PROVE FALSE
    OBVIOUS
  <2>1. PICK n \in bad : \A m \in bad : n <= m
    <3>1. bad \in SUBSET Nat
      OBVIOUS
    <3> HIDE DEF bad
    <3>2. QED
      BY <3>1, Smallest
  <2>2. n \in 1..b /\ n \in Nat /\ offset[n] # start[n] /\ n # 1
    BY <1>5
  <2>3. n - 1 \in 1..b /\ ~(n <= n - 1) /\ n - 1 \in 1..Len(batches) /\ (n - 1) + 1 = n
    BY <1>1, <2>2
  <2>4. offset[n - 1] = start[n - 1]
    BY <2>1, <2>3
  <2>5. start[(n - 1) + 1] = start[n - 1] + Len(batches[n - 1])
    BY <2>3
  <2>6. offset[n] = offset[n - 1] + Len(batches[n - 1])
    BY <1>5, <2>2
  <2>7. QED
    BY <2>2, <2>3, <2>4, <2>5, <2>6
<1>7. b \in 1..b
  BY <1>1
<1>8. QED
  BY <1>4, <1>6, <1>7

LEMMA CutTypes ==
  ASSUME NEW runs, NEW start, NEW base \in Nat, NEW top \in Nat, Cut(runs, start, base, top)
  PROVE  /\ Len(runs) \in Nat /\ DOMAIN runs = 1..Len(runs)
         /\ start \in [1..(Len(runs) + 1) -> Nat] /\ base <= top
         /\ runs = <<>> => base = top
<1>1. Len(runs) \in Nat /\ DOMAIN runs = 1..Len(runs)
  BY LenProperties DEF Cut
<1>2. \A n \in 1..(Len(runs) + 1) : start[n] \in base..top
  BY DEF Cut
<1>3. \A n \in 1..(Len(runs) + 1) : start[n] \in Nat
  BY <1>2
<1>4. start \in [1..(Len(runs) + 1) -> Nat] /\ base <= top
  BY <1>1, <1>2, <1>3 DEF Cut
<1>5. runs = <<>> => base = top
  <2>1. runs = <<>> => Len(runs) = 0
    BY EmptySeq
  <2>2. QED
    BY <2>1 DEF Cut
<1>6. QED
  BY <1>1, <1>4, <1>5

LEMMA ARun ==
  ASSUME NEW runs, NEW start, NEW base \in Nat, NEW top \in Nat, Cut(runs, start, base, top),
         NEW b \in 1..Len(runs)
  PROVE  /\ start[b] \in Nat /\ start[b + 1] \in Nat /\ start[b] < start[b + 1]
         /\ base <= start[b] /\ start[b + 1] <= top
         /\ runs[b] = Between(start[b], start[b + 1]) /\ runs[b] \in Seq(Nat)
         /\ Len(runs[b]) = start[b + 1] - start[b]
<1>1. b \in 1..(Len(runs) + 1) /\ b + 1 \in 1..(Len(runs) + 1)
  BY CutTypes
<1>2. start[b] < start[b + 1] /\ runs[b] = Between(start[b], start[b + 1])
  BY DEF Cut
<1>3. start[b] \in base..top /\ start[b + 1] \in base..top
  BY <1>1 DEF Cut
<1>4. start[b] \in Nat /\ start[b + 1] \in Nat /\ start[b] <= start[b + 1]
      /\ base <= start[b] /\ start[b + 1] <= top
  BY <1>2, <1>3
<1>5. Between(start[b], start[b + 1]) \in Seq(Nat)
      /\ Len(Between(start[b], start[b + 1])) = start[b + 1] - start[b]
  BY <1>4, BetweenIsAList
<1>6. QED
  BY <1>2, <1>4, <1>5

LEMMA ARunFromZero ==
  ASSUME NEW runs, NEW start, NEW top \in Nat, Cut(runs, start, 0, top), NEW b \in 1..Len(runs)
  PROVE  /\ start[b] \in Nat /\ start[b + 1] \in Nat /\ start[b] < start[b + 1]
         /\ start[b + 1] <= top /\ runs[b] = Between(start[b], start[b + 1])
<1>1. 0 \in Nat
  OBVIOUS
<1>2. QED
  BY <1>1, ARun

(* Runs put together are what was cut.                                     *)
LEMMA FlattenedCut ==
  ASSUME NEW runs, NEW start, NEW base \in Nat, NEW top \in Nat, Cut(runs, start, base, top)
  PROVE  FlattenSeq(runs) = Between(base, top)
<1> DEFINE N == Len(runs)
           equation(f) == [n \in 1..N |-> IF n = 1 THEN runs[n] ELSE f[n - 1] \o runs[n]]
           flatten == CHOOSE f : f = equation(f)
           upTo == [n \in 1..N |-> Between(base, start[n + 1])]
<1> HIDE DEF equation, flatten, upTo
<1>1. /\ N \in Nat
      /\ \A n \in 1..N :
           /\ start[n] \in Nat /\ start[n + 1] \in Nat /\ start[n] < start[n + 1]
           /\ base <= start[n] /\ runs[n] = Between(start[n], start[n + 1])
  BY CutTypes, ARun
<1> USE DEF equation, flatten, upTo
<1>2. start[1] = base /\ start[N + 1] = top /\ runs \in Seq(Seq(Nat))
  BY DEF Cut
<1>3. CASE N = 0
  <2>1. FlattenSeq(runs) = runs /\ runs = <<>>
    BY <1>2, <1>3, EmptySeq DEF FlattenSeq
  <2>2. base = top
    BY <1>2, <1>3
  <2>3. Between(base, top) = <<>>
    BY <2>2, BetweenIsAList
  <2>4. QED
    BY <2>1, <2>3
<1>4. CASE N # 0
  <2>1. upTo = equation(upTo)
    <3>1. \A n \in 1..N :
            Between(base, start[n + 1]) = IF n = 1 THEN runs[n] ELSE upTo[n - 1] \o runs[n]
      <4> TAKE n \in 1..N
      <4>1. CASE n = 1
        BY <1>1, <1>2, <4>1
      <4>2. CASE n # 1
        <5>1. n - 1 \in 1..N /\ (n - 1) + 1 = n
          BY <1>1, <4>2
        <5>2. upTo[n - 1] = Between(base, start[n])
          BY <5>1
        <5>3. Between(base, start[n]) \o Between(start[n], start[n + 1]) = Between(base, start[n + 1])
          <6>1. start[n] \in Nat /\ start[n + 1] \in Nat /\ base <= start[n] /\ start[n] <= start[n + 1]
            BY <1>1
          <6>2. QED
            BY <6>1, ConcatBetween
        <5>4. QED
          BY <1>1, <4>2, <5>2, <5>3
      <4>3. QED
        BY <4>1, <4>2
    <3>2. QED
      BY <3>1
  <2>2. flatten = equation(flatten)
    <3> HIDE DEF equation
    <3>1. \E f : f = equation(f)
      BY <2>1
    <3>2. QED
      BY <3>1
  <2>3. FlattenSeq(runs) = flatten[N]
    BY <1>4 DEF FlattenSeq
  <2> HIDE DEF flatten
  <2>4. \A n \in 1..N : flatten[n] = IF n = 1 THEN runs[n] ELSE flatten[n - 1] \o runs[n]
    BY <2>2
  <2>5. \A n \in 1..N : upTo[n] = IF n = 1 THEN runs[n] ELSE upTo[n - 1] \o runs[n]
    <3>1. \A n \in 1..N : upTo[n] = equation(upTo)[n]
      BY <2>1, Zenon
    <3>2. QED
      BY <3>1
  <2>6. upTo[N] = Between(base, top)
    BY <1>1, <1>2, <1>4
  <2> HIDE DEF equation, upTo, N
  <2> DEFINE bad == {n \in 1..N : flatten[n] # upTo[n]}
  <2>7. bad = {}
    <3> SUFFICES ASSUME bad # {} PROVE FALSE
      OBVIOUS
    <3>1. PICK n \in bad : \A m \in bad : n <= m
      <4>1. bad \in SUBSET Nat
        OBVIOUS
      <4> HIDE DEF bad
      <4>2. QED
        BY <4>1, Smallest
    <3>2. n \in 1..N /\ n \in Nat /\ flatten[n] # upTo[n] /\ n # 1
      BY <2>4, <2>5
    <3>3. n - 1 \in 1..N /\ ~(n <= n - 1)
      BY <1>1, <3>2
    <3>4. flatten[n - 1] = upTo[n - 1]
      BY <3>1, <3>3
    <3>5. QED
      BY <2>4, <2>5, <3>2, <3>4
  <2>8. N \in 1..N
    BY <1>1, <1>4
  <2>9. QED
    BY <2>3, <2>6, <2>7, <2>8
<1>5. QED
  BY <1>3, <1>4

-----------------------------------------------------------------------------
(* Sizes *)

LEMMA ARecordsBytes ==
  ASSUME TypeOK, NEW dimension \in Nat, NEW i \in 1..Count
  PROVE  RecordBytes(i, dimension) \in Nat
<1>1. bytes[i] \in Nat /\ ComponentBytes \in Nat
  BY WriteAssumption DEF TypeOK
<1>2. dimension * ComponentBytes \in Nat
  BY <1>1
<1>3. QED
  BY <1>1, <1>2 DEF RecordBytes

(* The bytes of some records are summed up one record at a time.           *)
LEMMA BytesByTerms ==
  ASSUME TypeOK, NEW dimension \in Nat, NEW m \in Nat, NEW n \in Nat, m <= n, n <= Count
  PROVE  \E sum \in [0..(n - m) -> Nat] :
           /\ sum[0] = 0
           /\ \A p \in 1..(n - m) : sum[p] = sum[p - 1] + RecordBytes(m + p, dimension)
           /\ BodyBytes(Between(m, n), dimension) = sum[n - m]
<1> DEFINE N == n - m
           records == Between(m, n)
           step == [p \in Nat \X Nat |-> p[2] + RecordBytes(records[p[1]], dimension)]
           equation(f) ==
             [p \in 0..N |-> IF p = 0 THEN 0 ELSE f[p - 1] + RecordBytes(records[p], dimension)]
           sum == CHOOSE f : f = equation(f)
<1>1. N \in Nat /\ Count \in Nat
  BY LenProperties DEF TypeOK, Count
<1>2. Len(records) = N /\ \A p \in 1..N : records[p] = m + p
  BY BetweenIsAList
<1> HIDE DEF records
<1>3. \A p \in 1..N : RecordBytes(records[p], dimension) \in Nat
  <2> TAKE p \in 1..N
  <2>1. m + p \in 1..Count
    BY <1>1
  <2>2. QED
    BY <1>2, <2>1, ARecordsBytes
<1>4. ASSUME NEW p \in 1..N, NEW s \in Nat
      PROVE  step[<<p, s>>] = s + RecordBytes(records[p], dimension) /\ step[<<p, s>>] \in Nat
  <2>1. <<p, s>> \in Nat \X Nat /\ <<p, s>>[1] = p /\ <<p, s>>[2] = s
    BY <1>1
  <2>2. step[<<p, s>>] = s + RecordBytes(records[p], dimension)
    BY <2>1
  <2>3. QED
    BY <1>3, <2>2
<1> HIDE DEF step, N
<1>5. PICK f : Iterates(f, Nat, 0, step, N)
  <2>1. \A p \in 1..N : \A s \in Nat : step[<<p, s>>] \in Nat
    BY <1>4
  <2>2. 0 \in Nat
    OBVIOUS
  <2>3. QED
    BY <1>1, <2>1, <2>2, Iteration
<1>6. f = equation(f)
  <2>1. \A p \in 0..N : f[p] = IF p = 0 THEN 0 ELSE f[p - 1] + RecordBytes(records[p], dimension)
    <3> TAKE p \in 0..N
    <3>1. CASE p = 0
      BY <1>5, <3>1 DEF Iterates
    <3>2. CASE p # 0
      <4>1. p \in 1..N /\ p - 1 \in 0..N
        BY <1>1, <3>2
      <4>2. f[p - 1] \in Nat
        BY <1>5, <4>1 DEF Iterates
      <4>3. QED
        BY <1>4, <1>5, <3>2, <4>1, <4>2 DEF Iterates
    <3>3. QED
      BY <3>1, <3>2
  <2>2. f = [p \in 0..N |-> f[p]]
    BY <1>5 DEF Iterates
  <2>3. QED
    BY <2>1, <2>2
<1>7. sum = equation(sum)
  <2> HIDE DEF equation
  <2>1. \E g : g = equation(g)
    BY <1>6
  <2>2. QED
    BY <2>1
<1>8. BodyBytes(records, dimension) = sum[N]
  BY <1>2 DEF BodyBytes
<1> HIDE DEF sum
<1>9. sum = [p \in 0..N |-> sum[p]]
  BY <1>7
<1>10. \A p \in 0..N : sum[p] = IF p = 0 THEN 0 ELSE sum[p - 1] + RecordBytes(records[p], dimension)
  BY <1>7
<1> HIDE DEF equation
<1>11. sum[0] = 0 /\ \A p \in 1..N : sum[p] = sum[p - 1] + RecordBytes(records[p], dimension)
  <2>1. 0 \in 0..N /\ \A p \in 1..N : p \in 0..N /\ p # 0
    BY <1>1
  <2>2. QED
    BY <1>10, <2>1
<1>12. \A p \in 0..N : sum[p] \in Nat
  <2> DEFINE bad == {p \in 0..N : sum[p] \notin Nat}
  <2> SUFFICES ASSUME bad # {} PROVE FALSE
    OBVIOUS
  <2>1. PICK p \in bad : \A q \in bad : p <= q
    <3>1. bad \in SUBSET Nat
      OBVIOUS
    <3> HIDE DEF bad
    <3>2. QED
      BY <3>1, Smallest
  <2>2. p \in 0..N /\ p \in Nat /\ sum[p] \notin Nat /\ p # 0
    BY <1>11
  <2>3. p - 1 \in 0..N /\ ~(p <= p - 1) /\ p \in 1..N
    BY <1>1, <2>2
  <2>4. sum[p - 1] \in Nat
    BY <2>1, <2>3
  <2>5. QED
    BY <1>3, <1>11, <2>2, <2>3, <2>4
<1>13. sum \in [0..N -> Nat]
  BY <1>9, <1>12
<1>14. sum[0] = 0 /\ \A p \in 1..N : sum[p] = sum[p - 1] + RecordBytes(m + p, dimension)
  BY <1>2, <1>11
<1>15. QED
  BY <1>8, <1>13, <1>14 DEF N, records

(* One record more adds its own bytes.                                     *)
LEMMA BytesGrow ==
  ASSUME TypeOK, NEW dimension \in Nat, NEW m \in Nat, NEW n \in Nat, m <= n, n <= Count
  PROVE  /\ BodyBytes(Between(m, n), dimension) \in Nat
         /\ m = n => BodyBytes(Between(m, n), dimension) = 0
         /\ n < Count => BodyBytes(Between(m, n + 1), dimension)
                           = BodyBytes(Between(m, n), dimension) + RecordBytes(n + 1, dimension)
<1> DEFINE N == n - m
<1>1. N \in Nat /\ Count \in Nat /\ m + (N + 1) = n + 1 /\ (n + 1) - m = N + 1
  BY LenProperties DEF TypeOK, Count
<1>2. PICK s \in [0..N -> Nat] :
        /\ s[0] = 0 /\ \A p \in 1..N : s[p] = s[p - 1] + RecordBytes(m + p, dimension)
        /\ BodyBytes(Between(m, n), dimension) = s[N]
  BY BytesByTerms
<1>3. ASSUME n < Count
      PROVE  BodyBytes(Between(m, n + 1), dimension)
               = BodyBytes(Between(m, n), dimension) + RecordBytes(n + 1, dimension)
  <2>1. n + 1 \in Nat /\ m <= n + 1 /\ n + 1 <= Count
    BY <1>1, <1>3
  <2>2. PICK t \in [0..((n + 1) - m) -> Nat] :
        /\ t[0] = 0 /\ \A p \in 1..((n + 1) - m) : t[p] = t[p - 1] + RecordBytes(m + p, dimension)
        /\ BodyBytes(Between(m, n + 1), dimension) = t[(n + 1) - m]
    BY <2>1, BytesByTerms
  <2> HIDE DEF N
  <2> DEFINE bad == {p \in 0..N : s[p] # t[p]}
  <2>3. bad = {}
    <3> SUFFICES ASSUME bad # {} PROVE FALSE
      OBVIOUS
    <3>1. PICK p \in bad : \A q \in bad : p <= q
      <4>1. bad \in SUBSET Nat
        OBVIOUS
      <4> HIDE DEF bad
      <4>2. QED
        BY <4>1, Smallest
    <3>2. p \in 0..N /\ p \in Nat /\ s[p] # t[p] /\ p # 0
      BY <1>2, <2>2
    <3>3. p - 1 \in 0..N /\ ~(p <= p - 1) /\ p \in 1..N /\ p \in 1..((n + 1) - m)
      BY <1>1, <3>2
    <3>4. s[p - 1] = t[p - 1]
      BY <3>1, <3>3
    <3>5. QED
      BY <1>2, <2>2, <3>2, <3>3, <3>4
  <2>4. N \in 0..N /\ N + 1 \in 1..((n + 1) - m) /\ (N + 1) - 1 = N
    BY <1>1
  <2>5. t[N + 1] = t[N] + RecordBytes(n + 1, dimension)
    BY <1>1, <2>2, <2>4
  <2>6. QED
    BY <1>1, <1>2, <2>2, <2>3, <2>4, <2>5
<1>4. N \in 0..N /\ (m = n => N = 0)
  BY <1>1
<1>5. QED
  BY <1>2, <1>3, <1>4

-----------------------------------------------------------------------------
(* Runs *)

(* s says where the runs r1 begin, as s1 does, and then the runs r2.       *)
Joined(s, r1, s1, r2, s2) ==
  /\ \A b \in 1..(Len(r1) + 1) : s[b] = s1[b]
  /\ \A b \in 1..(Len(r2) + 1) : s[Len(r1) + b] = s2[b]

(* What is cut up to where other runs begin, goes on with them.            *)
LEMMA JoinedCuts ==
  ASSUME NEW r1, NEW r2, NEW s1, NEW s2, NEW l \in Nat, NEW m \in Nat, NEW n \in Nat,
         Cut(r1, s1, l, m), Cut(r2, s2, m, n)
  PROVE  \E s : Cut(r1 \o r2, s, l, n) /\ Joined(s, r1, s1, r2, s2)
<1> DEFINE L1 == Len(r1)
           L2 == Len(r2)
           r == r1 \o r2
           s == [b \in 1..(L1 + L2 + 1) |-> IF b <= L1 THEN s1[b] ELSE s2[b - L1]]
<1>1. /\ L1 \in Nat /\ s1[1] = l /\ s1[L1 + 1] = m /\ l <= m
      /\ \A b \in 1..L1 : /\ s1[b] \in Nat /\ s1[b + 1] \in Nat /\ s1[b] < s1[b + 1]
                          /\ l <= s1[b] /\ s1[b + 1] <= m /\ r1[b] = Between(s1[b], s1[b + 1])
  <2>1. s1[1] = l /\ s1[L1 + 1] = m
    BY DEF Cut
  <2> HIDE DEF r, s
  <2>2. L1 \in Nat /\ l <= m
    BY CutTypes
  <2>3. \A b \in 1..L1 : /\ s1[b] \in Nat /\ s1[b + 1] \in Nat /\ s1[b] < s1[b + 1]
                       /\ l <= s1[b] /\ s1[b + 1] <= m /\ r1[b] = Between(s1[b], s1[b + 1])
    BY ARun
  <2>4. QED
    BY <2>1, <2>2, <2>3
<1>2. /\ L2 \in Nat /\ s2[1] = m /\ s2[L2 + 1] = n /\ m <= n
      /\ \A b \in 1..L2 : /\ s2[b] \in Nat /\ s2[b + 1] \in Nat /\ s2[b] < s2[b + 1]
                          /\ m <= s2[b] /\ s2[b + 1] <= n /\ r2[b] = Between(s2[b], s2[b + 1])
  <2>1. s2[1] = m /\ s2[L2 + 1] = n
    BY DEF Cut
  <2> HIDE DEF r, s
  <2>2. L2 \in Nat /\ m <= n
    BY CutTypes
  <2>3. \A b \in 1..L2 : /\ s2[b] \in Nat /\ s2[b + 1] \in Nat /\ s2[b] < s2[b + 1]
                       /\ m <= s2[b] /\ s2[b + 1] <= n /\ r2[b] = Between(s2[b], s2[b + 1])
    BY ARun
  <2>4. QED
    BY <2>1, <2>2, <2>3
<1>3. /\ r \in Seq(Seq(Nat)) /\ Len(r) = L1 + L2
      /\ \A b \in 1..(L1 + L2) : r[b] = IF b <= L1 THEN r1[b] ELSE r2[b - L1]
  <2>1. r1 \in Seq(Seq(Nat)) /\ r2 \in Seq(Seq(Nat))
    BY DEF Cut
  <2>2. QED
    BY <2>1, ConcatProperties
<1>4. \A b \in 1..(L1 + 1) : s[b] = s1[b]
  <2> TAKE b \in 1..(L1 + 1)
  <2>1. b \in 1..(L1 + L2 + 1)
    BY <1>1, <1>2
  <2>2. CASE b <= L1
    BY <2>1, <2>2
  <2>3. CASE b = L1 + 1
    <3>1. ~(b <= L1) /\ b - L1 = 1
      BY <1>1, <2>3
    <3>2. QED
      BY <1>1, <1>2, <2>1, <2>3, <3>1
  <2>4. QED
    BY <1>1, <2>2, <2>3
<1>5. \A b \in 1..(L2 + 1) : s[L1 + b] = s2[b]
  <2> TAKE b \in 1..(L2 + 1)
  <2>1. L1 + b \in 1..(L1 + L2 + 1) /\ ~(L1 + b <= L1) /\ (L1 + b) - L1 = b
    BY <1>1, <1>2
  <2>2. QED
    BY <2>1
<1> HIDE DEF s, r
<1>6. ASSUME NEW b \in 1..(L1 + L2)
      PROVE  /\ s[b] \in Nat /\ s[b + 1] \in Nat /\ s[b] < s[b + 1] /\ l <= s[b] /\ s[b + 1] <= n
             /\ r[b] = Between(s[b], s[b + 1])
  <2>1. CASE b <= L1
    <3>1. b \in 1..L1 /\ b \in 1..(L1 + 1) /\ b + 1 \in 1..(L1 + 1)
      BY <1>1, <2>1
    <3>2. r[b] = r1[b]
      BY <1>3, <2>1
    <3>3. s[b] = s1[b] /\ s[b + 1] = s1[b + 1]
      BY <1>4, <3>1
    <3>4. s1[b + 1] <= m /\ s1[b + 1] \in Nat
      BY <1>1, <3>1
    <3>5. s1[b + 1] <= n
      BY <1>2, <3>4
    <3>6. QED
      BY <1>1, <3>1, <3>2, <3>3, <3>5
  <2>2. CASE ~(b <= L1)
    <3> DEFINE c == b - L1
    <3>1. c \in 1..L2 /\ c \in 1..(L2 + 1) /\ c + 1 \in 1..(L2 + 1) /\ L1 + c = b /\ L1 + (c + 1) = b + 1
      BY <1>1, <1>2, <2>2
    <3>2. r[b] = r2[c]
      BY <1>3, <2>2
    <3> HIDE DEF c
    <3>3. s[b] = s2[c] /\ s[b + 1] = s2[c + 1]
      BY <1>5, <3>1
    <3>4. m <= s2[c] /\ s2[c] \in Nat
      BY <1>2, <3>1
    <3>5. l <= s2[c]
      BY <1>1, <3>4
    <3>6. QED
      BY <1>2, <3>1, <3>2, <3>3, <3>5
  <2>3. QED
    BY <2>1, <2>2
<1>7. s[1] = l /\ s[L1 + L2 + 1] = n /\ l <= n
  <2>1. 1 \in 1..(L1 + 1) /\ L2 + 1 \in 1..(L2 + 1) /\ L1 + (L2 + 1) = L1 + L2 + 1
    BY <1>1, <1>2
  <2>2. s[1] = s1[1] /\ s[L1 + (L2 + 1)] = s2[L2 + 1]
    BY <1>4, <1>5, <2>1
  <2>3. QED
    BY <1>1, <1>2, <2>1, <2>2
<1>8. s \in [1..(Len(r) + 1) -> l..n]
  <2>1. \A b \in 1..(L1 + L2 + 1) : s[b] \in l..n
    <3> TAKE b \in 1..(L1 + L2 + 1)
    <3>1. CASE b = L1 + L2 + 1
      BY <1>7, <3>1
    <3>2. CASE b # L1 + L2 + 1
      <4>1. b \in 1..(L1 + L2)
        <5>1. L1 \in Nat /\ L2 \in Nat
          BY <1>1, <1>2
        <5> HIDE DEF L1, L2
        <5>2. QED
          BY <3>2, <5>1
      <4>2. s[b] \in Nat /\ l <= s[b] /\ s[b] < s[b + 1] /\ s[b + 1] <= n /\ s[b + 1] \in Nat
        BY <1>6, <4>1
      <4>3. QED
        BY <4>2
    <3>3. QED
      BY <3>1, <3>2
  <2>2. s = [b \in 1..(L1 + L2 + 1) |-> s[b]]
    BY DEF s
  <2>3. QED
    BY <1>3, <2>1, <2>2
<1>9. Cut(r, s, l, n)
  BY <1>3, <1>6, <1>7, <1>8 DEF Cut
<1>10. QED
  BY <1>4, <1>5, <1>9 DEF r, Joined

(* One more run is closed.                                                 *)
LEMMA ClosedRun ==
  ASSUME NEW runs, NEW start, NEW base \in Nat, NEW m \in Nat, NEW n \in Nat, NEW top,
         NEW dimension, NEW size,
         Cut(runs, start, base, m), Packed(runs, start, top, dimension, size),
         m < n, n - m <= size, n - m = 1 \/ BodyBytes(Between(m, n), dimension) <= Budget,
         \/ n = top \/ n - m = size
         \/ BodyBytes(Between(m, n + 1), dimension) > Budget
  PROVE  \E s : /\ Cut(Append(runs, Between(m, n)), s, base, n)
                /\ Packed(Append(runs, Between(m, n)), s, top, dimension, size)
<1> DEFINE L == Len(runs)
           run == Between(m, n)
           both == Append(runs, run)
           two == [b \in 1..2 |-> IF b = 1 THEN m ELSE n]
<1>1. L \in Nat
  BY CutTypes
<1>2. run \in Seq(Nat) /\ Len(run) = n - m
  <2>1. m <= n
    OBVIOUS
  <2>2. QED
    BY <2>1, BetweenIsAList
<1> HIDE DEF run
<1>3. runs \in Seq(Seq(Nat))
  BY DEF Cut
<1>4. <<run>> \in Seq(Seq(Nat)) /\ Len(<<run>>) = 1 /\ <<run>>[1] = run
  BY <1>2
<1>5. both = runs \o <<run>>
  BY <1>2, <1>3, AppendIsConcat
<1>6. /\ Len(both) = L + 1 /\ both[L + 1] = run
      /\ \A b \in 1..L : both[b] = runs[b]
  BY <1>2, <1>3, AppendProperties
<1>7. Cut(<<run>>, two, m, n)
  <2>1. two \in [1..2 -> m..n] /\ two[1] = m /\ two[2] = n
    OBVIOUS
  <2> HIDE DEF two
  <2>2. \A b \in 1..1 : two[b] < two[b + 1] /\ <<run>>[b] = Between(two[b], two[b + 1])
    BY <1>4, <2>1 DEF run
  <2>3. QED
    BY <1>4, <2>1, <2>2 DEF Cut
<1>8. two[1] = m /\ two[2] = n
  OBVIOUS
<1> HIDE DEF two, both
<1>9. PICK s : Cut(runs \o <<run>>, s, base, n) /\ Joined(s, runs, start, <<run>>, two)
  BY <1>7, JoinedCuts
<1>10. s[L + 1] = m /\ s[(L + 1) + 1] = n
  <2>1. 1 \in 1..(Len(<<run>>) + 1) /\ 2 \in 1..(Len(<<run>>) + 1) /\ L + 2 = (L + 1) + 1
    BY <1>1, <1>4
  <2>2. QED
    BY <1>8, <1>9, <2>1 DEF Joined
<1>11. ASSUME NEW b \in 1..(L + 1)
       PROVE  /\ Len(both[b]) <= size
              /\ Len(both[b]) = 1 \/ BodyBytes(both[b], dimension) <= Budget
              /\ \/ s[b + 1] = top \/ Len(both[b]) = size
                 \/ BodyBytes(Between(s[b], s[b + 1] + 1), dimension) > Budget
  <2>1. CASE b = L + 1
    BY <1>2, <1>6, <1>10, <2>1 DEF run
  <2>2. CASE b # L + 1
    <3>1. b \in 1..L /\ b \in 1..(L + 1) /\ b + 1 \in 1..(L + 1)
      BY <1>1, <2>2
    <3>2. both[b] = runs[b] /\ s[b] = start[b] /\ s[b + 1] = start[b + 1]
      BY <1>6, <1>9, <3>1 DEF Joined
    <3>3. QED
      BY <3>1, <3>2 DEF Packed
  <2>3. QED
    BY <2>1, <2>2
<1>12. Packed(both, s, top, dimension, size)
  BY <1>6, <1>11 DEF Packed
<1>13. Cut(both, s, base, n)
  BY <1>5, <1>9
<1>14. QED
  BY <1>12, <1>13 DEF both, run

(* What requestRuns holds when it has taken the numbers after `base`, up   *)
(* to n: whole runs, and the one it is filling.                            *)
Taken(acc, n, base, top, dimension, size) ==
  \E start : \E m \in base..n :
    /\ Cut(acc.runs, start, base, m) /\ Packed(acc.runs, start, top, dimension, size)
    /\ acc.run = Between(m, n) /\ acc.bytes = BodyBytes(acc.run, dimension)
    /\ n - m <= size /\ (n - m <= 1 \/ acc.bytes <= Budget)
    /\ n > base => m < n

LEMMA TakeNext ==
  ASSUME TypeOK, NEW base \in Nat, NEW top \in Nat, top <= Count, NEW n \in base..top, n < top,
         NEW dimension \in Nat, NEW size \in Nat \ {0},
         NEW acc, Taken(acc, n, base, top, dimension, size)
  PROVE  Taken(Take(acc, n + 1, dimension, size), n + 1, base, top, dimension, size)
<1> DEFINE add == RecordBytes(n + 1, dimension)
           closed == acc.run # <<>> /\ (Len(acc.run) >= size \/ acc.bytes + add > Budget)
           next == Take(acc, n + 1, dimension, size)
<1>1. /\ Count \in Nat /\ n \in Nat /\ n + 1 \in Nat /\ n + 1 \in 1..Count /\ n < Count
      /\ n <= Count /\ n + 1 <= Count /\ Budget \in Nat /\ size \in Nat /\ size >= 1
  BY WriteAssumption, LenProperties DEF TypeOK, Count
<1>2. PICK start : \E m \in base..n :
        /\ Cut(acc.runs, start, base, m) /\ Packed(acc.runs, start, top, dimension, size)
        /\ acc.run = Between(m, n) /\ acc.bytes = BodyBytes(acc.run, dimension)
        /\ n - m <= size /\ (n - m <= 1 \/ acc.bytes <= Budget)
        /\ n > base => m < n
  BY DEF Taken
<1>3. PICK m \in base..n :
        /\ Cut(acc.runs, start, base, m) /\ Packed(acc.runs, start, top, dimension, size)
        /\ acc.run = Between(m, n) /\ acc.bytes = BodyBytes(acc.run, dimension)
        /\ n - m <= size /\ (n - m <= 1 \/ acc.bytes <= Budget)
        /\ n > base => m < n
  BY <1>2
<1>4. m \in Nat /\ m <= n
  BY <1>1
<1>5. Len(acc.run) = n - m /\ (acc.run = <<>> <=> m = n)
  BY <1>1, <1>3, <1>4, BetweenIsAList
<1>6. /\ acc.bytes \in Nat /\ BodyBytes(Between(m, n + 1), dimension) = acc.bytes + add
      /\ m = n => acc.bytes = 0
  BY <1>1, <1>3, <1>4, BytesGrow
<1>7. BodyBytes(Between(n, n + 1), dimension) = add
  <2>1. /\ BodyBytes(Between(n, n), dimension) = 0
        /\ BodyBytes(Between(n, n + 1), dimension) = BodyBytes(Between(n, n), dimension) + add
    BY <1>1, BytesGrow
  <2>2. add \in Nat
    BY <1>1, ARecordsBytes
  <2>3. QED
    BY <2>1, <2>2
<1>8. add \in Nat
  BY <1>1, ARecordsBytes
<1>9. CASE closed
  <2>1. /\ next.runs = Append(acc.runs, Between(m, n)) /\ next.run = <<n + 1>>
        /\ next.bytes = add
    BY <1>3, <1>9 DEF Take
  <2>2. m < n /\ (n - m = size \/ BodyBytes(Between(m, n + 1), dimension) > Budget)
    BY <1>1, <1>3, <1>4, <1>5, <1>6, <1>9
  <2>3. n - m = 1 \/ BodyBytes(Between(m, n), dimension) <= Budget
    BY <1>1, <1>3, <1>4, <2>2
  <2>4. PICK s : /\ Cut(Append(acc.runs, Between(m, n)), s, base, n)
                 /\ Packed(Append(acc.runs, Between(m, n)), s, top, dimension, size)
    BY <1>1, <1>3, <1>4, <2>2, <2>3, ClosedRun
  <2>5. next.run = Between(n, n + 1)
    <3>1. (n + 1) - n = 1 /\ n + 1 \in Nat /\ n <= n + 1
      BY <1>1
    <3>2. <<n + 1>> \in Seq(Nat) /\ Len(<<n + 1>>) = (n + 1) - n
          /\ \A i \in 1..((n + 1) - n) : <<n + 1>>[i] = n + i
      BY <3>1
    <3>3. QED
      BY <1>1, <2>1, <3>1, <3>2, IsBetween
  <2>6. n \in base..(n + 1) /\ (n + 1) - n <= size /\ (n + 1) - n <= 1 /\ n < n + 1
    BY <1>1
  <2> HIDE DEF next
  <2>7. QED
    BY <1>7, <2>1, <2>4, <2>5, <2>6 DEF Taken, next
<1>10. CASE ~closed
  <2>1. /\ next.runs = acc.runs /\ next.run = Append(acc.run, n + 1)
        /\ next.bytes = acc.bytes + add
    BY <1>10 DEF Take
  <2>2. next.run = Between(m, n + 1)
    BY <1>1, <1>3, <1>4, <2>1, AppendBetween
  <2>3. next.bytes = BodyBytes(next.run, dimension)
    BY <1>6, <2>1, <2>2
  <2>4. (n + 1) - m <= size /\ ((n + 1) - m <= 1 \/ next.bytes <= Budget)
    BY <1>1, <1>4, <1>5, <1>6, <1>8, <1>10, <2>1
  <2>5. m \in base..(n + 1) /\ m < n + 1
    BY <1>1, <1>4
  <2> HIDE DEF next
  <2>6. QED
    BY <1>3, <2>1, <2>2, <2>3, <2>4, <2>5 DEF Taken, next
<1>11. QED
  BY <1>9, <1>10

(* requestRuns cuts consecutive records into runs that are packed.         *)
LEMMA RequestRunsCut ==
  ASSUME TypeOK, NEW base \in Nat, NEW top \in Nat, base <= top, top <= Count,
         NEW dimension \in Nat, NEW size \in Nat \ {0}
  PROVE  \E start :
           /\ Cut(RequestRuns(Between(base, top), dimension, size), start, base, top)
           /\ Packed(RequestRuns(Between(base, top), dimension, size), start, top, dimension, size)
<1> DEFINE N == top - base
           records == Between(base, top)
           none == [runs |-> <<>>, run |-> <<>>, bytes |-> 0]
           equation(f) ==
             [p \in 0..N |-> IF p = 0 THEN none ELSE Take(f[p - 1], records[p], dimension, size)]
           after == CHOOSE f : f = equation(f)
           end == after[N]
           Accs == [runs : Seq(Seq(Nat)), run : Seq(Nat), bytes : Nat]
           step == [p \in Nat \X Accs |-> Take(p[2], records[p[1]], dimension, size)]
<1>1. N \in Nat /\ Count \in Nat /\ N \in 0..N /\ 0 \in 0..N
  BY LenProperties DEF TypeOK, Count
<1>2. Len(records) = N /\ \A p \in 1..N : records[p] = base + p
  BY BetweenIsAList
<1>3. RequestRuns(records, dimension, size)
        = IF end.run = <<>> THEN end.runs ELSE Append(end.runs, end.run)
  BY <1>2 DEF RequestRuns
<1> HIDE DEF records, N
<1>4. none \in Accs
  OBVIOUS
<1>5. ASSUME NEW p \in 1..N, NEW acc \in Accs
      PROVE  Take(acc, records[p], dimension, size) \in Accs
  <2>1. base + p \in 1..Count /\ base + p \in Nat
    BY <1>1 DEF N
  <2>2. RecordBytes(records[p], dimension) \in Nat /\ records[p] \in Nat
    BY <1>2, <2>1, ARecordsBytes
  <2>3. /\ acc.runs \in Seq(Seq(Nat)) /\ acc.run \in Seq(Nat) /\ acc.bytes \in Nat
    OBVIOUS
  <2>4. /\ Append(acc.runs, acc.run) \in Seq(Seq(Nat)) /\ <<records[p]>> \in Seq(Nat)
        /\ Append(acc.run, records[p]) \in Seq(Nat)
        /\ acc.bytes + RecordBytes(records[p], dimension) \in Nat
    BY <2>2, <2>3, AppendProperties
  <2>5. QED
    BY <2>2, <2>3, <2>4 DEF Take
<1> HIDE DEF none, Accs
<1>6. ASSUME NEW p \in 1..N, NEW acc \in Accs
      PROVE  /\ step[<<p, acc>>] = Take(acc, records[p], dimension, size)
             /\ step[<<p, acc>>] \in Accs
  <2>1. <<p, acc>> \in Nat \X Accs /\ <<p, acc>>[1] = p /\ <<p, acc>>[2] = acc
    BY <1>1
  <2>2. step[<<p, acc>>] = Take(acc, records[p], dimension, size)
    BY <2>1
  <2>3. QED
    BY <1>5, <2>2
<1> HIDE DEF step
<1>7. PICK f : Iterates(f, Accs, none, step, N)
  BY <1>1, <1>4, <1>6, Iteration
<1>8. f = equation(f)
  <2>1. \A p \in 0..N : f[p] = IF p = 0 THEN none ELSE Take(f[p - 1], records[p], dimension, size)
    <3> TAKE p \in 0..N
    <3>1. CASE p = 0
      BY <1>7, <3>1 DEF Iterates
    <3>2. CASE p # 0
      <4>1. p \in 1..N /\ p - 1 \in 0..N
        BY <1>1, <3>2
      <4>2. f[p - 1] \in Accs /\ f[p] = step[<<p, f[p - 1]>>]
        BY <1>7, <4>1 DEF Iterates
      <4>3. QED
        BY <1>6, <3>2, <4>1, <4>2
    <3>3. QED
      BY <3>1, <3>2
  <2>2. f = [p \in 0..N |-> f[p]]
    BY <1>7 DEF Iterates
  <2>3. QED
    BY <2>1, <2>2
<1>9. after = equation(after)
  <2> HIDE DEF equation
  <2>1. \E g : g = equation(g)
    BY <1>8
  <2>2. QED
    BY <2>1
<1> HIDE DEF after
<1>10. \A p \in 0..N : after[p] = IF p = 0 THEN none ELSE Take(after[p - 1], records[p], dimension, size)
  BY <1>9
<1>11. /\ after[0] = none
       /\ \A p \in 1..N : after[p] = Take(after[p - 1], records[p], dimension, size)
  <2>1. \A p \in 1..N : p \in 0..N /\ p # 0
    BY <1>1
  <2>2. QED
    BY <1>1, <1>10, <2>1
<1> HIDE DEF equation
<1>12. Taken(none, base, base, top, dimension, size)
  <2>1. Cut(<<>>, [b \in 1..1 |-> base], base, base)
    <3>1. <<>> \in Seq(Seq(Nat)) /\ Len(<<>>) = 0
      BY EmptySeq
    <3>2. QED
      BY <3>1 DEF Cut
  <2>2. Packed(<<>>, [b \in 1..1 |-> base], top, dimension, size)
    <3>1. Len(<<>>) = 0
      OBVIOUS
    <3>2. QED
      BY <3>1 DEF Packed
  <2>3. <<>> = Between(base, base) /\ base - base = 0 /\ base \in base..base
    BY BetweenIsAList
  <2>4. BodyBytes(Between(base, base), dimension) = 0
    BY <1>1, BytesGrow
  <2>5. PICK start : start = [b \in 1..1 |-> base]
    OBVIOUS
  <2>6. none.runs = <<>> /\ none.run = <<>> /\ none.bytes = 0
    BY DEF none
  <2>7. QED
    BY <2>1, <2>2, <2>3, <2>4, <2>5, <2>6 DEF Taken
<1>13. \A p \in 0..N : Taken(after[p], base + p, base, top, dimension, size)
  <2> DEFINE bad == {p \in 0..N : ~Taken(after[p], base + p, base, top, dimension, size)}
  <2> SUFFICES ASSUME bad # {} PROVE FALSE
    OBVIOUS
  <2>1. PICK p \in bad : \A q \in bad : p <= q
    <3>1. bad \in SUBSET Nat
      OBVIOUS
    <3> HIDE DEF bad
    <3>2. QED
      BY <3>1, Smallest
  <2>2. p \in 0..N /\ p \in Nat /\ ~Taken(after[p], base + p, base, top, dimension, size)
    OBVIOUS
  <2>3. p # 0
    <3>1. base + 0 = base
      OBVIOUS
    <3>2. QED
      BY <1>11, <1>12, <2>2, <3>1
  <2>4. /\ p - 1 \in 0..N /\ ~(p <= p - 1) /\ p \in 1..N
        /\ base + (p - 1) \in base..top /\ base + (p - 1) < top /\ (base + (p - 1)) + 1 = base + p
    BY <1>1, <2>2, <2>3 DEF N
  <2>5. Taken(after[p - 1], base + (p - 1), base, top, dimension, size)
    BY <2>1, <2>4
  <2> HIDE DEF bad
  <2>6. Taken(Take(after[p - 1], (base + (p - 1)) + 1, dimension, size), (base + (p - 1)) + 1,
              base, top, dimension, size)
    BY <2>4, <2>5, TakeNext
  <2>7. QED
    BY <1>2, <1>11, <2>2, <2>4, <2>6
<1>14. Taken(end, top, base, top, dimension, size)
  <2>1. base + N = top
    BY DEF N
  <2>2. QED
    BY <1>1, <1>13, <2>1
<1> HIDE DEF end
<1>15. PICK start : \E m \in base..top :
         /\ Cut(end.runs, start, base, m) /\ Packed(end.runs, start, top, dimension, size)
         /\ end.run = Between(m, top) /\ end.bytes = BodyBytes(end.run, dimension)
         /\ top - m <= size /\ (top - m <= 1 \/ end.bytes <= Budget)
         /\ top > base => m < top
  BY <1>14 DEF Taken
<1>16. PICK m \in base..top :
         /\ Cut(end.runs, start, base, m) /\ Packed(end.runs, start, top, dimension, size)
         /\ end.run = Between(m, top) /\ end.bytes = BodyBytes(end.run, dimension)
         /\ top - m <= size /\ (top - m <= 1 \/ end.bytes <= Budget)
         /\ top > base => m < top
  BY <1>15
<1>17. m \in Nat /\ m <= top /\ (end.run = <<>> <=> m = top)
  BY <1>16, BetweenIsAList
<1>18. CASE end.run = <<>>
  BY <1>3, <1>16, <1>17, <1>18 DEF records
<1>19. CASE end.run # <<>>
  <2>1. m < top /\ (top - m = 1 \/ BodyBytes(Between(m, top), dimension) <= Budget)
    BY <1>16, <1>17, <1>19
  <2>2. RequestRuns(records, dimension, size) = Append(end.runs, Between(m, top))
    BY <1>3, <1>16, <1>19
  <2>3. \E s : /\ Cut(Append(end.runs, Between(m, top)), s, base, top)
               /\ Packed(Append(end.runs, Between(m, top)), s, top, dimension, size)
    BY <1>16, <1>17, <2>1, ClosedRun
  <2>4. QED
    BY <2>2, <2>3 DEF records
<1>20. QED
  BY <1>18, <1>19

-----------------------------------------------------------------------------
(* Requests *)

(* The requests made of runs, where each is put at its start.              *)
Requested(runs, start) == [b \in 1..Len(runs) |-> Put(runs[b], start[b], runs[b])]

ARequest == [records : Seq(Nat), vectors : Seq(Nat), reported : Seq(AnId)]

Multiples ==
  \A n \in Nat, size \in Nat \ {0} :
    /\ n * size \in Nat /\ (n + 1) * size = n * size + size
    /\ (n * size) % size = 0 /\ (n * size) \div size = n
    /\ \A m \in Nat : m >= n * size => m \div size >= n

LEMMA MultiplesDivide == Multiples
<1> SUFFICES ASSUME NEW n \in Nat, NEW size \in Nat \ {0}
             PROVE  /\ n * size \in Nat /\ (n + 1) * size = n * size + size
                    /\ (n * size) % size = 0 /\ (n * size) \div size = n
                    /\ \A m \in Nat : m >= n * size => m \div size >= n
  BY DEF Multiples
<1>1. n * size \in Nat
  OBVIOUS
<1>2. (n + 1) * size = n * size + size
  OBVIOUS
<1>3. (n * size) % size = 0
  OBVIOUS
<1>4. (n * size) \div size = n
  OBVIOUS
<1>5. ASSUME NEW m \in Nat, m >= n * size PROVE m \div size >= n
  BY <1>5
<1>6. QED
  BY <1>1, <1>2, <1>3, <1>4, <1>5

(* A request of consecutive documents, put where they begin, pairs each    *)
(* with its vector and its id.                                             *)
LEMMA PutMeans ==
  ASSUME TypeOK, Len(ids) = Count, NEW m \in Nat, NEW n \in Nat, m <= n, n <= Count
  PROVE  /\ Put(Between(m, n), m, Between(m, n)) \in ARequest
         /\ Put(Between(m, n), m, Between(m, n)).records = Between(m, n)
         /\ Put(Between(m, n), m, Between(m, n)).vectors = Between(m, n)
         /\ Put(Between(m, n), m, Between(m, n)).reported
              = [i \in DOMAIN Between(m, n) |-> ids[Between(m, n)[i]]]
<1> DEFINE run == Between(m, n)
           kept == SubSeq(ids, m + 1, n)
<1>1. /\ run \in Seq(Nat) /\ Len(run) = n - m /\ DOMAIN run = 1..(n - m)
      /\ \A i \in 1..(n - m) : run[i] = m + i
  BY BetweenIsAList
<1>2. ids \in Seq(AnId) /\ Count \in Nat /\ n - m \in Nat
  BY LenProperties DEF TypeOK, Count
<1> HIDE DEF run
<1>3. Slice(ids, m, Len(run)) = kept
  <2>1. Smaller(m + Len(run), Len(ids)) = n
    BY <1>1, <1>2 DEF Smaller
  <2>2. QED
    BY <2>1 DEF Slice
<1>4. \A i \in (m + 1)..n : ids[i] \in AnId
  <2>1. \A i \in (m + 1)..n : i \in 1..Len(ids)
    BY <1>2
  <2>2. QED
    BY <1>2, <2>1, ElementOfSeq
<1>5. /\ kept \in Seq(AnId) /\ Len(kept) = IF m + 1 <= n THEN n - (m + 1) + 1 ELSE 0
      /\ \A i \in 1..(n - (m + 1) + 1) : kept[i] = ids[(m + 1) + i - 1]
  BY <1>4, SubSeqProperties
<1> HIDE DEF kept
<1>6. Len(kept) = n - m
  BY <1>5
<1>7. \A i \in 1..(n - m) : kept[i] = ids[run[i]]
  <2> TAKE i \in 1..(n - m)
  <2>1. i \in 1..(n - (m + 1) + 1) /\ (m + 1) + i - 1 = m + i
    BY <1>2
  <2>2. QED
    BY <1>1, <1>5, <2>1
<1>8. kept = [i \in DOMAIN run |-> ids[run[i]]]
  <2>1. kept = [i \in 1..(n - m) |-> kept[i]]
    BY <1>5, <1>6, LenProperties
  <2>2. QED
    BY <1>1, <1>7, <2>1
<1>9. Put(run, m, run) = [records |-> run, vectors |-> run, reported |-> kept]
  BY <1>3 DEF Put
<1>10. QED
  BY <1>1, <1>5, <1>8, <1>9 DEF ARequest, run

LEMMA RequestedMeans ==
  ASSUME TypeOK, Len(ids) = Count, NEW base \in Nat, NEW top \in Nat, top <= Count,
         NEW runs, NEW start, Cut(runs, start, base, top)
  PROVE  /\ Requested(runs, start) \in Seq(ARequest) /\ Len(Requested(runs, start)) = Len(runs)
         /\ \A b \in 1..Len(runs) :
              /\ Requested(runs, start)[b].records = runs[b]
              /\ Requested(runs, start)[b].vectors = runs[b]
              /\ Requested(runs, start)[b].reported = [i \in DOMAIN runs[b] |-> ids[runs[b][i]]]
<1> DEFINE made == Requested(runs, start)
<1>1. Len(runs) \in Nat /\ Count \in Nat
  BY CutTypes, LenProperties DEF TypeOK, Count
<1>2. ASSUME NEW b \in 1..Len(runs)
      PROVE  /\ made[b] \in ARequest /\ made[b].records = runs[b] /\ made[b].vectors = runs[b]
             /\ made[b].reported = [i \in DOMAIN runs[b] |-> ids[runs[b][i]]]
  <2>1. /\ start[b] \in Nat /\ start[b + 1] \in Nat /\ start[b] < start[b + 1]
        /\ start[b + 1] <= top /\ runs[b] = Between(start[b], start[b + 1])
    BY ARun
  <2>2. start[b] <= start[b + 1] /\ start[b + 1] <= Count
    BY <1>1, <2>1
  <2>3. made[b] = Put(Between(start[b], start[b + 1]), start[b], Between(start[b], start[b + 1]))
    BY <2>1 DEF Requested
  <2> HIDE DEF made
  <2>4. QED
    BY <2>1, <2>2, <2>3, PutMeans
<1>3. made = [b \in 1..Len(runs) |-> made[b]]
  BY DEF Requested
<1> HIDE DEF made
<1>4. made \in Seq(ARequest) /\ Len(made) = Len(runs)
  <2>1. made \in [1..Len(runs) -> ARequest]
    BY <1>2, <1>3
  <2>2. QED
    BY <1>1, <2>1
<1>5. QED
  BY <1>2, <1>4 DEF made

(* What it is for a request of consecutive documents to fit.               *)
LEMMA FitsMeans ==
  ASSUME batchSize \in Nat, NEW m \in Nat, NEW n \in Nat, m < n, NEW embedded, NEW dimension
  PROVE  Fits(Between(m, n), embedded, dimension) <=>
           /\ n - m <= batchSize
           /\ n - m = 1 \/ BodyBytes(Between(m, n), dimension) <= Budget
           /\ \/ n + 1 > embedded \/ n - m = batchSize
              \/ embeds /\ n % batchSize = 0
              \/ BodyBytes(Between(m, n + 1), dimension) > Budget
<1> DEFINE run == Between(m, n)
<1>1. Len(run) = n - m /\ run[n - m] = n
  <2>1. m <= n /\ n - m \in 1..(n - m) /\ m + (n - m) = n
    OBVIOUS
  <2>2. QED
    BY <2>1, BetweenIsAList
<1>2. Append(run, n + 1) = Between(m, n + 1)
  <2>1. m <= n
    OBVIOUS
  <2>2. QED
    BY <2>1, AppendBetween
<1>3. Len(run) \in 1..batchSize <=> n - m <= batchSize
  BY <1>1
<1> HIDE DEF run
<1>4. Last(run) = n
  BY <1>1 DEF Last
<1>5. Fits(run, embedded, dimension) <=>
        /\ n - m <= batchSize
        /\ n - m = 1 \/ BodyBytes(run, dimension) <= Budget
        /\ \/ n + 1 > embedded \/ n - m = batchSize
           \/ embeds /\ n % batchSize = 0
           \/ BodyBytes(Between(m, n + 1), dimension) > Budget
  BY <1>1, <1>2, <1>3, <1>4, Zenon DEF Fits
<1>6. QED
  BY <1>5 DEF run

LEMMA SameFits ==
  ASSUME UNCHANGED input, NEW run, NEW embedded, NEW dimension
  PROVE  Fits(run, embedded, dimension)' <=> Fits(run, embedded, dimension)
BY DEF input, Fits, BodyBytes, RecordBytes

-----------------------------------------------------------------------------
(* Types, and the requests so far *)

(* Requests after others.                                                  *)
LEMMA MoreRequests ==
  ASSUME NEW old \in Seq(ARequest), NEW new \in Seq(ARequest)
  PROVE  /\ old \o new \in Seq(ARequest) /\ Len(old \o new) = Len(old) + Len(new)
         /\ \A q \in 1..(Len(old) + Len(new)) :
              (old \o new)[q] = IF q <= Len(old) THEN old[q] ELSE new[q - Len(old)]
BY ConcatProperties

(* The runs of the next documents, put one by one, go on where the         *)
(* requests so far end.                                                    *)
LEMMA RunsSent ==
  ASSUME TypeOK, Len(ids) = Count, batchSize > 0, PairedUp, RequestsFit, UNCHANGED <<input, ids>>,
         NEW done \in Nat, NEW top \in Nat, top <= Count, NEW dimension \in Nat, NEW size,
         NEW runs, NEW start, Cut(runs, start, done, top), Packed(runs, start, top, dimension, size),
         size = batchSize \/ (size = top - done /\ size <= batchSize),
         NEW sent, Cut(RecordsSent, sent, 0, done),
         done > 0 => /\ embeds /\ done % batchSize = 0
                     /\ Len(dimensions) = done /\ dimensions[1] = dimension,
         requests' = requests \o Requested(runs, start),
         Len(dimensions') = top, dimensions'[1] = dimension
  PROVE  /\ requests' \in Seq(ARequest) /\ (\E s : Cut(RecordsSent', s, 0, top))
         /\ PairedUp' /\ RequestsFit'
<1> DEFINE L == Len(requests)
           M == Len(runs)
           made == Requested(runs, start)
<1>1. /\ requests \in Seq(ARequest) /\ L \in Nat /\ M \in Nat /\ DOMAIN requests = 1..L
      /\ Count \in Nat /\ batchSize \in Nat /\ done <= top
  BY CutTypes, LenProperties DEF TypeOK, Count, ARequest
<1>2. /\ made \in Seq(ARequest) /\ Len(made) = M
      /\ \A b \in 1..M :
           /\ made[b].records = runs[b] /\ made[b].vectors = runs[b]
           /\ made[b].reported = [i \in DOMAIN runs[b] |-> ids[runs[b][i]]]
  BY RequestedMeans
<1> HIDE DEF made
<1>3. /\ requests' \in Seq(ARequest) /\ Len(requests') = L + M
      /\ \A q \in 1..(L + M) : requests'[q] = IF q <= L THEN requests[q] ELSE made[q - L]
  <2>1. requests' = requests \o made
    BY DEF made
  <2>2. PICK old, new : old = requests /\ new = made
    OBVIOUS
  <2>3. old \in Seq(ARequest) /\ new \in Seq(ARequest) /\ Len(old) = L /\ Len(new) = M
    BY <1>1, <1>2, <2>2
  <2>4. /\ old \o new \in Seq(ARequest) /\ Len(old \o new) = Len(old) + Len(new)
        /\ \A q \in 1..(Len(old) + Len(new)) :
             (old \o new)[q] = IF q <= Len(old) THEN old[q] ELSE new[q - Len(old)]
    BY <2>3, MoreRequests
  <2>5. requests' = old \o new
    BY <2>1, <2>2
  <2>6. QED
    BY <2>2, <2>3, <2>4, <2>5
<1>4. DOMAIN requests' = 1..(L + M)
  BY <1>3, LenProperties
<1>5. ASSUME NEW q \in 1..(L + M)
      PROVE  \/ q \in 1..L /\ requests'[q] = requests[q]
             \/ q - L \in 1..M /\ requests'[q] = made[q - L]
  BY <1>1, <1>3
<1>6. RecordsSent \in Seq(Seq(Nat)) /\ Len(RecordsSent) = L
      /\ \A q \in 1..L : RecordsSent[q] = requests[q].records
  <2>1. RecordsSent = [q \in 1..L |-> requests[q].records]
    BY <1>1 DEF RecordsSent
  <2>2. Len(RecordsSent) = L
    BY <1>1, <2>1
  <2>3. QED
    BY <2>1, <2>2 DEF Cut
<1>7. RecordsSent' = RecordsSent \o runs
  <2> DEFINE joined == RecordsSent \o runs
             now == RecordsSent'
  <2>1. runs \in Seq(Seq(Nat))
    BY DEF Cut
  <2>2. /\ joined \in Seq(Seq(Nat)) /\ Len(joined) = L + M
        /\ \A q \in 1..(L + M) : joined[q] = IF q <= L THEN RecordsSent[q] ELSE runs[q - L]
    <3>1. /\ joined \in Seq(Seq(Nat)) /\ Len(joined) = Len(RecordsSent) + Len(runs)
          /\ \A q \in 1..(Len(RecordsSent) + Len(runs)) :
               joined[q] = IF q <= Len(RecordsSent) THEN RecordsSent[q] ELSE runs[q - Len(RecordsSent)]
      BY <1>6, <2>1, ConcatProperties
    <3>2. QED
      BY <1>6, <3>1
  <2>3. now = [q \in 1..(L + M) |-> requests'[q].records]
    BY <1>4 DEF RecordsSent
  <2> HIDE DEF joined, now
  <2>4. \A q \in 1..(L + M) : now[q] = joined[q]
    <3> TAKE q \in 1..(L + M)
    <3>1. CASE q \in 1..L /\ requests'[q] = requests[q]
      <4>1. q <= L /\ joined[q] = RecordsSent[q]
        BY <1>1, <2>2, <3>1
      <4>2. RecordsSent[q] = requests[q].records /\ now[q] = requests'[q].records
        BY <1>6, <2>3, <3>1
      <4>3. QED
        BY <3>1, <4>1, <4>2
    <3>2. CASE q - L \in 1..M /\ requests'[q] = made[q - L]
      <4>1. ~(q <= L)
        BY <1>1, <3>2
      <4>2. QED
        BY <1>2, <2>2, <2>3, <3>2, <4>1
    <3>3. QED
      BY <1>5, <3>1, <3>2
  <2>5. joined = [q \in 1..(L + M) |-> joined[q]]
    BY <2>2, LenProperties
  <2>6. now = joined
    BY <2>3, <2>4, <2>5
  <2>7. QED
    BY <2>6 DEF now, joined
<1>8. \E s : Cut(RecordsSent', s, 0, top)
  <2>1. \E s : Cut(RecordsSent \o runs, s, 0, top) /\ Joined(s, RecordsSent, sent, runs, start)
    BY JoinedCuts
  <2>2. QED
    BY <1>7, <2>1
<1>9. PairedUp'
  <2>1. ASSUME NEW q \in 1..(L + M)
        PROVE  /\ requests'[q].vectors = requests'[q].records
               /\ requests'[q].reported
                    = [i \in DOMAIN requests'[q].records |-> ids'[requests'[q].records[i]]]
    <3>1. CASE q \in 1..L /\ requests'[q] = requests[q]
      <4>1. /\ requests[q].vectors = requests[q].records
            /\ requests[q].reported = [i \in DOMAIN requests[q].records |-> ids[requests[q].records[i]]]
        BY <1>1, <3>1 DEF PairedUp
      <4>2. QED
        BY <3>1, <4>1
    <3>2. CASE q - L \in 1..M /\ requests'[q] = made[q - L]
      <4>1. /\ made[q - L].records = runs[q - L] /\ made[q - L].vectors = runs[q - L]
            /\ made[q - L].reported = [i \in DOMAIN runs[q - L] |-> ids[runs[q - L][i]]]
        BY <1>2, <3>2
      <4>2. QED
        BY <3>2, <4>1
    <3>3. QED
      BY <1>5, <3>1, <3>2
  <2>2. QED
    BY <1>4, <2>1 DEF PairedUp
<1>10. ASSUME NEW q \in 1..L PROVE Fits(requests[q].records, top, dimension)
  <2>1. q \in 1..Len(RecordsSent) /\ requests[q].records = RecordsSent[q]
    BY <1>6
  <2>2. PICK m \in Nat, n \in Nat :
          m < n /\ n <= done /\ requests[q].records = Between(m, n)
    <3>1. PICK old : old = RecordsSent
      OBVIOUS
    <3>2. 0 \in Nat /\ q \in 1..Len(old) /\ Cut(old, sent, 0, done)
      BY <2>1, <3>1
    <3>3. /\ sent[q] \in Nat /\ sent[q + 1] \in Nat /\ sent[q] < sent[q + 1] /\ sent[q + 1] <= done
          /\ old[q] = Between(sent[q], sent[q + 1])
      BY <3>2, ARunFromZero
    <3>4. QED
      BY <2>1, <3>1, <3>3
  <2>3. /\ embeds /\ done % batchSize = 0 /\ Len(dimensions) = done /\ dimensions[1] = dimension
    BY <2>2
  <2>4. Fits(Between(m, n), done, dimension)
    BY <1>1, <2>2, <2>3 DEF RequestsFit
  <2>5. n + 1 > done => n % batchSize = 0
    BY <2>2, <2>3
  <2>6. Fits(Between(m, n), top, dimension)
    BY <1>1, <2>2, <2>3, <2>4, <2>5, FitsMeans
  <2>7. QED
    BY <2>2, <2>6
<1>11. ASSUME NEW b \in 1..M PROVE Fits(runs[b], top, dimension)
  <2>1. /\ start[b] \in Nat /\ start[b + 1] \in Nat /\ start[b] < start[b + 1] /\ done <= start[b]
        /\ start[b + 1] <= top /\ runs[b] = Between(start[b], start[b + 1])
        /\ Len(runs[b]) = start[b + 1] - start[b]
    BY ARun
  <2>2. /\ Len(runs[b]) <= size
        /\ Len(runs[b]) = 1 \/ BodyBytes(runs[b], dimension) <= Budget
        /\ \/ start[b + 1] = top \/ Len(runs[b]) = size
           \/ BodyBytes(Between(start[b], start[b + 1] + 1), dimension) > Budget
    BY DEF Packed
  <2>3. start[b + 1] - start[b] <= batchSize
    BY <1>1, <2>1, <2>2
  <2>4. Len(runs[b]) = size => start[b + 1] - start[b] = batchSize \/ start[b + 1] = top
    <3>1. PICK from \in Nat, to \in Nat : from = start[b] /\ to = start[b + 1]
      BY <2>1
    <3>2. CASE size = batchSize
      BY <2>1, <3>2
    <3>3. CASE size = top - done
      <4>1. done <= from /\ to <= top /\ Len(runs[b]) = to - from
        BY <2>1, <3>1
      <4>2. Len(runs[b]) = size => to = top
        BY <3>3, <4>1
      <4>3. QED
        BY <3>1, <4>2
    <3>4. QED
      BY <3>2, <3>3
  <2>5. \/ start[b + 1] - start[b] = 1
        \/ BodyBytes(Between(start[b], start[b + 1]), dimension) <= Budget
    BY <2>1, <2>2
  <2>6. \/ start[b + 1] + 1 > top \/ start[b + 1] - start[b] = batchSize
        \/ BodyBytes(Between(start[b], start[b + 1] + 1), dimension) > Budget
    BY <2>1, <2>2, <2>4
  <2>7. Fits(Between(start[b], start[b + 1]), top, dimension)
    BY <1>1, <2>1, <2>3, <2>5, <2>6, FitsMeans
  <2>8. QED
    BY <2>1, <2>7
<1>12. ASSUME NEW q \in 1..(L + M) PROVE Fits(requests'[q].records, top, dimension)
  <2>1. CASE q \in 1..L /\ requests'[q] = requests[q]
    BY <1>10, <2>1
  <2>2. CASE q - L \in 1..M /\ requests'[q] = made[q - L]
    BY <1>2, <1>11, <2>2
  <2>3. QED
    BY <1>5, <2>1, <2>2
<1>13. RequestsFit'
  <2>1. SUFFICES ASSUME NEW q \in 1..(L + M)
                 PROVE  Fits(requests[q].records, Len(dimensions), dimensions[1])'
    BY <1>4 DEF RequestsFit
  <2>2. PICK run : run = requests'[q].records
    OBVIOUS
  <2>3. Fits(run, top, dimension)
    BY <1>12, <2>2
  <2>4. Fits(run, top, dimension)'
    BY <2>3, SameFits
  <2>5. QED
    BY <2>2, <2>4
<1>14. QED
  BY <1>3, <1>8, <1>9, <1>13

LEMMA SlicedRun ==
  ASSUME NEW base \in Nat, NEW top \in Nat, NEW runs, NEW start, Cut(runs, start, base, top),
         NEW b \in 1..Len(runs)
  PROVE  /\ start[b] - base \in Nat /\ base + (start[b] - base) = start[b]
         /\ Slice(Between(base, top), start[b] - base, Len(runs[b])) = runs[b]
<1>1. /\ start[b] \in Nat /\ start[b + 1] \in Nat /\ start[b] < start[b + 1]
      /\ base <= start[b] /\ start[b + 1] <= top
      /\ runs[b] = Between(start[b], start[b + 1]) /\ Len(runs[b]) = start[b + 1] - start[b]
  BY ARun
<1> DEFINE o == start[b] - base
           l == Len(runs[b])
<1>2. o \in Nat /\ l \in Nat /\ base + o = start[b] /\ base + o <= top /\ base + o + l = start[b + 1]
  BY <1>1
<1> HIDE DEF o, l
<1>3. Slice(Between(base, top), o, l) = Between(base + o, Smaller(base + o + l, top))
  BY <1>2, SliceOfBetween
<1>4. Smaller(base + o + l, top) = start[b + 1]
  BY <1>1, <1>2 DEF Smaller
<1>5. Slice(Between(base, top), o, l) = runs[b]
  BY <1>1, <1>2, <1>3, <1>4
<1>6. QED
  BY <1>2, <1>5 DEF o, l

(* Within a batch, the runs follow each other from 0.                      *)
LEMMA OffsetInBatch ==
  ASSUME NEW base \in Nat, NEW top \in Nat, NEW runs, NEW start, Cut(runs, start, base, top),
         NEW b \in 1..Len(runs)
  PROVE  Offset(runs, b, 0) = start[b] - base
<1> DEFINE local == [n \in 1..(Len(runs) + 1) |-> start[n] - base]
<1>1. runs \in Seq(Seq(Nat)) /\ Len(runs) \in Nat /\ start[1] = base
      /\ \A n \in 1..(Len(runs) + 1) : start[n] \in base..top
  BY CutTypes DEF Cut
<1>2. local \in [1..(Len(runs) + 1) -> Nat]
  BY <1>1
<1>3. ASSUME NEW n \in 1..Len(runs) PROVE local[n + 1] = local[n] + Len(runs[n])
  <2>1. n \in 1..(Len(runs) + 1) /\ n + 1 \in 1..(Len(runs) + 1)
    BY <1>1
  <2>2. start[n] \in Nat /\ start[n + 1] \in Nat /\ Len(runs[n]) = start[n + 1] - start[n]
        /\ base <= start[n]
    BY ARun
  <2>3. QED
    BY <2>1, <2>2
<1>4. 1 \in 1..(Len(runs) + 1) /\ b \in 1..(Len(runs) + 1)
  BY <1>1
<1>5. local[1] = 0 /\ local[b] = start[b] - base
  BY <1>1, <1>4
<1> HIDE DEF local
<1>6. Offset(runs, b, local[1]) = local[b]
  BY <1>1, <1>2, <1>3, OffsetIsStart
<1>7. QED
  BY <1>5, <1>6

(* So do those of addVectors after the first, from where it ends.          *)
LEMMA OffsetAfterFirst ==
  ASSUME NEW top \in Nat, NEW runs, NEW start, Cut(runs, start, 0, top), NEW b \in 1..Len(runs), b # 1
  PROVE  Offset(Tail(runs), b - 1, Len(runs[1])) = start[b]
<1> DEFINE rest == Tail(runs)
           next == [n \in 1..Len(runs) |-> start[n + 1]]
<1>1. runs \in Seq(Seq(Nat)) /\ Len(runs) \in Nat /\ start[1] = 0
      /\ start \in [1..(Len(runs) + 1) -> Nat]
  <2>1. 0 \in Nat
    OBVIOUS
  <2>2. Len(runs) \in Nat /\ start \in [1..(Len(runs) + 1) -> Nat]
    BY <2>1, CutTypes
  <2>3. QED
    BY <2>2 DEF Cut
<1>2. runs # <<>>
  BY <1>1, EmptySeq
<1>3. rest \in Seq(Seq(Nat)) /\ Len(rest) = Len(runs) - 1
      /\ \A n \in 1..Len(rest) : rest[n] = runs[n + 1]
  BY <1>1, <1>2, HeadTailProperties
<1> HIDE DEF rest
<1>4. next \in [1..(Len(rest) + 1) -> Nat]
  BY <1>1, <1>3
<1>5. ASSUME NEW n \in 1..Len(runs)
      PROVE  start[n] \in Nat /\ start[n + 1] \in Nat /\ Len(runs[n]) = start[n + 1] - start[n]
  <2>1. 0 \in Nat
    OBVIOUS
  <2>2. QED
    BY <2>1, ARun
<1>6. ASSUME NEW n \in 1..Len(rest) PROVE next[n + 1] = next[n] + Len(rest[n])
  <2>1. n \in 1..Len(runs) /\ n + 1 \in 1..Len(runs)
    BY <1>1, <1>3
  <2>2. next[n + 1] = start[(n + 1) + 1] /\ next[n] = start[n + 1] /\ rest[n] = runs[n + 1]
    BY <1>3, <2>1
  <2>3. start[(n + 1) + 1] \in Nat /\ start[n + 1] \in Nat
        /\ Len(runs[n + 1]) = start[(n + 1) + 1] - start[n + 1]
    BY <1>5, <2>1
  <2> HIDE DEF next
  <2>4. QED
    BY <2>2, <2>3
<1>7. b - 1 \in 1..Len(rest) /\ 1 \in 1..Len(runs) /\ b - 1 \in 1..Len(runs) /\ (b - 1) + 1 = b
  BY <1>1, <1>3
<1>8. next[1] = start[1 + 1] /\ next[b - 1] = start[b]
  BY <1>7
<1>9. Len(runs[1]) = next[1]
  BY <1>1, <1>5, <1>7, <1>8
<1> HIDE DEF next
<1>10. Offset(rest, b - 1, next[1]) = next[b - 1]
  BY <1>3, <1>4, <1>6, <1>7, OffsetIsStart
<1>11. QED
  BY <1>8, <1>9, <1>10 DEF rest

LEMMA PositionsAre == ASSUME TypeOK PROVE Positions = Between(0, Count) /\ Count \in Nat
<1>1. Count \in Nat
  BY LenProperties DEF TypeOK, Count
<1>2. Count - 0 = Count /\ \A i \in 1..Count : 0 + i = i
  BY <1>1
<1>3. QED
  BY <1>1, <1>2 DEF Positions, Between

(* Before anything has been sent, there is no request.                     *)
LEMMA NoneSent ==
  ASSUME TypeOK, NEW sent, Cut(RecordsSent, sent, 0, 0)
  PROVE  requests = <<>>
<1>1. Len(requests) \in Nat /\ DOMAIN requests = 1..Len(requests)
  BY LenProperties DEF TypeOK
<1>2. RecordsSent = [q \in 1..Len(requests) |-> requests[q].records]
  BY <1>1 DEF RecordsSent
<1>3. Len(RecordsSent) = Len(requests)
  BY <1>1, <1>2
<1>4. Len(requests) = 0
  <2> SUFFICES ASSUME Len(requests) # 0 PROVE FALSE
    OBVIOUS
  <2>1. PICK list : list = RecordsSent
    OBVIOUS
  <2>2. 0 \in Nat /\ 1 \in 1..Len(list) /\ Cut(list, sent, 0, 0)
    BY <1>1, <1>3, <2>1
  <2>3. sent[1] \in Nat /\ sent[1 + 1] \in Nat /\ sent[1] < sent[1 + 1] /\ sent[1 + 1] <= 0
    BY <2>2, ARunFromZero
  <2>4. QED
    BY <2>3
<1>5. QED
  BY <1>4, EmptySeq DEF TypeOK

LEMMA WriteVectorsRequests ==
  ASSUME IInv, WriteVectors
  PROVE  \E start, sent :
           /\ Cut(RequestRuns(Between(0, Count), dimensions[1], batchSize), start, 0, Count)
           /\ Packed(RequestRuns(Between(0, Count), dimensions[1], batchSize), start, Count,
                     dimensions[1], batchSize)
           /\ Cut(RecordsSent, sent, 0, 0) /\ requests = <<>>
           /\ requests' = requests
                \o Requested(RequestRuns(Between(0, Count), dimensions[1], batchSize), start)
<1> DEFINE runs == RequestRuns(Between(0, Count), dimensions[1], batchSize)
           offset == [b \in 1..Len(runs) |-> IF b = 1 THEN 0
                                               ELSE Offset(Tail(runs), b - 1, Len(runs[1]))]
<1>1. /\ TypeOK /\ Count \in Nat /\ pc = "writing" /\ ~embeds /\ Count > 0
      /\ Len(dimensions) = Count /\ batchSize \in Nat \ {0}
      /\ Positions = Between(0, Count) /\ 0 \in Nat /\ 0 <= Count /\ Count <= Count
  BY PositionsAre DEF IInv, WriteVectors, BatchInv, DimensionInv, AcceptedInv, TypeOK
<1>2. dimensions[1] \in Nat
  BY <1>1, ElementOfSeq DEF TypeOK
<1>3. PICK start :
        /\ Cut(runs, start, 0, Count) /\ Packed(runs, start, Count, dimensions[1], batchSize)
  BY <1>1, <1>2, RequestRunsCut
<1>4. PICK sent : Cut(RecordsSent, sent, 0, 0)
  <2>1. Done = 0
    BY <1>1 DEF Done
  <2>2. QED
    BY <2>1 DEF IInv, SentInv
<1>5. requests = <<>>
  BY <1>1, <1>4, NoneSent
<1>6. requests' = [b \in 1..Len(runs) |->
                     Put(runs[b], offset[b], Slice(Between(0, Count), offset[b], Len(runs[b])))]
  BY <1>1 DEF WriteVectors
<1> DEFINE made == requests'
<1> HIDE DEF runs, offset, made
<1>7. ASSUME NEW b \in 1..Len(runs)
      PROVE  offset[b] = start[b] /\ Slice(Between(0, Count), offset[b], Len(runs[b])) = runs[b]
  <2>1. offset[b] = start[b]
    <3>1. CASE b = 1
      BY <1>3, <3>1 DEF offset, Cut
    <3>2. CASE b # 1
      <4>1. offset[b] = Offset(Tail(runs), b - 1, Len(runs[1]))
        BY <3>2 DEF offset
      <4>2. QED
        BY <1>1, <1>3, <3>2, <4>1, OffsetAfterFirst
    <3>3. QED
      BY <3>1, <3>2
  <2>2. Slice(Between(0, Count), start[b] - 0, Len(runs[b])) = runs[b] /\ start[b] - 0 \in Nat
        /\ 0 + (start[b] - 0) = start[b]
    BY <1>1, <1>3, SlicedRun
  <2>3. start[b] \in Nat
    BY <1>1, <1>3, ARun
  <2>4. start[b] - 0 = start[b]
    BY <2>3
  <2>5. QED
    BY <2>1, <2>2, <2>4
<1>8. made = Requested(runs, start)
  BY <1>6, <1>7 DEF made, Requested
<1>9. Requested(runs, start) \in Seq(ARequest)
  <2>1. Len(ids) = Count
    BY <1>1 DEF IInv, AcceptedInv
  <2>2. QED
    BY <1>1, <1>3, <2>1, RequestedMeans
<1>10. <<>> \o Requested(runs, start) = Requested(runs, start)
  BY <1>9, ConcatEmptySeq
<1>11. QED
  BY <1>3, <1>4, <1>5, <1>8, <1>10 DEF made, runs

(* A step that changes neither the requests nor what has been embedded.    *)
LEMMA Apart ==
  ASSUME IInv, UNCHANGED <<input, ids, requests>>
  PROVE  PairedUp' /\ (UNCHANGED dimensions => RequestsFit')
         /\ (Done' = Done => SentInv') /\ Count' = Count
<1>1. PairedUp'
  BY DEF IInv, PairedUp
<1>2. UNCHANGED dimensions => RequestsFit'
  <2> SUFFICES ASSUME UNCHANGED dimensions, NEW q \in DOMAIN requests'
               PROVE  Fits(requests[q].records, Len(dimensions), dimensions[1])'
    BY DEF RequestsFit
  <2>1. PICK run, embedded, dimension :
          run = requests[q].records /\ embedded = Len(dimensions) /\ dimension = dimensions[1]
    OBVIOUS
  <2>2. Fits(run, embedded, dimension)
    BY <2>1 DEF IInv, RequestsFit
  <2>3. Fits(run, embedded, dimension)'
    BY <2>2, SameFits
  <2>4. QED
    BY <2>1, <2>3
<1>3. RecordsSent' = RecordsSent
  BY DEF RecordsSent
<1>4. Done' = Done => SentInv'
  BY <1>3 DEF IInv, SentInv
<1>5. QED
  BY <1>1, <1>2, <1>4 DEF input, Count

LEMMA WriteVectorsKeeps ==
  ASSUME IInv, WriteVectors
  PROVE  IInv'
<1> DEFINE runs == RequestRuns(Between(0, Count), dimensions[1], batchSize)
<1>1. PICK start, sent :
        /\ Cut(runs, start, 0, Count) /\ Packed(runs, start, Count, dimensions[1], batchSize)
        /\ Cut(RecordsSent, sent, 0, 0) /\ requests = <<>>
        /\ requests' = requests \o Requested(runs, start)
  BY WriteVectorsRequests
<1> HIDE DEF runs
<1>2. /\ TypeOK /\ Count \in Nat /\ pc = "writing" /\ pc' = "resolved" /\ ~embeds /\ Count > 0
      /\ Len(dimensions) = Count /\ batchSize \in Nat /\ batchSize > 0 /\ Len(ids) = Count
      /\ IsInjective(ids) /\ 0 \in Nat /\ Count <= Count /\ PairedUp /\ RequestsFit
      /\ UNCHANGED <<input, dimensions, ids, established>>
  BY PositionsAre DEF IInv, WriteVectors, BatchInv, DimensionInv, AcceptedInv, TypeOK
<1>3. dimensions[1] \in Nat
  BY <1>2, ElementOfSeq DEF TypeOK
<1>4. /\ requests' \in Seq(ARequest) /\ (\E s : Cut(RecordsSent', s, 0, Count))
      /\ PairedUp' /\ RequestsFit'
  <2>1. UNCHANGED <<input, ids>> /\ Len(dimensions') = Count /\ dimensions'[1] = dimensions[1]
        /\ ~(0 > 0)
    BY <1>2
  <2>2. QED
    BY <1>1, <1>2, <1>3, <2>1, RunsSent
<1>5. Count' = Count /\ UNCHANGED <<embeds, own, bytes, given, batchSize, fired>>
  BY <1>2 DEF input, Count
<1>6. TypeOK'
  BY <1>2, <1>4, <1>5 DEF TypeOK, ARequest
<1>7. SentInv'
  <2>1. Done' = Count
    BY <1>2, <1>5 DEF Done
  <2>2. QED
    BY <1>4, <2>1 DEF SentInv
<1>8. AcceptedInv' /\ BatchInv'
  BY <1>2, <1>5 DEF AcceptedInv, BatchInv
<1>9. DimensionInv'
  BY <1>2, <1>5 DEF IInv, DimensionInv
<1>10. QED
  BY <1>4, <1>6, <1>7, <1>8, <1>9 DEF IInv

LEMMA ResolveTypes ==
  ASSUME TypeOK
  PROVE  ResolveWriteIds \in Seq(AnId)
<1>1. Count \in Nat /\ own \in Seq(AnId) /\ Len(own) = Count
  BY LenProperties DEF TypeOK, Count
<1>2. CASE given = NotGiven
  <2>1. ASSUME NEW i \in 1..Count PROVE (IF own[i] = NoId THEN Minted(i) ELSE own[i]) \in AnId
    <3>1. own[i] \in AnId /\ i \in Nat
      BY <1>1, ElementOfSeq
    <3>2. Minted(i) \in AnId
      BY <3>1 DEF AnId
    <3>3. QED
      BY <3>1, <3>2
  <2>2. [i \in 1..Count |-> IF own[i] = NoId THEN Minted(i) ELSE own[i]] \in Seq(AnId)
    BY <1>1, <2>1
  <2>3. QED
    BY <1>2, <2>2 DEF ResolveWriteIds
<1>3. CASE given # NotGiven
  BY <1>3 DEF ResolveWriteIds, TypeOK
<1>4. QED
  BY <1>2, <1>3

LEMMA CheckKeeps ==
  ASSUME IInv, Check
  PROVE  IInv'
<1>1. /\ TypeOK /\ pc = "begin" /\ dimensions = <<>> /\ established = 0 /\ UNCHANGED input
      /\ UNCHANGED <<embeds, own, bytes, given, batchSize, fired>> /\ Count' = Count
      /\ UNCHANGED <<requests, established>> /\ Count \in Nat
  BY PositionsAre DEF IInv, Check, BatchInv, input, Refuses, Count
<1>2. requests = <<>> /\ requests' = <<>>
  <2>1. Done = 0
    BY <1>1 DEF Done
  <2>2. PICK sent : Cut(RecordsSent, sent, 0, 0)
    BY <2>1 DEF IInv, SentInv
  <2>3. QED
    BY <1>1, <2>2, NoneSent
<1>3. /\ dimensions' \in Seq(Nat) /\ Len(dimensions') <= Count
      /\ embeds => dimensions' = <<>>
      /\ ~embeds => Len(dimensions') = Count /\ dimensions' \in [1..Count -> Nat]
  <2>1. CASE embeds
    BY <1>1, <2>1 DEF Check
  <2>2. CASE ~embeds
    <3>1. dimensions' \in [1..Count -> 0..MaxDimension]
      BY <1>1, <2>2 DEF Check
    <3>2. MaxDimension \in Nat
      BY WriteAssumption
    <3>3. \A i \in 1..Count : dimensions'[i] \in Nat
      BY <3>1, <3>2
    <3>4. dimensions' \in [1..Count -> Nat]
      BY <3>1, <3>3
    <3>5. QED
      BY <1>1, <2>2, <3>4
  <2>3. QED
    BY <2>1, <2>2
<1>4. \/ pc' \in {"refused", "aborted"} /\ UNCHANGED ids
      \/ /\ Accepted /\ VectorsAccepted(dimensions', 0) /\ ids' = ResolveWriteIds
         /\ pc' = IF Count = 0 THEN "resolved" ELSE IF embeds THEN "embedding" ELSE "writing"
  BY DEF Check, Refuses
<1>5. ids' \in Seq(AnId)
  BY <1>1, <1>4, ResolveTypes DEF TypeOK
<1>6. TypeOK'
  BY <1>1, <1>3, <1>4, <1>5 DEF TypeOK
<1>7. SentInv'
  <2>1. Done' = 0
    <3>1. CASE embeds
      BY <1>1, <1>3, <3>1 DEF Done
    <3>2. CASE ~embeds
      BY <1>1, <1>4, <3>2 DEF Done
    <3>3. QED
      BY <3>1, <3>2
  <2>2. RecordsSent' = RecordsSent
    BY <1>1 DEF RecordsSent
  <2>3. Done = 0
    BY <1>1 DEF Done
  <2>4. QED
    BY <2>1, <2>2, <2>3 DEF IInv, SentInv
<1>8. AcceptedInv'
  <2> SUFFICES ASSUME pc' \in {"embedding", "writing", "resolved"}
               PROVE  Len(ids') = Count /\ IsInjective(ids') /\ batchSize > 0
    BY <1>1 DEF AcceptedInv
  <2>1. Accepted /\ ids' = ResolveWriteIds
    BY <1>4
  <2>2. Len(ResolveWriteIds) = Count /\ IsInjective(ResolveWriteIds) /\ batchSize \in 1..MaxBatchSize
    BY <2>1 DEF Accepted, IdsAccepted
  <2>3. batchSize > 0
    BY <2>2, WriteAssumption
  <2>4. QED
    BY <2>1, <2>2, <2>3
<1>9. BatchInv'
  <2>1. pc' = "embedding" =>
          embeds' /\ Len(dimensions') < Count' /\ \E n \in Nat : Len(dimensions') = n * batchSize'
    <3> SUFFICES ASSUME pc' = "embedding" PROVE embeds /\ Len(dimensions') < Count
                                               /\ \E n \in Nat : Len(dimensions') = n * batchSize
      BY <1>1
    <3>1. embeds /\ Count # 0
      BY <1>4
    <3>2. Len(dimensions') = 0
      BY <1>3, <3>1
    <3>3. 0 \in Nat /\ 0 = 0 * batchSize
      BY <1>1 DEF TypeOK
    <3>4. QED
      BY <1>1, <3>1, <3>2, <3>3
  <2>2. pc' = "resolved" /\ embeds' => Len(dimensions') = Count'
    BY <1>1, <1>3, <1>4
  <2>3. pc' # "begin" /\ (pc' = "writing" => ~embeds' /\ Count' > 0)
    BY <1>1, <1>4
  <2>4. QED
    BY <2>1, <2>2, <2>3 DEF BatchInv
<1>10. DimensionInv'
  <2>1. CASE embeds
    BY <1>1, <1>3, <2>1 DEF DimensionInv
  <2>2. CASE ~embeds
    <3> SUFFICES ASSUME pc' \in {"writing", "resolved"}
                 PROVE  \A i \in 1..Count : dimensions'[i] = dimensions'[1] /\ dimensions'[i] > 0
      BY <1>1, <1>3, <2>2 DEF DimensionInv
    <3>1. VectorsAccepted(dimensions', 0)
      BY <1>4
    <3>2. DOMAIN dimensions' = 1..Count
      BY <1>3, <2>2
    <3>3. QED
      BY <3>1, <3>2 DEF VectorsAccepted
  <2>3. QED
    BY <2>1, <2>2
<1>11. PairedUp' /\ RequestsFit'
  BY <1>2 DEF PairedUp, RequestsFit
<1>12. QED
  BY <1>6, <1>7, <1>8, <1>9, <1>10, <1>11 DEF IInv

(* A batch refused leaves what the batches before it sent.                 *)
LEMMA RefusedKeeps ==
  ASSUME IInv, pc = "embedding", Refuses, UNCHANGED <<input, dimensions>>
  PROVE  IInv'
<1>1. /\ embeds /\ pc' = "refused" /\ UNCHANGED <<ids, requests, established, dimensions>>
      /\ UNCHANGED <<embeds, own, bytes, given, batchSize, fired>> /\ Count' = Count
  BY DEF IInv, BatchInv, Refuses, input, Count
<1>2. Done' = Done
  BY <1>1 DEF Done
<1>3. PairedUp' /\ RequestsFit' /\ SentInv'
  BY <1>1, <1>2, Apart
<1>4. TypeOK'
  BY <1>1 DEF IInv, TypeOK
<1>5. AcceptedInv' /\ BatchInv'
  BY <1>1 DEF AcceptedInv, BatchInv
<1>6. DimensionInv'
  BY <1>1 DEF IInv, DimensionInv
<1>7. QED
  BY <1>3, <1>4, <1>5, <1>6 DEF IInv

(* The batch embedded next is of the documents after those embedded, and   *)
(* is a full one or the last.                                              *)
LEMMA TheBatch ==
  ASSUME IInv, pc = "embedding"
  PROVE  \E top \in Nat :
           /\ Len(dimensions) < top /\ top <= Count /\ top <= Len(dimensions) + batchSize
           /\ top = Count \/ top = Len(dimensions) + batchSize
           /\ Chunk(Positions, batchSize)[Len(dimensions) \div batchSize + 1]
                = Between(Len(dimensions), top)
<1> DEFINE done == Len(dimensions)
           top == Smaller(done + batchSize, Count)
           last == Count + batchSize - 1
<1>1. /\ TypeOK /\ Count \in Nat /\ batchSize \in Nat \ {0} /\ done \in Nat /\ done < Count
      /\ Positions = Between(0, Count) /\ Len(Positions) = Count
  <2>1. TypeOK /\ batchSize \in Nat \ {0} /\ done < Count
    BY DEF IInv, AcceptedInv, BatchInv, TypeOK
  <2>2. Count \in Nat /\ Positions = Between(0, Count) /\ done \in Nat
    BY <2>1, PositionsAre, LenProperties DEF TypeOK
  <2>3. Len(Positions) = Count
    BY <2>2 DEF Positions
  <2>4. QED
    BY <2>1, <2>2, <2>3
<1>2. PICK n \in Nat : done = n * batchSize
  BY DEF IInv, BatchInv
<1> HIDE DEF done
<1>3. n * batchSize \in Nat /\ (n + 1) * batchSize = n * batchSize + batchSize
      /\ (n * batchSize) \div batchSize = n
      /\ \A m \in Nat : m >= (n + 1) * batchSize => m \div batchSize >= n + 1
  BY <1>1, MultiplesDivide DEF Multiples
<1>4. done \div batchSize + 1 = n + 1
  BY <1>2, <1>3
<1>5. n + 1 \in 1..(last \div batchSize)
  <2>1. last \in Nat /\ last >= (n + 1) * batchSize
    BY <1>1, <1>2, <1>3
  <2>2. last \div batchSize >= n + 1
    BY <1>3, <2>1
  <2>3. last \div batchSize \in Nat
    BY <1>1, <2>1
  <2>4. QED
    BY <2>2, <2>3
<1>6. Chunk(Positions, batchSize)[n + 1] = Slice(Between(0, Count), done, batchSize)
  <2>1. ((n + 1) - 1) * batchSize = done
    <3>1. (n + 1) - 1 = n
      OBVIOUS
    <3>2. QED
      BY <1>2, <3>1
  <2>2. Chunk(Positions, batchSize)
          = [b \in 1..(last \div batchSize) |-> Slice(Positions, (b - 1) * batchSize, batchSize)]
    BY <1>1 DEF Chunk
  <2>3. QED
    BY <1>1, <1>5, <2>1, <2>2
<1>7. Slice(Between(0, Count), done, batchSize) = Between(0 + done, Smaller(0 + done + batchSize, Count))
  <2>1. 0 \in Nat /\ 0 + done <= Count
    BY <1>1
  <2>2. QED
    BY <1>1, <2>1, SliceOfBetween
<1>8. 0 + done = done /\ 0 + done + batchSize = done + batchSize
  BY <1>1
<1>9. /\ top \in Nat /\ done < top /\ top <= Count /\ top <= done + batchSize
      /\ top = Count \/ top = done + batchSize
  BY <1>1 DEF Smaller
<1>10. Chunk(Positions, batchSize)[done \div batchSize + 1] = Between(done, top)
  BY <1>4, <1>6, <1>7, <1>8
<1> HIDE DEF top
<1>11. QED
  BY <1>9, <1>10 DEF done

(* What a batch that is embedded and sent adds.                            *)
Sends(ds, done, top) ==
  /\ ds \in [1..(top - done) -> 0..MaxDimension]
  /\ VectorsAccepted(ds, established) /\ dimensions' = dimensions \o ds
  /\ established' = IF established > 0 THEN established ELSE ds[1]
  /\ LET runs == RequestRuns(Between(done, top), ds[1], top - done)
     IN  requests' = requests \o
           [b \in 1..Len(runs) |->
              Put(runs[b], done + Offset(runs, b, 0),
                  Slice(Between(done, top), Offset(runs, b, 0), Len(runs[b])))]
  /\ pc' = IF top = Count THEN "resolved" ELSE pc
  /\ UNCHANGED ids

LEMMA EmbedBatchSends ==
  ASSUME IInv, EmbedBatch, NEW top \in Nat, Len(dimensions) < top, top <= Count,
         Chunk(Positions, batchSize)[Len(dimensions) \div batchSize + 1]
           = Between(Len(dimensions), top)
  PROVE  (Refuses /\ UNCHANGED dimensions) \/ \E ds : Sends(ds, Len(dimensions), top)
<1> DEFINE done == Len(dimensions)
           batch == Chunk(Positions, batchSize)[done \div batchSize + 1]
<1>1. done \in Nat /\ done <= top /\ batch = Between(done, top)
  BY LenProperties DEF IInv, TypeOK
<1>2. DOMAIN batch = 1..(top - done) /\ Len(batch) = top - done /\ done + Len(batch) = top
  BY <1>1, BetweenIsAList
<1>3. \/ Refuses /\ UNCHANGED dimensions
      \/ \E ds \in [DOMAIN batch -> 0..MaxDimension] :
           \/ ~VectorsAccepted(ds, established) /\ Refuses /\ UNCHANGED dimensions
           \/ /\ VectorsAccepted(ds, established)
              /\ dimensions' = dimensions \o ds
              /\ established' = IF established > 0 THEN established ELSE ds[1]
              /\ LET runs == RequestRuns(batch, ds[1], Len(batch))
                     local == [b \in 1..Len(runs) |-> Offset(runs, b, 0)]
                 IN  requests' = requests \o
                       [b \in 1..Len(runs) |->
                          Put(runs[b], done + local[b], Slice(batch, local[b], Len(runs[b])))]
              /\ pc' = IF done + Len(batch) = Count THEN "resolved" ELSE pc
              /\ UNCHANGED ids
  BY DEF EmbedBatch
<1> HIDE DEF done, batch
<1>4. CASE Refuses /\ UNCHANGED dimensions
  BY <1>4
<1>5. CASE \E ds \in [DOMAIN batch -> 0..MaxDimension] :
             /\ VectorsAccepted(ds, established)
             /\ dimensions' = dimensions \o ds
             /\ established' = IF established > 0 THEN established ELSE ds[1]
             /\ LET runs == RequestRuns(batch, ds[1], Len(batch))
                    local == [b \in 1..Len(runs) |-> Offset(runs, b, 0)]
                IN  requests' = requests \o
                      [b \in 1..Len(runs) |->
                         Put(runs[b], done + local[b], Slice(batch, local[b], Len(runs[b])))]
             /\ pc' = IF done + Len(batch) = Count THEN "resolved" ELSE pc
             /\ UNCHANGED ids
  <2> PICK ds \in [DOMAIN batch -> 0..MaxDimension] :
             /\ VectorsAccepted(ds, established)
             /\ dimensions' = dimensions \o ds
             /\ established' = IF established > 0 THEN established ELSE ds[1]
             /\ LET runs == RequestRuns(batch, ds[1], Len(batch))
                    local == [b \in 1..Len(runs) |-> Offset(runs, b, 0)]
                IN  requests' = requests \o
                      [b \in 1..Len(runs) |->
                         Put(runs[b], done + local[b], Slice(batch, local[b], Len(runs[b])))]
             /\ pc' = IF done + Len(batch) = Count THEN "resolved" ELSE pc
             /\ UNCHANGED ids
    BY <1>5
  <2> DEFINE runs == RequestRuns(Between(done, top), ds[1], top - done)
             local == [b \in 1..Len(runs) |-> Offset(runs, b, 0)]
  <2>1. requests' = requests \o
          [b \in 1..Len(runs) |->
             Put(runs[b], done + local[b], Slice(Between(done, top), local[b], Len(runs[b])))]
    BY <1>1, <1>2
  <2> HIDE DEF runs
  <2>2. requests' = requests \o
          [b \in 1..Len(runs) |->
             Put(runs[b], done + Offset(runs, b, 0),
                 Slice(Between(done, top), Offset(runs, b, 0), Len(runs[b])))]
    <3>1. \A b \in 1..Len(runs) : local[b] = Offset(runs, b, 0)
      OBVIOUS
    <3> HIDE DEF local
    <3>2. [b \in 1..Len(runs) |->
             Put(runs[b], done + local[b], Slice(Between(done, top), local[b], Len(runs[b])))]
            = [b \in 1..Len(runs) |->
                 Put(runs[b], done + Offset(runs, b, 0),
                     Slice(Between(done, top), Offset(runs, b, 0), Len(runs[b])))]
      BY <3>1
    <3>3. QED
      BY <2>1, <3>2 DEF local
  <2>3. Sends(ds, done, top)
    BY <1>1, <1>2, <2>2 DEF Sends, runs
  <2>4. QED
    BY <2>3 DEF done
<1>6. QED
  BY <1>3, <1>4, <1>5

(* The vectors of a batch have the dimension of those before, if any.      *)
LEMMA EmbeddedDimension ==
  ASSUME IInv, pc = "embedding", NEW top \in Nat, Len(dimensions) < top, NEW ds,
         Sends(ds, Len(dimensions), top)
  PROVE  /\ ds[1] \in Nat /\ ds[1] > 0 /\ (Len(dimensions) > 0 => dimensions[1] = ds[1])
         /\ dimensions' \in Seq(Nat) /\ Len(dimensions') = top
         /\ \A i \in 1..top : dimensions'[i] = ds[1]
         /\ established' = ds[1]
<1> DEFINE done == Len(dimensions)
<1>1. /\ dimensions \in Seq(Nat) /\ done \in Nat /\ embeds /\ top - done \in Nat
      /\ 1 \in 1..(top - done)
  BY LenProperties DEF IInv, TypeOK, BatchInv
<1>2. /\ ds \in [1..(top - done) -> 0..MaxDimension] /\ VectorsAccepted(ds, established)
      /\ dimensions' = dimensions \o ds
      /\ established' = IF established > 0 THEN established ELSE ds[1]
  BY DEF Sends
<1>3. ds \in [1..(top - done) -> Nat]
  BY <1>2, WriteAssumption
<1>4. ds \in Seq(Nat) /\ Len(ds) = top - done
  BY <1>1, <1>3
<1>5. \A i \in 1..(top - done) :
        ds[i] > 0 /\ ds[i] = (IF established > 0 THEN established ELSE ds[1])
  BY <1>2 DEF VectorsAccepted
<1>6. \A i \in 1..(top - done) : ds[i] = ds[1]
  BY <1>1, <1>5
<1>7. ds[1] \in Nat /\ ds[1] > 0 /\ established' = ds[1]
  BY <1>1, <1>2, <1>3, <1>5
<1>8. \A i \in 1..done : dimensions[i] = ds[1]
  <2> TAKE i \in 1..done
  <2>1. \A j \in 1..done : dimensions[j] = dimensions[1] /\ dimensions[j] > 0
    BY <1>1 DEF IInv, DimensionInv
  <2>2. dimensions # <<>>
    BY <1>1, EmptySeq
  <2>3. established = dimensions[1]
    BY <1>1, <2>2 DEF IInv, DimensionInv
  <2>4. 1 \in 1..done
    BY <1>1
  <2>5. established > 0
    BY <2>1, <2>3, <2>4
  <2>6. QED
    BY <1>1, <1>5, <2>1, <2>3, <2>5
<1>9. done > 0 => dimensions[1] = ds[1]
  BY <1>1, <1>8
<1>10. PICK old : old = dimensions
  OBVIOUS
<1>11. old \in Seq(Nat) /\ Len(old) = done
  BY <1>1, <1>10
<1>12. /\ old \o ds \in Seq(Nat) /\ Len(old \o ds) = Len(old) + Len(ds)
       /\ \A i \in 1..(Len(old) + Len(ds)) :
            (old \o ds)[i] = IF i <= Len(old) THEN old[i] ELSE ds[i - Len(old)]
  <2>1. ASSUME NEW s \in Seq(Nat), NEW t \in Seq(Nat)
        PROVE  /\ s \o t \in Seq(Nat) /\ Len(s \o t) = Len(s) + Len(t)
               /\ \A i \in 1..(Len(s) + Len(t)) :
                    (s \o t)[i] = IF i <= Len(s) THEN s[i] ELSE t[i - Len(s)]
    BY ConcatProperties
  <2>2. QED
    BY <1>4, <1>11, <2>1
<1>13. dimensions' = old \o ds
  BY <1>2, <1>10
<1>14. dimensions' \in Seq(Nat) /\ Len(dimensions') = top
  BY <1>1, <1>4, <1>11, <1>12, <1>13
<1> HIDE DEF done
<1>15. \A i \in 1..top : dimensions'[i] = ds[1]
  <2> TAKE i \in 1..top
  <2>1. dimensions'[i] = IF i <= done THEN dimensions[i] ELSE ds[i - done]
    BY <1>1, <1>4, <1>10, <1>11, <1>12, <1>13
  <2>2. CASE i <= done
    <3>1. i \in 1..done
      BY <1>1, <2>2
    <3>2. QED
      BY <1>8, <2>1, <2>2, <3>1
  <2>3. CASE ~(i <= done)
    <3>1. i - done \in 1..(top - done)
      BY <1>1, <2>3
    <3>2. QED
      BY <1>6, <2>1, <2>3, <3>1
  <2>4. QED
    BY <2>2, <2>3
<1>16. QED
  BY <1>7, <1>9, <1>14, <1>15 DEF done

LEMMA SentKeeps ==
  ASSUME IInv, pc = "embedding", UNCHANGED input, NEW top \in Nat,
         Len(dimensions) < top, top <= Count, top <= Len(dimensions) + batchSize,
         top = Count \/ top = Len(dimensions) + batchSize,
         NEW ds, Sends(ds, Len(dimensions), top)
  PROVE  IInv'
<1> DEFINE done == Len(dimensions)
           size == top - done
           runs == RequestRuns(Between(done, top), ds[1], size)
<1>1. /\ TypeOK /\ Count \in Nat /\ batchSize \in Nat /\ batchSize > 0 /\ done \in Nat
      /\ embeds /\ Len(ids) = Count /\ IsInjective(ids) /\ PairedUp /\ RequestsFit
      /\ size \in Nat \ {0} /\ size <= batchSize /\ done <= top
      /\ UNCHANGED <<input, ids>> /\ UNCHANGED <<embeds, own, bytes, given, batchSize, fired>>
      /\ Count' = Count
      /\ pc' = IF top = Count THEN "resolved" ELSE "embedding"
  <2>1. /\ TypeOK /\ batchSize \in Nat /\ batchSize > 0 /\ embeds /\ Len(ids) = Count
        /\ IsInjective(ids) /\ PairedUp /\ RequestsFit
    BY DEF IInv, AcceptedInv, BatchInv, TypeOK
  <2>2. Count \in Nat /\ done \in Nat
    BY <2>1, PositionsAre, LenProperties DEF TypeOK
  <2>3. size \in Nat \ {0} /\ size <= batchSize /\ done <= top
    BY <2>1, <2>2
  <2>4. /\ UNCHANGED <<input, ids>> /\ UNCHANGED <<embeds, own, bytes, given, batchSize, fired>>
        /\ Count' = Count
    BY DEF input, Count, Sends
  <2>5. pc' = IF top = Count THEN "resolved" ELSE "embedding"
    BY DEF Sends
  <2>6. QED
    BY <2>1, <2>2, <2>3, <2>4, <2>5
<1>2. /\ ds[1] \in Nat /\ ds[1] > 0 /\ (done > 0 => dimensions[1] = ds[1])
      /\ dimensions' \in Seq(Nat) /\ Len(dimensions') = top
      /\ \A i \in 1..top : dimensions'[i] = ds[1]
      /\ established' = ds[1]
  BY EmbeddedDimension
<1>3. PICK start : Cut(runs, start, done, top) /\ Packed(runs, start, top, ds[1], size)
  BY <1>1, <1>2, RequestRunsCut
<1>4. PICK sent : Cut(RecordsSent, sent, 0, done)
  <2>1. Done = done
    BY <1>1 DEF Done
  <2>2. QED
    BY <2>1 DEF IInv, SentInv
<1>5. done > 0 => /\ embeds /\ done % batchSize = 0
                  /\ Len(dimensions) = done /\ dimensions[1] = ds[1]
  <2>1. PICK n \in Nat : done = n * batchSize
    BY DEF IInv, BatchInv
  <2>2. done % batchSize = 0
    BY <1>1, <2>1, MultiplesDivide DEF Multiples
  <2>3. QED
    BY <1>1, <1>2, <2>2
<1>6. requests' = requests \o Requested(runs, start)
  <2>1. requests' = requests \o
          [b \in 1..Len(runs) |->
             Put(runs[b], done + Offset(runs, b, 0),
                 Slice(Between(done, top), Offset(runs, b, 0), Len(runs[b])))]
    BY DEF Sends
  <2> HIDE DEF runs, done
  <2>2. ASSUME NEW b \in 1..Len(runs)
        PROVE  /\ done + Offset(runs, b, 0) = start[b]
               /\ Slice(Between(done, top), Offset(runs, b, 0), Len(runs[b])) = runs[b]
    <3>1. Offset(runs, b, 0) = start[b] - done
      BY <1>1, <1>3, OffsetInBatch
    <3>2. done + (start[b] - done) = start[b]
          /\ Slice(Between(done, top), start[b] - done, Len(runs[b])) = runs[b]
      BY <1>1, <1>3, SlicedRun
    <3>3. QED
      BY <3>1, <3>2
  <2>3. [b \in 1..Len(runs) |->
             Put(runs[b], done + Offset(runs, b, 0),
                 Slice(Between(done, top), Offset(runs, b, 0), Len(runs[b])))]
          = Requested(runs, start)
    BY <2>2 DEF Requested
  <2>4. QED
    BY <2>1, <2>3
<1> HIDE DEF runs
<1>7. /\ requests' \in Seq(ARequest) /\ (\E s : Cut(RecordsSent', s, 0, top))
      /\ PairedUp' /\ RequestsFit'
  <2>1. size = batchSize \/ (size = top - done /\ size <= batchSize)
    BY <1>1
  <2>2. 1 \in 1..top
    BY <1>1
  <2>3. Len(dimensions') = top /\ dimensions'[1] = ds[1]
    BY <1>2, <2>2
  <2> HIDE DEF done, size
  <2>4. QED
    BY <1>1, <1>2, <1>3, <1>4, <1>5, <1>6, <2>1, <2>3, RunsSent
<1>8. TypeOK'
  BY <1>1, <1>2, <1>7 DEF TypeOK, ARequest
<1>9. SentInv'
  <2>1. Done' = top
    BY <1>1, <1>2 DEF Done
  <2>2. QED
    BY <1>7, <2>1 DEF SentInv
<1>10. AcceptedInv'
  BY <1>1 DEF AcceptedInv
<1>11. BatchInv'
  <2>1. pc' = "embedding" =>
          embeds' /\ Len(dimensions') < Count' /\ \E n \in Nat : Len(dimensions') = n * batchSize'
    <3> SUFFICES ASSUME pc' = "embedding"
                 PROVE  top < Count /\ \E n \in Nat : top = n * batchSize
      BY <1>1, <1>2
    <3>1. top # Count /\ top = done + batchSize
      BY <1>1
    <3>2. PICK n \in Nat : done = n * batchSize
      BY DEF IInv, BatchInv
    <3>3. (n + 1) * batchSize = n * batchSize + batchSize
      BY <1>1, MultiplesDivide DEF Multiples
    <3>4. top = (n + 1) * batchSize /\ n + 1 \in Nat
      BY <3>1, <3>2, <3>3
    <3>5. top < Count
      BY <1>1, <3>1
    <3>6. \E m \in Nat : top = m * batchSize
      BY <3>4, Zenon
    <3>7. QED
      BY <3>5, <3>6
  <2>2. pc' = "resolved" /\ embeds' => Len(dimensions') = Count'
    BY <1>1, <1>2
  <2>3. pc' # "begin" /\ pc' # "writing"
    BY <1>1
  <2>4. QED
    BY <2>1, <2>2, <2>3 DEF BatchInv
<1>12. DimensionInv'
  <2>1. dimensions' # <<>> /\ dimensions'[1] = ds[1]
    <3>1. Len(dimensions') # 0 /\ 1 \in 1..top
      BY <1>1, <1>2
    <3>2. QED
      BY <1>2, <3>1, EmptySeq
  <2>2. QED
    BY <1>1, <1>2, <2>1 DEF DimensionInv
<1>13. QED
  BY <1>7, <1>8, <1>9, <1>10, <1>11, <1>12 DEF IInv

LEMMA EmbedBatchKeeps ==
  ASSUME IInv, EmbedBatch
  PROVE  IInv'
<1>1. pc = "embedding" /\ UNCHANGED input
  BY DEF EmbedBatch
<1>2. PICK top \in Nat :
        /\ Len(dimensions) < top /\ top <= Count /\ top <= Len(dimensions) + batchSize
        /\ top = Count \/ top = Len(dimensions) + batchSize
        /\ Chunk(Positions, batchSize)[Len(dimensions) \div batchSize + 1]
             = Between(Len(dimensions), top)
  BY <1>1, TheBatch
<1>3. (Refuses /\ UNCHANGED dimensions) \/ \E ds : Sends(ds, Len(dimensions), top)
  BY <1>2, EmbedBatchSends
<1>4. CASE Refuses /\ UNCHANGED dimensions
  BY <1>1, <1>4, RefusedKeeps
<1>5. CASE \E ds : Sends(ds, Len(dimensions), top)
  BY <1>1, <1>2, <1>5, SentKeeps
<1>6. QED
  BY <1>3, <1>4, <1>5

-----------------------------------------------------------------------------
(* The invariant, and what follows from it *)

LEMMA InitEstablishes ==
  ASSUME Init
  PROVE  IInv
<1>1. /\ dimensions = <<>> /\ pc = "begin" /\ ids = <<>> /\ established = 0 /\ requests = <<>>
      /\ embeds \in BOOLEAN /\ fired \in BOOLEAN /\ batchSize \in Nat
  BY WriteAssumption DEF Init
<1>2. own \in Seq(AnId) /\ (given # NotGiven => given \in Seq(AnId))
  <2>1. ASSUME NEW S, S \subseteq AnId, NEW s \in Lists(S, 0..MaxDocuments) PROVE s \in Seq(AnId)
    <3>1. PICK n \in 0..MaxDocuments : s \in [1..n -> S]
      BY DEF Lists
    <3>2. n \in Nat /\ s \in [1..n -> AnId]
      BY <2>1, <3>1, WriteAssumption
    <3>3. QED
      BY <3>2
  <2>2. Ids \cup {NoId, Malformed} \subseteq AnId /\ {NoId} \subseteq AnId
        /\ Ids \cup {Malformed} \subseteq AnId
    BY DEF AnId
  <2>3. CASE own \in Lists(Ids \cup {NoId, Malformed}, 0..MaxDocuments) /\ given = NotGiven
    BY <2>1, <2>2, <2>3
  <2>4. CASE /\ own \in Lists({NoId}, 0..MaxDocuments)
             /\ given \in Lists(Ids \cup {Malformed}, 0..MaxDocuments)
    BY <2>1, <2>2, <2>4
  <2>5. QED
    BY <2>3, <2>4 DEF Init
<1>3. Count \in Nat
  BY <1>2, LenProperties DEF Count
<1>4. bytes \in [1..Count -> Nat]
  <2>1. bytes \in [1..Count -> 0..MaxBytes] /\ MaxBytes \in Nat
    BY WriteAssumption DEF Init
  <2>2. \A i \in 1..Count : bytes[i] \in Nat
    BY <2>1
  <2>3. QED
    BY <2>1, <2>2
<1>5. TypeOK
  <2>1. Len(dimensions) = 0 /\ dimensions \in Seq(Nat) /\ ids \in Seq(AnId)
        /\ requests \in Seq([records : Seq(Nat), vectors : Seq(Nat), reported : Seq(AnId)])
    BY <1>1, EmptySeq
  <2>2. QED
    BY <1>1, <1>2, <1>3, <1>4, <2>1 DEF TypeOK
<1>6. SentInv
  <2>1. Done = 0
    BY <1>1 DEF Done
  <2>2. DOMAIN requests = {} /\ RecordsSent = <<>>
    BY <1>1 DEF RecordsSent
  <2>3. Len(<<>>) = 0 /\ <<>> \in Seq(Seq(Nat))
    BY EmptySeq
  <2>4. Cut(<<>>, [b \in 1..1 |-> 0], 0, 0)
    BY <2>3 DEF Cut
  <2>5. PICK start : start = [b \in 1..1 |-> 0]
    OBVIOUS
  <2>6. Cut(RecordsSent, start, 0, Done)
    BY <2>1, <2>2, <2>4, <2>5
  <2>7. QED
    BY <2>6 DEF SentInv
<1>7. AcceptedInv /\ BatchInv /\ DimensionInv
  BY <1>1 DEF AcceptedInv, BatchInv, DimensionInv
<1>8. PairedUp /\ RequestsFit
  BY <1>1 DEF PairedUp, RequestsFit
<1>9. QED
  BY <1>5, <1>6, <1>7, <1>8 DEF IInv

LEMMA StutterKeeps ==
  ASSUME IInv, UNCHANGED vars
  PROVE  IInv'
<1>1. /\ UNCHANGED <<input, ids, requests, dimensions, pc, established>> /\ UNCHANGED <<input, ids, requests>>
      /\ UNCHANGED <<embeds, own, bytes, given, batchSize, fired>> /\ Count' = Count
  BY DEF vars, input, Count
<1>2. Done' = Done
  BY <1>1 DEF Done
<1>3. PairedUp' /\ RequestsFit' /\ SentInv'
  BY <1>1, <1>2, Apart
<1>4. TypeOK'
  BY <1>1 DEF IInv, TypeOK
<1>5. AcceptedInv' /\ BatchInv'
  BY <1>1 DEF IInv, AcceptedInv, BatchInv
<1>6. DimensionInv'
  BY <1>1 DEF IInv, DimensionInv
<1>7. QED
  BY <1>3, <1>4, <1>5, <1>6 DEF IInv

(* At every moment, the requests made are the documents so far, cut into   *)
(* runs at the ends of batches and where the body of a request is full:    *)
(* the loops of addVectors and addDocuments, requestRuns, offsetBatches.   *)
THEOREM RunsInOrder == Spec => []IInv
<1>1. Init => IInv
  BY InitEstablishes
<1>2. IInv /\ [Next]_vars => IInv'
  <2> SUFFICES ASSUME IInv, [Next]_vars PROVE IInv'
    OBVIOUS
  <2>1. CASE Check
    BY <2>1, CheckKeeps
  <2>2. CASE WriteVectors
    BY <2>2, WriteVectorsKeeps
  <2>3. CASE EmbedBatch
    BY <2>3, EmbedBatchKeeps
  <2>4. CASE UNCHANGED vars
    BY <2>4, StutterKeeps
  <2>5. QED
    BY <2>1, <2>2, <2>3, <2>4 DEF Next
<1>3. QED
  BY <1>1, <1>2, PTL DEF Spec

(* The documents sent are the first, in order.                             *)
LEMMA SentMeans ==
  ASSUME IInv
  PROVE  Sent = Between(0, Done) /\ Done \in Nat /\ Done <= Count /\ Len(Sent) = Done
<1>1. PICK start : Cut(RecordsSent, start, 0, Done)
  BY DEF IInv, SentInv
<1>2. Done \in Nat /\ Done <= Count /\ 0 \in Nat /\ 0 <= Done
  BY PositionsAre, LenProperties DEF IInv, TypeOK, Done
<1>3. FlattenSeq(RecordsSent) = Between(0, Done)
  BY <1>1, <1>2, FlattenedCut
<1>4. Sent = Between(0, Done)
  BY <1>3 DEF Sent, RecordsSent
<1>5. Len(Between(0, Done)) = Done - 0
  BY <1>2, BetweenIsAList
<1>6. QED
  BY <1>2, <1>4, <1>5

LEMMA NothingIsLost == ASSUME IInv PROVE NothingLost
<1>1. /\ Sent = Between(0, Done) /\ Done \in Nat /\ Done <= Count /\ Len(Sent) = Done
      /\ Positions = Between(0, Count) /\ Count \in Nat
  BY SentMeans, PositionsAre DEF IInv
<1>2. pc = "resolved" => Sent = Positions /\ Len(ids) = Count /\ IsInjective(ids)
  <2>1. pc = "resolved" => Done = Count
    BY DEF IInv, BatchInv, Done
  <2>2. QED
    BY <1>1, <2>1 DEF IInv, AcceptedInv
<1>3. pc = "refused" /\ ~embeds => requests = <<>>
  <2> SUFFICES ASSUME pc = "refused", ~embeds PROVE requests = <<>>
    OBVIOUS
  <2>1. Done = 0
    BY DEF Done
  <2>2. QED
    BY <2>1, NoneSent DEF IInv, SentInv
<1>4. SubSeq(Positions, 1, Len(Sent)) = Sent
  <2>1. 0 \in Nat /\ 0 + 0 <= Count /\ 0 + 0 = 0 /\ 0 + 1 = 1
    BY <1>1
  <2>2. Slice(Between(0, Count), 0, Done) = Between(0 + 0, Smaller(0 + 0 + Done, Count))
    BY <1>1, <2>1, SliceOfBetween
  <2>3. Smaller(0 + 0 + Done, Count) = Done /\ Smaller(0 + Done, Count) = Done
    BY <1>1 DEF Smaller
  <2>4. Len(Between(0, Count)) = Count
    BY <1>1, BetweenIsAList
  <2>5. Slice(Between(0, Count), 0, Done) = SubSeq(Between(0, Count), 1, Done)
    BY <2>1, <2>3, <2>4 DEF Slice
  <2>6. QED
    BY <1>1, <2>1, <2>2, <2>3, <2>5
<1>5. QED
  BY <1>2, <1>3, <1>4 DEF NothingLost

LEMMA DimensionIsOne == ASSUME IInv PROVE OneDimension
<1>1. Sent = Between(0, Done) /\ Done \in Nat
  BY SentMeans
<1>2. ToSet(Sent) = 1..Done
  <2>1. DOMAIN Between(0, Done) = 1..(Done - 0) /\ Done - 0 = Done
        /\ \A i \in 1..Done : Between(0, Done)[i] = 0 + i
    BY <1>1 DEF Between
  <2>2. \A i \in 1..Done : Between(0, Done)[i] = i
    BY <2>1
  <2>3. DOMAIN Between(0, Done) = 1..Done
    BY <2>1
  <2>4. QED
    BY <1>1, <2>2, <2>3 DEF ToSet
<1>3. ASSUME NEW i \in 1..Done PROVE dimensions[i] = dimensions[1] /\ dimensions[i] > 0
  <2>1. CASE embeds
    BY <1>3, <2>1 DEF IInv, DimensionInv, Done
  <2>2. CASE ~embeds
    <3>1. pc = "resolved" /\ Done = Count
      BY <1>1, <1>3, <2>2 DEF Done
    <3>2. Len(dimensions) = Count
      BY <2>2, <3>1 DEF IInv, DimensionInv
    <3>3. QED
      BY <1>3, <3>1, <3>2 DEF IInv, DimensionInv
  <2>3. QED
    BY <2>1, <2>2
<1>4. QED
  BY <1>2, <1>3 DEF OneDimension

(* Types of what addVectors and addDocuments keep.                         *)
THEOREM TypeCorrect == Spec => []TypeOK
<1>1. IInv => TypeOK
  BY DEF IInv
<1>2. QED
  BY <1>1, RunsInOrder, PTL

(* Every record is sent with the vector made for it, and reported under    *)
(* the id it is stored under, through both levels of batches.              *)
THEOREM RecordsArePaired == Spec => []PairedUp
<1>1. IInv => PairedUp
  BY DEF IInv
<1>2. QED
  BY <1>1, RunsInOrder, PTL

(* Every request fits the request body (requestRuns), and none ends before *)
(* its batch does or the body is full.                                     *)
THEOREM EveryRequestFits == Spec => []RequestsFit
<1>1. IInv => RequestsFit
  BY DEF IInv
<1>2. QED
  BY <1>1, RunsInOrder, PTL

(* A write that resolves has sent every document once, in order, under an  *)
(* id no other has; one refused before it embeds has sent none; any other  *)
(* has sent the first.                                                     *)
THEOREM NothingEverLost == Spec => []NothingLost
<1>1. IInv => NothingLost
  BY NothingIsLost
<1>2. QED
  BY <1>1, RunsInOrder, PTL

(* All the vectors a call sends have one dimension (assertWriteVectors and *)
(* the dimension the first batch sets in addDocuments).                    *)
THEOREM AllOfOneDimension == Spec => []OneDimension
<1>1. IInv => OneDimension
  BY DimensionIsOne
<1>2. QED
  BY <1>1, RunsInOrder, PTL

=============================================================================
