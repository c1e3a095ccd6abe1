-------------------------- MODULE PaginationProofs --------------------------
(***************************************************************************)
(* Pagination for any number of pages: no conforming service is accused, a *)
(* cycle is found out within its bound, a short answer means the service   *)
(* has no more, and a listing hands out every vector once.                 *)
(*                                                                         *)
(* Then reads by id (D!), for any ids, however often repeated, requests of *)
(* any size, any window, and whatever others write and delete meanwhile;   *)
(* and both next to each other, as MCReads runs them.                      *)
(***************************************************************************)
EXTENDS MCReads, SequenceTheorems, FiniteSetTheorems, WellFoundedInduction, TLAPS

Live == {"begin", "sent", "answered", "suspended"}

(* The token a page hands out.                                             *)
Follows(p) == IF p = length THEN back ELSE p + 1

(* How many tokens the tracker was shown: a page's own once it is left.    *)
Tracked == IF pc \in {"begin", "sent"} THEN pagesRead ELSE pagesRead - 1

(* The i-th page of the read, the one asked for next included.             *)
Place(i) == IF i <= pagesRead THEN read[i] ELSE NextToken

(* A read passes the pages in order and then, if it is led back, goes      *)
(* round: it is where it was one round ago.                                *)
OrderInv ==
  /\ \A i \in 1..pagesRead :
       /\ read[i] \in 1..length
       /\ i <= length => read[i] = i
       /\ i > length => ~Conforming /\ read[i] = read[i - CycleLength]
       /\ i < pagesRead => read[i + 1] = Follows(read[i])
  /\ pc \in {"answered", "suspended", "returned"} => pagesRead > 0
  /\ pc \in {"begin", "sent"} /\ pagesRead > 0 => NextToken # NoToken

(* The token held is that of the place after `power` - 1 of them were      *)
(* counted, and none counted since is the same.                            *)
TrackerInv == pc \in Live =>
  /\ Tracked >= 0 /\ Tracked = power - 1 + sinceRemembered
  /\ power = 1 => remembered = NoToken
  /\ power > 1 => remembered = Place(power)
  /\ power > 1 => \A i \in (power + 1)..(Tracked + 1) : Place(i) # remembered

(* A token is held for longer only while that is shorter than the way to   *)
(* the cycle, or than the cycle.                                           *)
Longer == IF TailLength > CycleLength THEN TailLength ELSE CycleLength

SpanInv == pc \in Live /\ ~Conforming => power <= 2 * Longer

SearchInv == ~listing =>
  /\ pagesRead <= MaxQueryPages
  /\ pc = "begin" => pagesRead = 0
  /\ pc = "sent" => pagesRead < MaxQueryPages

(* A listing has handed out the pages it has read but for what is left of  *)
(* the last.                                                               *)
Held == Sum([i \in 1..pagesRead |-> size[read[i]]], pagesRead)

ListedInv == listing =>
  /\ pc \in {"begin", "sent"} => onPage = 0
  /\ handedOut + onPage = Held
  /\ pc = "returned" => onPage = 0 /\ read = [p \in 1..length |-> p]

EndInv == pc \in Ended => CaughtSoon

IInv ==
  /\ TypeOK /\ OrderInv /\ TrackerInv /\ SpanInv /\ SearchInv /\ ListedInv
  /\ ShortMeansExhausted /\ NoFalseAlarm /\ EndInv
-----------------------------------------------------------------------------
(* Sums, of any function and length.  The smallest number of a set stands  *)
(* in for induction.                                                       *)

(* A set of numbers that has a member has a smallest one.                  *)
LEMMA Smallest ==
  ASSUME NEW S \in SUBSET Nat, S # {}
  PROVE  \E x \in S : \A y \in S : x <= y
<1> DEFINE Less == {p \in Nat \X Nat : p[1] < p[2]}
<1>1. OpToRel(<, Nat) = Less
  BY Zenon DEF OpToRel
<1>2. IsWellFoundedOn(Less, Nat)
  BY <1>1, NatLessThanWellFounded, Zenon
<1> HIDE DEF Less
<1>3. PICK x \in S : \A y \in S : ~(<<y, x>> \in Less)
  BY <1>2, WFMin
<1>4. \A y \in S : x <= y
  <2> TAKE y \in S
  <2>1. x \in Nat /\ y \in Nat
    OBVIOUS
  <2>2. ~(y < x)
    BY <1>3, <2>1 DEF Less
  <2>3. QED
    BY <2>1, <2>2
<1>5. QED
  BY <1>4

(* The partial sums of f up to n, as a function.                           *)
PartialSums(s, f, n) ==
  s \in [0..n -> Int] /\ s[0] = 0 /\ \A m \in 1..n : s[m] = s[m - 1] + f[m]

LEMMA PartialSumsExist ==
  ASSUME NEW f, NEW N \in Nat, \A i \in 1..N : f[i] \in Int
  PROVE  \A n \in 0..N : \E s : PartialSums(s, f, n)
<1> DEFINE bad == {n \in 0..N : ~\E s : PartialSums(s, f, n)}
<1> SUFFICES ASSUME bad # {} PROVE FALSE
  OBVIOUS
<1>1. PICK n \in bad : \A m \in bad : n <= m
  <2>1. bad \in SUBSET Nat
    OBVIOUS
  <2> HIDE DEF bad
  <2>2. QED
    BY <2>1, Smallest
<1>2. n \in 0..N /\ n \in Nat /\ ~\E s : PartialSums(s, f, n)
  OBVIOUS
<1>3. CASE n = 0
  <2>1. PartialSums([m \in 0..0 |-> 0], f, 0)
    BY DEF PartialSums
  <2>2. QED
    BY <1>2, <1>3, <2>1
<1>4. CASE n # 0
  <2>1. n - 1 \in 0..N /\ n - 1 \notin bad /\ n \in 1..N
    BY <1>1, <1>2, <1>4
  <2>2. PICK s : PartialSums(s, f, n - 1)
    BY <2>1
  <2> DEFINE t == [m \in 0..n |-> IF m = n THEN s[n - 1] + f[n] ELSE s[m]]
  <2>3. \A m \in 0..n : m # n => m \in 0..(n - 1)
    BY <1>2
  <2>4. n - 1 \in 0..(n - 1) /\ n - 1 \in 0..n /\ n - 1 # n /\ 0 \in 0..(n - 1) /\ 0 \in 0..n
    BY <1>2, <1>4
  <2>5. t \in [0..n -> Int]
    BY <2>1, <2>2, <2>3, <2>4 DEF PartialSums
  <2>6. t[0] = 0
    BY <1>4, <2>2, <2>4 DEF PartialSums
  <2>7. ASSUME NEW m \in 1..n PROVE t[m] = t[m - 1] + f[m]
    <3>1. m \in 0..n /\ m - 1 \in 0..n /\ m - 1 # n /\ m \in Nat
      BY <1>2
    <3>2. CASE m = n
      BY <2>4, <3>1, <3>2
    <3>3. CASE m # n
      <4>1. m \in 1..(n - 1)
        BY <1>2, <3>3
      <4>2. s[m] = s[m - 1] + f[m]
        BY <2>2, <4>1 DEF PartialSums
      <4>3. QED
        BY <3>1, <3>3, <4>2
    <3>4. QED
      BY <3>2, <3>3
  <2>8. PartialSums(t, f, n)
    <3> HIDE DEF t
    <3>1. QED
      BY <2>5, <2>6, <2>7 DEF PartialSums
  <2>9. QED
    BY <1>2, <2>8
<1>5. QED
  BY <1>3, <1>4

LEMMA SumIsLast ==
  ASSUME NEW f, NEW n \in Nat, NEW s, PartialSums(s, f, n)
  PROVE  Sum(f, n) = s[n]
<1> DEFINE step(t) == [m \in 0..n |-> IF m = 0 THEN 0 ELSE t[m - 1] + f[m]]
           sum == CHOOSE t : t = step(t)
<1>1. s = step(s)
  <2>1. s = [m \in 0..n |-> s[m]]
    BY DEF PartialSums
  <2>2. \A m \in 0..n : s[m] = IF m = 0 THEN 0 ELSE s[m - 1] + f[m]
    BY DEF PartialSums
  <2>3. QED
    BY <2>1, <2>2
<1>2. sum = step(sum)
  <2> HIDE DEF step
  <2>1. \E t : t = step(t)
    BY <1>1
  <2>2. QED
    BY <2>1
<1>3. Sum(f, n) = sum[n]
  BY DEF Sum
<1> HIDE DEF sum
<1>4. \A m \in 0..n : sum[m] = IF m = 0 THEN 0 ELSE sum[m - 1] + f[m]
  BY <1>2
<1> HIDE DEF step
<1> DEFINE bad == {m \in 0..n : sum[m] # s[m]}
<1>5. bad = {}
  <2> SUFFICES ASSUME bad # {} PROVE FALSE
    OBVIOUS
  <2>1. PICK m \in bad : \A p \in bad : m <= p
    <3>1. bad \in SUBSET Nat
      OBVIOUS
    <3> HIDE DEF bad
    <3>2. QED
      BY <3>1, Smallest
  <2>2. m \in 0..n /\ m \in Nat /\ sum[m] # s[m]
    OBVIOUS
  <2>3. CASE m = 0
    BY <1>4, <2>2, <2>3 DEF PartialSums
  <2>4. CASE m # 0
    <3>1. m - 1 \in 0..n /\ ~(m <= m - 1) /\ m \in 1..n
      BY <2>2, <2>4
    <3>2. sum[m - 1] = s[m - 1]
      BY <2>1, <3>1
    <3>3. QED
      BY <1>4, <2>2, <2>4, <3>1, <3>2 DEF PartialSums
  <2>5. QED
    BY <2>3, <2>4
<1>6. n \in 0..n
  OBVIOUS
<1>7. QED
  BY <1>3, <1>5, <1>6

(* A sum is taken term by term.                                            *)
LEMMA SumByTerms ==
  ASSUME NEW f, NEW N \in Nat, \A i \in 1..N : f[i] \in Int
  PROVE  /\ Sum(f, 0) = 0
         /\ \A n \in 0..N : Sum(f, n) \in Int
         /\ \A n \in 1..N : Sum(f, n) = Sum(f, n - 1) + f[n]
<1>1. PICK s : PartialSums(s, f, N)
  <2>1. N \in 0..N
    OBVIOUS
  <2>2. QED
    BY <2>1, PartialSumsExist
<1>2. \A n \in 0..N : Sum(f, n) = s[n]
  <2> TAKE n \in 0..N
  <2> DEFINE t == [m \in 0..n |-> s[m]]
  <2>1. n \in Nat /\ 0 \in 0..n /\ n \in 0..n /\ \A m \in 0..n : m \in 0..N
    OBVIOUS
  <2>2. t \in [0..n -> Int] /\ t[0] = 0
    BY <1>1, <2>1 DEF PartialSums
  <2>3. \A m \in 1..n : t[m] = t[m - 1] + f[m]
    <3> TAKE m \in 1..n
    <3>1. m \in 0..n /\ m - 1 \in 0..n /\ m \in 1..N
      BY <2>1
    <3>2. QED
      BY <1>1, <3>1 DEF PartialSums
  <2>4. PartialSums(t, f, n)
    <3> HIDE DEF t
    <3>1. QED
      BY <2>2, <2>3 DEF PartialSums
  <2>5. Sum(f, n) = t[n]
    <3> HIDE DEF t
    <3>1. QED
      BY <2>1, <2>4, SumIsLast
  <2>6. QED
    BY <2>1, <2>5
<1>3. Sum(f, 0) = 0 /\ \A n \in 0..N : Sum(f, n) \in Int
  <2>1. 0 \in 0..N
    OBVIOUS
  <2>2. QED
    BY <1>1, <1>2, <2>1 DEF PartialSums
<1>4. ASSUME NEW n \in 1..N PROVE Sum(f, n) = Sum(f, n - 1) + f[n]
  <2>1. n \in 0..N /\ n - 1 \in 0..N
    OBVIOUS
  <2>2. QED
    BY <1>1, <1>2, <2>1 DEF PartialSums
<1>5. QED
  BY <1>3, <1>4

(* A sum depends on its terms alone.                                       *)
LEMMA SameTermsSameSum ==
  ASSUME NEW f, NEW g, NEW N \in Nat, \A i \in 1..N : f[i] \in Int /\ g[i] = f[i]
  PROVE  \A n \in 0..N : Sum(g, n) = Sum(f, n)
<1> DEFINE bad == {n \in 0..N : Sum(g, n) # Sum(f, n)}
<1> SUFFICES ASSUME bad # {} PROVE FALSE
  OBVIOUS
<1>1. PICK n \in bad : \A m \in bad : n <= m
  <2>1. bad \in SUBSET Nat
    OBVIOUS
  <2> HIDE DEF bad
  <2>2. QED
    BY <2>1, Smallest
<1>2. n \in 0..N /\ n \in Nat /\ Sum(g, n) # Sum(f, n)
  OBVIOUS
<1>3. /\ Sum(f, 0) = 0 /\ \A m \in 1..N : Sum(f, m) = Sum(f, m - 1) + f[m]
      /\ Sum(g, 0) = 0 /\ \A m \in 1..N : Sum(g, m) = Sum(g, m - 1) + g[m]
  BY SumByTerms
<1>4. CASE n = 0
  BY <1>2, <1>3, <1>4
<1>5. CASE n # 0
  <2>1. n - 1 \in 0..N /\ ~(n <= n - 1) /\ n \in 1..N
    BY <1>2, <1>5
  <2>2. Sum(g, n - 1) = Sum(f, n - 1)
    BY <1>1, <2>1
  <2>3. QED
    BY <1>2, <1>3, <2>1, <2>2
<1>6. QED
  BY <1>4, <1>5

-----------------------------------------------------------------------------
(* Pages and tokens *)

LEMMA Numbers ==
  ASSUME TypeOK
  PROVE  /\ MaxLength \in Nat /\ length \in Nat /\ 1 <= length /\ length <= MaxLength
         /\ back \in Nat /\ back <= length /\ CycleLength \in Nat /\ 1 <= CycleLength
         /\ pagesRead \in Nat /\ power \in Nat /\ 1 <= power
         /\ sinceRemembered \in Nat /\ sinceRemembered < power
         /\ (~Conforming => 1 <= back /\ TailLength \in Nat /\ CycleLength = length - TailLength)
         /\ MaxQueryPages \in Nat /\ 1 <= MaxQueryPages
<1>1. MaxLength \in Nat /\ MaxQueryPages \in Nat /\ 1 <= MaxQueryPages
  BY LengthAssumption, PaginationAssumption
<1>2. length \in 1..MaxLength /\ back \in 0..length /\ read \in Seq(Pages)
      /\ power \in Nat \ {0} /\ sinceRemembered \in 0..(power - 1)
  BY DEF TypeOK, TokensTypeOK, Pages
<1>3. pagesRead \in Nat
  BY <1>2, LenProperties DEF pagesRead
<1>4. QED
  BY <1>1, <1>2, <1>3 DEF CycleLength, TailLength, Conforming, NoToken

(* The token of the page last read, if there is one, is that of a page: of *)
(* the next, or of the one that came a round earlier.                      *)
LEMMA TokenIsPlace ==
  ASSUME TypeOK, OrderInv, pagesRead > 0, NextToken # NoToken
  PROVE  /\ NextToken \in 1..length /\ NextToken = Follows(read[pagesRead])
         /\ pagesRead + 1 <= length => NextToken = pagesRead + 1
         /\ pagesRead + 1 > length =>
              ~Conforming /\ pagesRead + 1 - CycleLength \in 1..pagesRead
                /\ NextToken = read[pagesRead + 1 - CycleLength]
<1> DEFINE n == pagesRead
<1>1. /\ length \in Nat /\ 1 <= length /\ back \in Nat /\ back <= length
      /\ CycleLength \in Nat /\ 1 <= CycleLength /\ n \in Nat /\ n \in 1..n
      /\ CycleLength = length - back + 1
  BY Numbers DEF CycleLength
<1>2. NextToken = Follows(read[n])
  BY DEF NextToken, Follows
<1>3. read[n] \in 1..length /\ (n <= length => read[n] = n)
  BY <1>1 DEF OrderInv
<1>4. NextToken \in 1..length
  BY <1>1, <1>2, <1>3 DEF Follows, NoToken
<1>5. CASE n < length
  BY <1>1, <1>2, <1>3, <1>4, <1>5 DEF Follows
<1>6. CASE n = length
  <2>1. NextToken = back /\ back # 0
    <3>1. read[n] = length
      BY <1>1, <1>3, <1>6
    <3>2. QED
      BY <1>2, <3>1 DEF Follows, NoToken
  <2>2. n + 1 - CycleLength = back /\ back \in 1..n
    BY <1>1, <1>6, <2>1
  <2>3. read[back] = back
    BY <1>1, <2>2 DEF OrderInv
  <2>4. QED
    BY <1>1, <1>2, <1>4, <1>6, <2>1, <2>2, <2>3 DEF Conforming, NoToken
<1>7. CASE n > length
  <2>1. ~Conforming /\ read[n] = read[n - CycleLength]
    BY <1>1, <1>7 DEF OrderInv
  <2>2. back >= 1 /\ n - CycleLength \in 1..n /\ n - CycleLength < n
        /\ n - CycleLength + 1 = n + 1 - CycleLength /\ n + 1 - CycleLength \in 1..n
    BY <1>1, <1>7, <2>1 DEF Conforming, NoToken
  <2>3. read[n - CycleLength + 1] = Follows(read[n - CycleLength])
    BY <2>2 DEF OrderInv
  <2>4. QED
    BY <1>1, <1>2, <1>4, <1>7, <2>1, <2>2, <2>3
<1>8. QED
  BY <1>1, <1>5, <1>6, <1>7

(* The last page of a service that leads nowhere is the end.               *)
LEMMA NoTokenIsEnd ==
  ASSUME TypeOK, OrderInv, pagesRead > 0, NextToken = NoToken
  PROVE  Conforming /\ pagesRead = length /\ read = [p \in 1..length |-> p]
<1>1. /\ length \in Nat /\ pagesRead \in Nat /\ pagesRead \in 1..pagesRead
      /\ read \in Seq(Pages) /\ back \in Nat
  BY Numbers DEF TypeOK, TokensTypeOK
<1>2. read[pagesRead] \in 1..length
  BY <1>1 DEF OrderInv
<1>3. read[pagesRead] = length /\ back = NoToken
  BY <1>1, <1>2 DEF NextToken, NoToken
<1>4. Conforming /\ pagesRead <= length
  BY <1>1, <1>3 DEF OrderInv, Conforming
<1>5. pagesRead = length
  BY <1>1, <1>3, <1>4 DEF OrderInv
<1>6. \A i \in 1..length : read[i] = i
  BY <1>1, <1>5 DEF OrderInv
<1>7. read = [i \in 1..Len(read) |-> read[i]]
  BY <1>1, LenProperties
<1>8. QED
  BY <1>4, <1>5, <1>6, <1>7 DEF pagesRead

(* Once the token held is in the cycle it is met again before a round is   *)
(* over.                                                                   *)
LEMMA MetWithinARound ==
  ASSUME TypeOK, OrderInv, ~Conforming, pagesRead > 0, NEW s \in Nat,
         power + s <= pagesRead + 1, power > TailLength, remembered = Place(power),
         \A i \in (power + 1)..(power + s) : Place(i) # remembered
  PROVE  s < CycleLength
<1> SUFFICES ASSUME s >= CycleLength PROVE FALSE
  BY Numbers
<1> DEFINE i == power + CycleLength
<1>1. /\ length \in Nat /\ 1 <= length /\ CycleLength \in Nat /\ 1 <= CycleLength
      /\ pagesRead \in Nat /\ power \in Nat /\ 1 <= power /\ TailLength \in Nat
      /\ CycleLength = length - TailLength
  BY Numbers
<1>2. i \in (power + 1)..(power + s) /\ i > length /\ i <= pagesRead + 1
      /\ i - CycleLength = power /\ power <= pagesRead
  BY <1>1
<1>3. NextToken # NoToken
  BY NoTokenIsEnd
<1>4. Place(i) = Place(power)
  <2>1. CASE i <= pagesRead
    <3>1. i \in 1..pagesRead
      BY <1>1, <2>1
    <3>2. read[i] = read[power]
      BY <1>2, <3>1 DEF OrderInv
    <3>3. QED
      BY <1>2, <2>1, <3>2 DEF Place
  <2>2. CASE i = pagesRead + 1
    <3>1. pagesRead + 1 > length /\ pagesRead + 1 - CycleLength = power /\ ~(i <= pagesRead)
      BY <1>1, <1>2, <2>2
    <3>2. NextToken = read[power]
      BY <1>3, <3>1, TokenIsPlace
    <3>3. QED
      BY <1>2, <3>1, <3>2 DEF Place
  <2>3. QED
    BY <1>1, <1>2, <2>1, <2>2
<1>5. QED
  BY <1>2, <1>4

(* While the read goes on it has not come further than that.               *)
LEMMA NotFar ==
  ASSUME TypeOK, OrderInv, TrackerInv, SpanInv, pc \in Live, ~Conforming
  PROVE  pagesRead <= CycleLength + 2 * Longer - 1
<1>1. /\ length \in Nat /\ 1 <= length /\ CycleLength \in Nat /\ 1 <= CycleLength
      /\ pagesRead \in Nat /\ power \in Nat /\ 1 <= power /\ TailLength \in Nat
      /\ sinceRemembered \in Nat /\ sinceRemembered < power
  BY Numbers
<1>2. /\ Tracked = power - 1 + sinceRemembered /\ Tracked \in {pagesRead, pagesRead - 1}
      /\ power <= 2 * Longer
  BY DEF TrackerInv, SpanInv, Tracked
<1>3. Longer \in Nat /\ TailLength <= Longer /\ CycleLength <= Longer
  BY <1>1 DEF Longer
<1>4. pagesRead <= power + sinceRemembered
  BY <1>1, <1>2
<1>5. CASE power = 1
  BY <1>1, <1>2, <1>3, <1>4, <1>5
<1>6. CASE power > 1 /\ power <= TailLength
  BY <1>1, <1>2, <1>3, <1>4, <1>6
<1>7. CASE power > 1 /\ power > TailLength
  <2>1. /\ Tracked + 1 = power + sinceRemembered /\ power + sinceRemembered <= pagesRead + 1
        /\ pagesRead > 0
    BY <1>1, <1>2, <1>7
  <2>2. /\ remembered = Place(power)
        /\ \A i \in (power + 1)..(power + sinceRemembered) : Place(i) # remembered
    BY <1>7, <2>1 DEF TrackerInv
  <2>3. sinceRemembered < CycleLength
    BY <1>1, <1>7, <2>1, <2>2, MetWithinARound
  <2>4. QED
    BY <1>1, <1>2, <1>3, <1>4, <2>3
<1>8. QED
  BY <1>1, <1>5, <1>6, <1>7

(* On a service that leads nowhere, the token held is of a page already    *)
(* read.                                                                   *)
LEMMA NotAccused ==
  ASSUME TypeOK, OrderInv, TrackerInv, pc = "answered", NextToken # NoToken, Conforming
  PROVE  NextToken # remembered
<1>1. /\ length \in Nat /\ pagesRead \in Nat /\ power \in Nat /\ 1 <= power
      /\ sinceRemembered \in Nat /\ pagesRead > 0
  BY Numbers DEF OrderInv
<1>2. NextToken = pagesRead + 1
  BY <1>1, TokenIsPlace
<1>3. Tracked = pagesRead - 1 /\ Tracked = power - 1 + sinceRemembered
  BY DEF TrackerInv, Tracked, Live
<1>4. CASE power = 1
  BY <1>4 DEF TrackerInv, Live
<1>5. CASE power > 1
  <2>1. power \in 1..pagesRead
    BY <1>1, <1>3
  <2>2. power <= length
    BY <1>1, <2>1 DEF OrderInv
  <2>3. read[power] = power
    BY <2>1, <2>2 DEF OrderInv
  <2>4. remembered = power
    BY <1>1, <1>5, <2>1, <2>3 DEF TrackerInv, Place, Live
  <2>5. QED
    BY <1>1, <1>2, <2>1, <2>4
<1>6. QED
  BY <1>1, <1>4, <1>5

LEMMA CaughtMeanwhile == IInv => CaughtSoon
<1> SUFFICES ASSUME IInv PROVE CaughtSoon
  OBVIOUS
<1>1. TypeOK /\ OrderInv /\ TrackerInv /\ SpanInv /\ SearchInv /\ EndInv
  BY DEF IInv
<1>2. CASE pc \in Ended
  BY <1>1, <1>2 DEF EndInv
<1>3. CASE pc \in Live
  BY <1>1, <1>3, NotFar DEF CaughtSoon, Longer, SearchInv
<1>4. QED
  BY <1>1, <1>2, <1>3 DEF TypeOK, Live

-----------------------------------------------------------------------------
(* The steps *)

(* A step that reads no page and tracks no token.                          *)
LEMMA QuietStep ==
  ASSUME IInv, UNCHANGED <<service, read, tracker, loop, collected>>,
         \/ pc' = pc
         \/ <<pc, pc'>> \in {<<"begin", "sent">>, <<"answered", "suspended">>,
                             <<"suspended", "answered">>}
         \/ pc' \in {"failed", "stopped"}
  PROVE  /\ OrderInv' /\ TrackerInv' /\ SpanInv' /\ TokensTypeOK'
         /\ ShortMeansExhausted' /\ NoFalseAlarm' /\ EndInv'
<1> USE DEF service, tracker, loop
<1>1. /\ OrderInv /\ TrackerInv /\ SpanInv /\ TypeOK
      /\ ShortMeansExhausted /\ NoFalseAlarm /\ CaughtSoon
      /\ UNCHANGED <<length, back, read, remembered, power, sinceRemembered, listing, k, collected>>
  BY CaughtMeanwhile DEF IInv
<1>2. UNCHANGED <<pagesRead, NextToken, Conforming, CycleLength, TailLength, Longer>>
  BY <1>1 DEF pagesRead, NextToken, Conforming, CycleLength, TailLength, Longer
<1>3. \A i : Place(i)' = Place(i) /\ Follows(i)' = Follows(i)
  BY <1>1, <1>2 DEF Place, Follows
<1>4. pc' \in Live => pc \in Live /\ Tracked' = Tracked
  BY <1>2 DEF Live, Tracked
<1>5. OrderInv'
  BY <1>1, <1>2, <1>3 DEF OrderInv
<1>6. TrackerInv'
  BY <1>1, <1>3, <1>4 DEF TrackerInv
<1>7. SpanInv'
  BY <1>1, <1>2, <1>4 DEF SpanInv
<1>8. TokensTypeOK'
  BY <1>1 DEF TypeOK, TokensTypeOK
<1>9. pc' \in {"returned", "repeated"} => pc' = pc
  OBVIOUS
<1>10. ShortMeansExhausted' /\ NoFalseAlarm' /\ EndInv'
  BY <1>1, <1>2, <1>9 DEF ShortMeansExhausted, NoFalseAlarm, EndInv, CaughtSoon, Returned, Satisfied
<1>11. QED
  BY <1>5, <1>6, <1>7, <1>8, <1>10

LEMMA BeginStep == ASSUME IInv, Begin PROVE IInv'
<1> USE DEF service, tracker, loop, counters
<1>1. /\ pc = "begin" /\ pc' \in {"sent", "failed"} /\ TypeOK /\ SearchInv /\ ListedInv
      /\ UNCHANGED <<length, back, read, remembered, power, sinceRemembered, size, listing, k>>
      /\ UNCHANGED <<collected, handedOut, onPage, fired>>
  BY DEF IInv, Begin
<1>2. /\ OrderInv' /\ TrackerInv' /\ SpanInv' /\ TokensTypeOK'
      /\ ShortMeansExhausted' /\ NoFalseAlarm' /\ EndInv'
  BY <1>1, QuietStep
<1>3. TypeOK'
  BY <1>1, <1>2 DEF TypeOK, Ended
<1>4. SearchInv'
  BY <1>1, Numbers DEF SearchInv, pagesRead
<1>5. ListedInv'
  BY <1>1 DEF ListedInv, Held, pagesRead
<1>6. QED
  BY <1>2, <1>3, <1>4, <1>5 DEF IInv

(* The consumer's steps, the failures and the signal.                      *)
LEMMA OtherStep ==
  ASSUME IInv, Fails \/ Fire \/ Yield \/ RefuseVector \/ Resume \/ UNCHANGED vars
  PROVE  IInv'
<1> USE DEF service, tracker, loop, counters
<1>1. /\ TypeOK /\ OrderInv /\ SearchInv /\ ListedInv
      /\ UNCHANGED <<length, back, read, remembered, power, sinceRemembered, size, listing, k>>
      /\ collected' = collected
      /\ \/ pc' = pc
         \/ <<pc, pc'>> \in {<<"answered", "suspended">>, <<"suspended", "answered">>}
         \/ pc' \in {"failed", "stopped"}
  BY DEF IInv, Fails, Fire, Yield, RefuseVector, Resume, vars
<1>2. /\ OrderInv' /\ TrackerInv' /\ SpanInv' /\ TokensTypeOK'
      /\ ShortMeansExhausted' /\ NoFalseAlarm' /\ EndInv'
  BY <1>1, QuietStep
<1>3. /\ handedOut \in Nat /\ onPage \in 0..MaxSize /\ fired \in BOOLEAN /\ MaxSize \in Nat
  BY <1>1, PaginationAssumption DEF TypeOK
<1>4. /\ handedOut' \in Nat /\ onPage' \in 0..MaxSize /\ fired' \in BOOLEAN
      /\ handedOut' + onPage' = handedOut + onPage
      /\ onPage' = onPage \/ pc' = "suspended"
  <2>1. CASE Yield
    BY <1>3, <2>1 DEF Yield
  <2>2. CASE Fails \/ Fire \/ RefuseVector \/ Resume \/ UNCHANGED vars
    BY <1>3, <2>2 DEF Fails, Fire, RefuseVector, Resume, vars
  <2>3. QED
    BY <2>1, <2>2
<1>5. TypeOK'
  BY <1>1, <1>2, <1>4 DEF TypeOK, Ended
<1>6. SearchInv'
  BY <1>1 DEF SearchInv, pagesRead
<1>7. ListedInv'
  <2>1. Held' = Held
    BY <1>1 DEF Held, pagesRead
  <2>2. QED
    BY <1>1, <1>4, <2>1 DEF ListedInv
<1>8. QED
  BY <1>2, <1>5, <1>6, <1>7 DEF IInv

(* A page is read: the one the token led to.                               *)
LEMMA PageRead ==
  ASSUME IInv, Answered
  PROVE  /\ Asked \in 1..length /\ Asked \in Pages /\ pagesRead' = pagesRead + 1
         /\ read' \in Seq(Pages) /\ read'[pagesRead + 1] = Asked
         /\ \A i \in 1..pagesRead : read'[i] = read[i]
         /\ pagesRead > 0 => Asked = NextToken
         /\ OrderInv'
<1> USE DEF service, tracker, loop
<1>1. /\ pc = "sent" /\ pc' = "answered" /\ read' = Append(read, Asked) /\ TypeOK /\ OrderInv
      /\ UNCHANGED <<length, back>>
  BY DEF IInv, Answered
<1>2. /\ MaxLength \in Nat /\ length \in Nat /\ 1 <= length /\ length <= MaxLength
      /\ pagesRead \in Nat /\ read \in Seq(Pages) /\ CycleLength \in Nat /\ 1 <= CycleLength
  BY <1>1, Numbers DEF TypeOK, TokensTypeOK
<1>3. pagesRead > 0 => Asked = NextToken /\ NextToken # NoToken
  BY <1>1 DEF Asked, OrderInv
<1>4. Asked \in 1..length
  <2>1. pagesRead = 0 => Asked = 1
    BY DEF Asked
  <2>2. QED
    BY <1>1, <1>2, <1>3, <2>1, TokenIsPlace
<1>5. Asked \in Pages
  BY <1>2, <1>4 DEF Pages
<1>6. /\ read' \in Seq(Pages) /\ pagesRead' = pagesRead + 1 /\ read'[pagesRead + 1] = Asked
      /\ \A i \in 1..pagesRead : read'[i] = read[i]
  BY <1>1, <1>2, <1>5, AppendProperties DEF pagesRead
<1>7. OrderInv'
  <2>1. UNCHANGED <<Conforming, CycleLength>> /\ \A p : Follows(p)' = Follows(p)
    BY <1>1 DEF Conforming, CycleLength, Follows
  <2>2. ASSUME NEW i \in 1..pagesRead
        PROVE  /\ read'[i] \in 1..length
               /\ i <= length => read'[i] = i
               /\ i > length => ~Conforming /\ read'[i] = read'[i - CycleLength]
               /\ i < pagesRead + 1 => read'[i + 1] = Follows(read'[i])
    <3>1. /\ read[i] \in 1..length /\ (i <= length => read[i] = i)
          /\ i > length => ~Conforming /\ read[i] = read[i - CycleLength]
          /\ i < pagesRead => read[i + 1] = Follows(read[i])
      BY <1>1 DEF OrderInv
    <3>2. i > length => i - CycleLength \in 1..pagesRead
      <4>1. ~Conforming => TailLength \in Nat /\ CycleLength = length - TailLength
        BY <1>1, Numbers
      <4>2. QED
        BY <1>2, <3>1, <4>1
    <3>3. read'[i + 1] = Follows(read'[i])
      <4>1. CASE i < pagesRead
        <5>1. i + 1 \in 1..pagesRead
          BY <1>2, <4>1
        <5>2. QED
          BY <1>6, <3>1, <4>1, <5>1
      <4>2. CASE i = pagesRead
        <5>1. Asked = Follows(read[pagesRead])
          BY <1>1, <1>2, <1>3, <4>2, TokenIsPlace
        <5>2. QED
          BY <1>6, <4>2, <5>1
      <4>3. QED
        BY <1>2, <4>1, <4>2
    <3>4. QED
      BY <1>6, <3>1, <3>2, <3>3
  <2>3. /\ pagesRead + 1 <= length => Asked = pagesRead + 1
        /\ pagesRead + 1 > length =>
             ~Conforming /\ Asked = read'[pagesRead + 1 - CycleLength]
    <3>1. CASE pagesRead = 0
      BY <1>2, <3>1 DEF Asked
    <3>2. CASE pagesRead > 0
      BY <1>1, <1>3, <1>6, <3>2, TokenIsPlace
    <3>3. QED
      BY <1>2, <3>1, <3>2
  <2>4. \A i \in 1..(pagesRead + 1) : i \in 1..pagesRead \/ i = pagesRead + 1
    BY <1>2
  <2>5. \A i \in 1..pagesRead' :
          /\ read'[i] \in 1..length'
          /\ i <= length' => read'[i] = i
          /\ i > length' => ~Conforming' /\ read'[i] = read'[i - CycleLength']
          /\ i < pagesRead' => read'[i + 1] = IF read'[i] = length' THEN back' ELSE read'[i] + 1
    <3> SUFFICES ASSUME NEW i \in 1..(pagesRead + 1)
                 PROVE  /\ read'[i] \in 1..length
                        /\ i <= length => read'[i] = i
                        /\ i > length => ~Conforming /\ read'[i] = read'[i - CycleLength]
                        /\ i < pagesRead + 1 => read'[i + 1] = Follows(read'[i])
      BY <1>1, <1>6, <2>1 DEF Follows
    <3>1. CASE i \in 1..pagesRead
      BY <2>2, <3>1
    <3>2. CASE i = pagesRead + 1
      BY <1>2, <1>4, <1>6, <2>3, <3>2
    <3>3. QED
      BY <2>4, <3>1, <3>2
  <2>6. pagesRead' > 0
    BY <1>2, <1>6
  <2>7. QED
    BY <1>1, <2>5, <2>6 DEF OrderInv, Follows
<1>8. QED
  BY <1>3, <1>4, <1>5, <1>6, <1>7

LEMMA AnsweredStep == ASSUME IInv, Answered PROVE IInv'
<1> USE DEF service, tracker, loop
<1>1. /\ pc = "sent" /\ pc' = "answered" /\ TypeOK /\ OrderInv /\ TrackerInv /\ SpanInv
      /\ SearchInv /\ ListedInv
      /\ UNCHANGED <<length, back, remembered, power, sinceRemembered, size, listing, k>>
      /\ UNCHANGED <<handedOut, fired>>
  BY DEF IInv, Answered
<1>2. /\ Asked \in Pages /\ pagesRead' = pagesRead + 1
      /\ read' \in Seq(Pages) /\ read'[pagesRead + 1] = Asked
      /\ \A i \in 1..pagesRead : read'[i] = read[i]
      /\ pagesRead > 0 => Asked = NextToken
      /\ OrderInv'
  BY PageRead
<1>3. /\ pagesRead \in Nat /\ power \in Nat /\ 1 <= power /\ sinceRemembered \in Nat
  BY <1>1, Numbers
<1>4. TypeOK'
  <2>1. size[Asked] \in 0..MaxSize /\ size[Asked] \in Nat
    BY <1>1, <1>2, PaginationAssumption DEF TypeOK
  <2>2. collected' \in Nat /\ onPage' \in 0..MaxSize
    BY <1>1, <2>1 DEF Answered, TypeOK
  <2>3. TokensTypeOK'
    BY <1>1, <1>2 DEF TypeOK, TokensTypeOK
  <2>4. QED
    BY <1>1, <2>2, <2>3 DEF TypeOK
<1>5. TrackerInv'
  <2>1. Tracked = pagesRead /\ Tracked' = pagesRead
    BY <1>1, <1>2, <1>3 DEF Tracked
  <2>2. /\ Tracked >= 0 /\ Tracked = power - 1 + sinceRemembered
        /\ power = 1 => remembered = NoToken
        /\ power > 1 => remembered = Place(power)
        /\ power > 1 => \A i \in (power + 1)..(Tracked + 1) : Place(i) # remembered
    BY <1>1 DEF TrackerInv, Live
  <2>3. ASSUME power > 1, NEW i \in 1..(pagesRead + 1) PROVE Place(i)' = Place(i)
    <3>1. pagesRead > 0
      BY <1>3, <2>1, <2>2, <2>3
    <3>2. /\ i <= pagesRead'
          /\ i \in 1..pagesRead \/ (i = pagesRead + 1 /\ ~(i <= pagesRead))
      BY <1>2, <1>3
    <3>3. QED
      BY <1>2, <3>1, <3>2 DEF Place
  <2>4. power > 1 => power \in 1..(pagesRead + 1)
    BY <1>3, <2>1, <2>2
  <2>5. \A i \in (power + 1)..(Tracked + 1) : i \in 1..(pagesRead + 1)
    BY <1>3, <2>1
  <2>6. QED
    BY <1>1, <2>1, <2>2, <2>3, <2>4, <2>5 DEF TrackerInv
<1>6. SpanInv'
  BY <1>1 DEF SpanInv, Conforming, Longer, CycleLength, TailLength, Live
<1>7. SearchInv'
  BY <1>1, <1>2, <1>3, PaginationAssumption DEF SearchInv
<1>8. ListedInv'
  <2> SUFFICES ASSUME listing PROVE handedOut + onPage' = Held'
    BY <1>1 DEF ListedInv
  <2>1. onPage' = size[Asked] /\ handedOut = Held /\ handedOut \in Nat
    BY <1>1 DEF Answered, ListedInv, TypeOK
  <2> DEFINE f == [i \in 1..pagesRead |-> size[read[i]]]
             g == [i \in 1..(pagesRead + 1) |-> size[read'[i]]]
  <2>2. Held' = Sum(g, pagesRead + 1)
    BY <1>1, <1>2 DEF Held
  <2>3. \A i \in 1..(pagesRead + 1) : g[i] \in Int
    <3>1. \A i \in 1..(pagesRead + 1) : read'[i] \in Pages
      BY <1>2, <1>3, ElementOfSeq DEF pagesRead
    <3>2. QED
      BY <1>1, <3>1 DEF TypeOK
  <2>4. \A i \in 1..pagesRead : f[i] \in Int /\ g[i] = f[i]
    BY <1>2, <1>3, <2>3
  <2>5. g[pagesRead + 1] = size[Asked]
    BY <1>2, <1>3
  <2>6. Held = Sum(f, pagesRead)
    BY DEF Held
  <2> HIDE DEF f, g
  <2>7. PICK n \in Nat : n = pagesRead
    BY <1>3
  <2>8. Sum(g, n) = Sum(f, n) /\ Sum(f, n) \in Int
    <3>1. \A i \in 1..n : f[i] \in Int /\ g[i] = f[i]
      BY <2>4, <2>7
    <3>2. n \in 0..n
      BY <2>7
    <3>3. QED
      BY <2>7, <3>1, <3>2, SameTermsSameSum, SumByTerms
  <2>9. Sum(g, n + 1) = Sum(g, n) + g[n + 1]
    <3>1. \A i \in 1..(n + 1) : g[i] \in Int
      BY <2>3, <2>7
    <3>2. n + 1 \in 1..(n + 1) /\ n + 1 \in Nat /\ (n + 1) - 1 = n
      BY <2>7
    <3>3. Sum(g, n + 1) = Sum(g, (n + 1) - 1) + g[n + 1]
      BY <3>1, <3>2, SumByTerms
    <3>4. QED
      BY <3>2, <3>3
  <2>10. QED
    BY <2>1, <2>2, <2>5, <2>6, <2>7, <2>8, <2>9
<1>9. ShortMeansExhausted' /\ NoFalseAlarm' /\ EndInv'
  BY <1>1 DEF ShortMeansExhausted, NoFalseAlarm, EndInv, Ended
<1>10. QED
  BY <1>2, <1>4, <1>5, <1>6, <1>7, <1>8, <1>9 DEF IInv

(* A token that does not repeat is counted; when it is the one held from   *)
(* now on, the span was still shorter than the way to the cycle or than    *)
(* the cycle.                                                              *)
LEMMA TrackStep ==
  ASSUME TypeOK, OrderInv, TrackerInv, SpanInv, pc = "answered",
         NextToken # NoToken, ~Repeats(NextToken), Track(NextToken),
         pc' \in {"begin", "sent", "ceiling"}, UNCHANGED <<service, read>>
  PROVE  TokensTypeOK' /\ OrderInv' /\ TrackerInv' /\ SpanInv'
<1> USE DEF service
<1>1. /\ length \in Nat /\ MaxLength \in Nat /\ length <= MaxLength
      /\ pagesRead \in Nat /\ power \in Nat /\ 1 <= power /\ pagesRead > 0
      /\ sinceRemembered \in Nat /\ sinceRemembered < power
      /\ CycleLength \in Nat /\ 1 <= CycleLength
  BY Numbers DEF OrderInv
<1>2. NextToken # remembered /\ NextToken \in 1..length
  BY <1>1, TokenIsPlace DEF Repeats
<1>3. UNCHANGED <<pagesRead, NextToken, Conforming, CycleLength, TailLength, Longer>>
  BY DEF pagesRead, NextToken, Conforming, CycleLength, TailLength, Longer
<1>4. OrderInv'
  <2>1. \A i : Follows(i)' = Follows(i)
    BY DEF Follows
  <2>2. QED
    BY <1>1, <1>3, <2>1 DEF OrderInv
<1>5. \A i : Place(i)' = Place(i)
  BY <1>3 DEF Place
<1>6. /\ Tracked = pagesRead - 1 /\ Tracked = power - 1 + sinceRemembered
      /\ power = 1 => remembered = NoToken
      /\ power > 1 => remembered = Place(power)
      /\ power > 1 => \A i \in (power + 1)..(Tracked + 1) : Place(i) # remembered
  BY DEF TrackerInv, Live, Tracked
<1>7. pc' \in Live => Tracked' = pagesRead
  BY <1>3 DEF Tracked, Live
<1>8. Place(pagesRead + 1) = NextToken
  BY <1>1 DEF Place
<1>9. CASE /\ sinceRemembered + 1 = power
           /\ remembered' = NextToken /\ power' = power * 2 /\ sinceRemembered' = 0
  <2>1. power' = pagesRead + 1 /\ power' > 1 /\ power' \in Nat \ {0} /\ power' # 1
    BY <1>1, <1>6, <1>9
  <2>2. TokensTypeOK'
    BY <1>1, <1>2, <1>9, <2>1 DEF TypeOK, TokensTypeOK
  <2>3. TrackerInv'
    <3> SUFFICES ASSUME pc' \in Live PROVE TrackerInv'
      BY DEF TrackerInv
    <3>1. Tracked' >= 0 /\ Tracked' = power' - 1 + sinceRemembered'
      BY <1>1, <1>7, <1>9, <2>1
    <3>2. remembered' = IF power' <= pagesRead' THEN read'[power'] ELSE NextToken'
      BY <1>1, <1>3, <1>9, <2>1
    <3>3. \A i \in (power' + 1)..(Tracked' + 1) : FALSE
      BY <1>1, <1>7, <2>1
    <3>4. QED
      BY <2>1, <3>1, <3>2, <3>3 DEF TrackerInv, Place
  <2>4. SpanInv'
    <3> SUFFICES ASSUME ~Conforming PROVE power' <= 2 * Longer
      BY <1>3 DEF SpanInv
    <3>1. TailLength \in Nat /\ TailLength <= Longer /\ CycleLength <= Longer /\ Longer \in Nat
      BY <1>1, Numbers DEF Longer
    <3>2. CASE power = 1
      BY <1>1, <1>9, <3>1, <3>2
    <3>3. CASE power <= TailLength
      BY <1>1, <1>9, <3>1, <3>3
    <3>4. CASE power > 1 /\ power > TailLength
      <4>1. PICK s \in Nat : s = power
        BY <1>1
      <4>2. power + s <= pagesRead + 1
        BY <1>1, <1>6, <1>9, <4>1
      <4>3. ASSUME NEW i \in (power + 1)..(power + s) PROVE Place(i) # remembered
        <5>1. i \in (power + 1)..(Tracked + 1) \/ i = pagesRead + 1
          BY <1>1, <1>6, <1>9, <4>1
        <5>2. QED
          BY <1>2, <1>6, <1>8, <3>4, <5>1
      <4>4. s < CycleLength
        BY <1>1, <1>6, <3>4, <4>1, <4>2, <4>3, MetWithinARound
      <4>5. QED
        BY <1>1, <1>9, <3>1, <4>1, <4>4
    <3>5. QED
      BY <1>1, <3>1, <3>2, <3>3, <3>4
  <2>5. QED
    BY <1>4, <2>2, <2>3, <2>4
<1>10. CASE /\ sinceRemembered + 1 # power
            /\ sinceRemembered' = sinceRemembered + 1 /\ UNCHANGED <<remembered, power>>
  <2>1. TokensTypeOK'
    BY <1>1, <1>10 DEF TypeOK, TokensTypeOK
  <2>2. SpanInv'
    BY <1>3, <1>10 DEF SpanInv, Live
  <2>3. TrackerInv'
    <3> SUFFICES ASSUME pc' \in Live PROVE TrackerInv'
      BY DEF TrackerInv
    <3>1. Tracked' >= 0 /\ Tracked' = power' - 1 + sinceRemembered'
      BY <1>1, <1>6, <1>7, <1>10
    <3>2. \A i \in (power + 1)..(Tracked' + 1) :
             i \in (power + 1)..(Tracked + 1) \/ i = pagesRead + 1
      BY <1>1, <1>6, <1>7
    <3>3. power > 1 => \A i \in (power + 1)..(Tracked' + 1) : Place(i)' # remembered
      BY <1>2, <1>5, <1>6, <1>8, <3>2
    <3>4. power > 1 => remembered = IF power <= pagesRead' THEN read'[power] ELSE NextToken'
      BY <1>3, <1>6 DEF Place
    <3>5. QED
      BY <1>6, <1>10, <3>1, <3>3, <3>4 DEF TrackerInv, Place
  <2>4. QED
    BY <1>4, <2>1, <2>2, <2>3
<1>11. QED
  BY <1>9, <1>10 DEF Track, Remember

(* The end of a turn of either loop: the answer, a refusal or the next     *)
(* page.                                                                   *)
LEMMA LoopTurns ==
  ASSUME IInv, pc = "answered", UNCHANGED <<service, read, loop, counters, fired>>,
         listing => onPage = 0,
         \/ /\ pc' = "returned" /\ UNCHANGED tracker
            /\ NextToken = NoToken \/ (~listing /\ Satisfied)
         \/ /\ NextToken # NoToken
            /\ \/ Repeats(NextToken) /\ pc' = "repeated" /\ UNCHANGED tracker
               \/ /\ ~Repeats(NextToken) /\ Track(NextToken)
                  /\ pc' = IF listing THEN "begin"
                           ELSE IF pagesRead < MaxQueryPages THEN "sent" ELSE "ceiling"
  PROVE  IInv'
<1> USE DEF service, loop, counters, tracker
<1>1. /\ TypeOK /\ OrderInv /\ TrackerInv /\ SpanInv /\ SearchInv /\ ListedInv /\ CaughtSoon
      /\ UNCHANGED <<length, back, read, size, listing, k, collected, handedOut, onPage, fired>>
      /\ pc' \in {"returned", "repeated", "begin", "sent", "ceiling"} /\ pagesRead > 0
  BY CaughtMeanwhile DEF IInv, OrderInv
<1>2. UNCHANGED <<pagesRead, NextToken, Conforming, CycleLength, TailLength, Held>>
  BY <1>1 DEF pagesRead, NextToken, Conforming, CycleLength, TailLength, Held
<1>3. TokensTypeOK' /\ OrderInv' /\ TrackerInv' /\ SpanInv'
  <2>1. CASE pc' \in {"returned", "repeated"}
    <3>1. UNCHANGED tracker
      BY <2>1
    <3>2. \A i : Follows(i)' = Follows(i)
      BY <1>1 DEF Follows
    <3>3. OrderInv'
      BY <1>1, <1>2, <2>1, <3>2 DEF OrderInv
    <3>4. QED
      BY <1>1, <2>1, <3>1, <3>3 DEF TypeOK, TokensTypeOK, TrackerInv, SpanInv, Live
  <2>2. CASE pc' \in {"begin", "sent", "ceiling"}
    <3>1. NextToken # NoToken /\ ~Repeats(NextToken) /\ Track(NextToken)
      BY <2>2
    <3>2. QED
      BY <1>1, <2>2, <3>1, TrackStep
  <2>3. QED
    BY <1>1, <2>1, <2>2
<1>4. TypeOK'
  BY <1>1, <1>3 DEF TypeOK, Ended
<1>5. SearchInv'
  BY <1>1, <1>2 DEF SearchInv
<1>6. ListedInv'
  <2> SUFFICES ASSUME listing PROVE ListedInv'
    BY <1>1 DEF ListedInv
  <2>1. pc' = "returned" => read = [p \in 1..length |-> p]
    BY <1>1, NoTokenIsEnd
  <2>2. QED
    BY <1>1, <1>2, <2>1 DEF ListedInv
<1>7. ShortMeansExhausted'
  <2> SUFFICES ASSUME pc' = "returned", ~listing, Returned < k
               PROVE  Conforming /\ pagesRead = length
    BY <1>1, <1>2 DEF ShortMeansExhausted, Returned, Satisfied
  <2>1. k \in Nat
    BY <1>1, PaginationAssumption DEF TypeOK
  <2>2. ~Satisfied
    BY <2>1 DEF Returned
  <2>3. NextToken = NoToken
    BY <2>2
  <2>4. QED
    BY <1>1, <2>3, NoTokenIsEnd
<1>8. NoFalseAlarm'
  <2> SUFFICES ASSUME pc' = "repeated", Conforming PROVE FALSE
    BY <1>2 DEF NoFalseAlarm
  <2>1. NextToken # NoToken /\ NextToken = remembered
    BY DEF Repeats
  <2>2. QED
    BY <1>1, <2>1, NotAccused
<1>9. EndInv'
  BY <1>1, <1>2 DEF EndInv, CaughtSoon
<1>10. QED
  BY <1>3, <1>4, <1>5, <1>6, <1>7, <1>8, <1>9 DEF IInv

LEMMA SearchTurnsStep == ASSUME IInv, SearchTurns PROVE IInv'
<1>1. /\ pc = "answered" /\ ~listing /\ UNCHANGED <<service, read, loop, counters, fired>>
      /\ \/ /\ pc' = "returned" /\ UNCHANGED tracker
            /\ NextToken = NoToken \/ (~listing /\ Satisfied)
         \/ /\ NextToken # NoToken
            /\ \/ Repeats(NextToken) /\ pc' = "repeated" /\ UNCHANGED tracker
               \/ /\ ~Repeats(NextToken) /\ Track(NextToken)
                  /\ pc' = IF listing THEN "begin"
                           ELSE IF pagesRead < MaxQueryPages THEN "sent" ELSE "ceiling"
  BY DEF SearchTurns
<1>2. QED
  BY <1>1, LoopTurns

LEMMA ListingTurnsStep == ASSUME IInv, ListingTurns PROVE IInv'
<1>1. /\ pc = "answered" /\ listing /\ onPage = 0
      /\ UNCHANGED <<service, read, loop, counters, fired>>
      /\ \/ /\ pc' = "returned" /\ UNCHANGED tracker
            /\ NextToken = NoToken \/ (~listing /\ Satisfied)
         \/ /\ NextToken # NoToken
            /\ \/ Repeats(NextToken) /\ pc' = "repeated" /\ UNCHANGED tracker
               \/ /\ ~Repeats(NextToken) /\ Track(NextToken)
                  /\ pc' = IF listing THEN "begin"
                           ELSE IF pagesRead < MaxQueryPages THEN "sent" ELSE "ceiling"
  BY DEF ListingTurns
<1>2. QED
  BY <1>1, LoopTurns

LEMMA InitInv == Init => IInv
<1> SUFFICES ASSUME Init PROVE IInv
  OBVIOUS
<1>1. /\ length \in Pages /\ back \in 0..length /\ read = <<>> /\ remembered = NoToken
      /\ power = 1 /\ sinceRemembered = 0 /\ pc = "begin" /\ listing \in BOOLEAN
      /\ size \in [Pages -> 0..MaxSize] /\ k \in 1..MaxK
      /\ collected = 0 /\ handedOut = 0 /\ onPage = 0 /\ fired = FALSE
  BY DEF Init, TokensInit
<1>2. /\ pagesRead = 0 /\ MaxLength \in Nat /\ MaxSize \in Nat
      /\ MaxQueryPages \in Nat /\ MaxQueryPages >= 1
  BY <1>1, LengthAssumption, PaginationAssumption DEF pagesRead
<1>3. TypeOK
  <2>1. read \in Seq(Pages) /\ remembered \in 0..MaxLength /\ sinceRemembered \in 0..(power - 1)
        /\ power \in Nat \ {0}
    BY <1>1, <1>2 DEF NoToken
  <2>2. TokensTypeOK
    BY <1>1, <2>1 DEF TokensTypeOK
  <2>3. collected \in Nat /\ handedOut \in Nat /\ onPage \in 0..MaxSize
    BY <1>1, <1>2
  <2>4. fired \in BOOLEAN
    BY <1>1
  <2>5. QED
    BY <1>1, <2>2, <2>3, <2>4 DEF TypeOK
<1>4. OrderInv
  BY <1>1, <1>2 DEF OrderInv
<1>5. TrackerInv
  <2>1. Tracked = 0
    BY <1>1, <1>2 DEF Tracked
  <2>2. QED
    BY <1>1, <2>1 DEF TrackerInv
<1>6. SpanInv
  <2>1. CycleLength \in Nat /\ 1 <= CycleLength /\ (~Conforming => TailLength \in Nat)
    BY <1>3, Numbers
  <2>2. QED
    BY <1>1, <2>1 DEF SpanInv, Longer
<1>7. ListedInv
  <2> DEFINE f == [i \in 1..pagesRead |-> size[read[i]]]
  <2>1. \A i \in 1..0 : f[i] \in Int
    OBVIOUS
  <2> HIDE DEF f
  <2>2. Sum(f, 0) = 0
    BY <2>1, SumByTerms
  <2>3. Held = 0
    BY <1>2, <2>2 DEF Held, f
  <2>4. QED
    BY <1>1, <2>3 DEF ListedInv
<1>8. SearchInv /\ ShortMeansExhausted /\ NoFalseAlarm /\ EndInv
  BY <1>1, <1>2 DEF SearchInv, ShortMeansExhausted, NoFalseAlarm, EndInv, Ended
<1>9. QED
  BY <1>3, <1>4, <1>5, <1>6, <1>7, <1>8 DEF IInv

LEMMA Inductive == IInv /\ [Next]_vars => IInv'
BY BeginStep, AnsweredStep, OtherStep, SearchTurnsStep, ListingTurnsStep DEF Next

LEMMA Invariant == Spec => []IInv
BY InitInv, Inductive, PTL DEF Spec

-----------------------------------------------------------------------------
(* The properties *)

(* Every variable keeps its type: a read comes to the service's pages and  *)
(* no others.                                                              *)
THEOREM TypeCorrect == Spec => []TypeOK
<1>1. IInv => TypeOK
  BY DEF IInv
<1>2. QED
  BY <1>1, Invariant, PTL

(* For any number of pages: a service that hands out no token twice is     *)
(* never said to.                                                          *)
THEOREM NobodyAccused == Spec => []NoFalseAlarm
<1>1. IInv => NoFalseAlarm
  BY DEF IInv
<1>2. QED
  BY <1>1, Invariant, PTL

(* For any cycle: it is found out before the read has made more than one   *)
(* round and twice the longer of the round and the way to it; and a search *)
(* stays under its ceiling.                                                *)
THEOREM CyclesAreCaught == Spec => []CaughtSoon
BY CaughtMeanwhile, Invariant, PTL

(* For any number of pages: a search that returns fewer than it was asked  *)
(* for has read them all.                                                  *)
THEOREM ShortIsAll == Spec => []ShortMeansExhausted
<1>1. IInv => ShortMeansExhausted
  BY DEF IInv
<1>2. QED
  BY <1>1, Invariant, PTL

(* For any pages, empty ones among them: a listing hands out each vector   *)
(* of each page it has read once, and ends by itself only after the last.  *)
THEOREM EachListedOnce == Spec => []ListedOnce
<1>1. IInv => ListedOnce
  BY DEF IInv, ListedInv, ListedOnce, Held
<1>2. QED
  BY <1>1, Invariant, PTL

-----------------------------------------------------------------------------
(* Reads by id.  What is said of them is about the module Reads as MCReads *)
(* has it.                                                                 *)

(* What is proved of the window there holds here; a read is no write.     *)
W == INSTANCE BatchedRunProofs WITH serializeFirst <- FALSE, report <- <<>>

(* Reads has its own name for what the theorems about finite sets count.   *)
LEMMA SizeOf == \A S : /\ D!Cardinality(S) = Cardinality(S)
                       /\ D!IsFiniteSet(S) <=> IsFiniteSet(S)
BY DEF D!Cardinality, Cardinality, D!IsFiniteSet, IsFiniteSet

-----------------------------------------------------------------------------
(* The window *)

LEMMA Least ==
  ASSUME NEW n \in Nat, NEW S \in SUBSET (1..n), S # {}
  PROVE  \E x \in S : \A y \in S : x <= y
BY W!Least, SlotsAssumption

(* Keeping some places of a list keeps their order, and all of them.       *)
LEMMA KeptInOrder ==
  ASSUME NEW s, NEW n \in Nat, DOMAIN s = 1..n, NEW places \in SUBSET (1..n)
  PROVE  /\ D!Cardinality(places) \in 0..n
         /\ DOMAIN D!Kept(s, places) = 1..D!Cardinality(places)
         /\ \A i \in 1..D!Cardinality(places) :
              D!Nth(places, i) \in places /\ D!Kept(s, places)[i] = s[D!Nth(places, i)]
         /\ \A i, j \in 1..D!Cardinality(places) : i < j => D!Nth(places, i) < D!Nth(places, j)
         /\ \A p \in places : \E i \in 1..D!Cardinality(places) : D!Nth(places, i) = p
<1>1. W!Cardinality(places) = D!Cardinality(places) /\ W!Kept(s, places) = D!Kept(s, places)
  BY DEF D!Kept, W!Kept, D!Nth, W!Nth, D!Cardinality, W!Cardinality
<1>2. ASSUME NEW i PROVE W!Nth(places, i) = D!Nth(places, i)
  BY DEF D!Nth, W!Nth, D!Cardinality, W!Cardinality
<1>3. W!Ranked(s, n, places)
  BY W!KeptRanked, SlotsAssumption
<1>4. QED
  BY <1>1, <1>2, <1>3 DEF W!Ranked

LEMMA SlotsAreFinite ==
  ASSUME NEW S \in SUBSET D!Requests
  PROVE  D!IsFiniteSet(S) /\ D!Cardinality(S) \in Nat
BY W!SlotsAreFinite, SlotsAssumption
   DEF D!Requests, W!Requests, D!IsFiniteSet, W!IsFiniteSet, D!Cardinality, W!Cardinality

LEMMA LaunchTypes ==
  ASSUME D!WindowTypeOK, NEW r \in D!Requests, D!Launch(r), UNCHANGED <<total, failure, fired>>
  PROVE  D!WindowTypeOK'
BY W!LaunchTypes, SlotsAssumption
   DEF D!WindowTypeOK, W!WindowTypeOK, D!Requests, W!Requests, D!NotARequest, W!NotARequest,
       D!Cardinality, W!Cardinality, D!Becomes, W!Becomes, D!Launch, W!Launch

LEMMA MoveTypes ==
  ASSUME D!WindowTypeOK, NEW r \in D!Requests, D!Moves(r) \/ D!Served(r), total' = total
  PROVE  D!WindowTypeOK'
BY W!MoveTypes, SlotsAssumption
   DEF D!WindowTypeOK, W!WindowTypeOK, D!Requests, W!Requests, D!NotARequest, W!NotARequest,
       D!Cardinality, W!Cardinality, D!windowVars, W!windowVars, D!Becomes, W!Becomes,
       D!Record, W!Record, D!Moves, W!Moves, D!Served, W!Served, D!Request, W!Request, D!Send,
       W!Send, D!Succeed, W!Succeed, D!Fail, W!Fail, D!EnsureFails, W!EnsureFails, D!Reject,
       W!Reject, D!Finish, W!Finish

LEMMA MoveMeans ==
  ASSUME D!WindowTypeOK, NEW r \in D!Requests, D!Moves(r) \/ D!Served(r)
  PROVE  \/ UNCHANGED <<D!UnderWay, D!Confirmed, failure>>
         \/ /\ r \in D!UnderWay /\ D!UnderWay' = D!UnderWay \ {r}
            /\ \/ D!Confirmed' = D!Confirmed \cup {r} /\ failure' = failure
               \/ D!Confirmed' = D!Confirmed /\ failure' = IF failure = {} THEN {r} ELSE failure
BY W!MoveMeans, SlotsAssumption
   DEF D!WindowTypeOK, W!WindowTypeOK, D!Requests, W!Requests, D!NotARequest, W!NotARequest,
       D!Cardinality, W!Cardinality, D!windowVars, W!windowVars, D!Becomes, W!Becomes,
       D!Record, W!Record, D!Moves, W!Moves, D!Served, W!Served, D!Request, W!Request, D!Send,
       W!Send, D!Succeed, W!Succeed, D!Fail, W!Fail, D!EnsureFails, W!EnsureFails, D!Reject,
       W!Reject, D!Finish, W!Finish, D!UnderWay, W!UnderWay, D!Confirmed, W!Confirmed

LEMMA FedLaunches ==
  ASSUME D!WindowTypeOK, NEW base \in Nat, NEW n \in D!Requests, base < n, D!Fed(base, n),
         D!Cardinality(inFlight) < MaxConcurrent, D!Launch(n), failure' = failure
  PROVE  D!Fed(base, n + 1)' /\ (~waiting' => D!Cardinality(inFlight') < MaxConcurrent)
BY W!FedLaunches, SlotsAssumption
   DEF D!WindowTypeOK, W!WindowTypeOK, D!Requests, W!Requests, D!NotARequest, W!NotARequest,
       D!Cardinality, W!Cardinality, D!Becomes, W!Becomes, D!Launch, W!Launch, D!UnderWay,
       W!UnderWay, D!Fed, W!Fed

LEMMA FedMoves ==
  ASSUME D!WindowTypeOK, NEW base \in Nat, NEW n \in Nat, base < n, D!Fed(base, n),
         NEW r \in D!Requests, D!Moves(r) \/ D!Served(r)
  PROVE  /\ D!Fed(base, n)'
         /\ D!Cardinality(inFlight') < MaxConcurrent \/ UNCHANGED <<inFlight, waiting>>
BY W!FedMoves, SlotsAssumption
   DEF D!WindowTypeOK, W!WindowTypeOK, D!Requests, W!Requests, D!NotARequest, W!NotARequest,
       D!Cardinality, W!Cardinality, D!windowVars, W!windowVars, D!Becomes, W!Becomes,
       D!Record, W!Record, D!Moves, W!Moves, D!Served, W!Served, D!Request, W!Request, D!Send,
       W!Send, D!Succeed, W!Succeed, D!Fail, W!Fail, D!EnsureFails, W!EnsureFails, D!Reject,
       W!Reject, D!Finish, W!Finish, D!UnderWay, W!UnderWay, D!Fed, W!Fed

-----------------------------------------------------------------------------
(* The batches *)

LEMMA Division ==
  ASSUME NEW a \in Nat, NEW b \in Nat \ {0}, NEW q, q = a \div b
  PROVE  q \in Nat /\ q * b <= a /\ a < q * b + b
OBVIOUS

(* The unique ids are among those asked for, and those among the unique.   *)
LEMMA UniqueCovers ==
  ASSUME NEW n \in Nat, NEW s, DOMAIN s = 1..n
  PROVE  /\ D!Unique(s) \in Seq(D!ToSet(s)) /\ Len(D!Unique(s)) \in 0..n
         /\ \A i \in 1..n : \E p \in 1..Len(D!Unique(s)) : D!Unique(s)[p] = s[i]
<1> DEFINE firsts == {i \in DOMAIN s : \A j \in 1..(i - 1) : s[j] # s[i]}
           count == D!Cardinality(firsts)
<1>1. firsts \in SUBSET (1..n) /\ DOMAIN s = 1..n
  OBVIOUS
<1>2. /\ count \in 0..n /\ DOMAIN D!Kept(s, firsts) = 1..count
      /\ \A i \in 1..count :
           /\ D!Nth(firsts, i) \in firsts
           /\ D!Kept(s, firsts)[i] = s[D!Nth(firsts, i)]
      /\ \A p \in firsts : \E i \in 1..count : D!Nth(firsts, i) = p
  <2> HIDE DEF firsts
  <2>1. QED
    BY <1>1, KeptInOrder DEF count
<1>3. D!Unique(s) = D!Kept(s, firsts)
  BY DEF D!Unique
<1>4. \A i \in 1..n : \E p \in firsts : s[p] = s[i]
  <2> TAKE i \in 1..n
  <2> DEFINE same == {j \in 1..n : s[j] = s[i]}
  <2>1. i \in same /\ same \in SUBSET (1..n)
    OBVIOUS
  <2>2. \E p \in same : \A j \in same : p <= j
    <3> HIDE DEF same
    <3>1. QED
      BY <2>1, Least
  <2>3. PICK p \in same : \A j \in same : p <= j
    BY <2>2
  <2>4. \A j \in 1..(p - 1) : s[j] # s[p]
    BY <2>3
  <2>5. QED
    BY <1>1, <2>3, <2>4
<1> HIDE DEF firsts, count
<1>5. \A i \in 1..count : D!Kept(s, firsts)[i] \in D!ToSet(s)
  BY <1>1, <1>2 DEF D!ToSet
<1>6. /\ D!Kept(s, firsts) = [i \in 1..count |-> s[D!Nth(firsts, i)]]
      /\ count \in Nat
  BY <1>2 DEF D!Kept, count
<1>7. D!Kept(s, firsts) \in Seq(D!ToSet(s)) /\ Len(D!Kept(s, firsts)) = count
  <2>1. D!Kept(s, firsts) \in [1..count -> D!ToSet(s)]
    BY <1>2, <1>5, <1>6
  <2>2. D!Kept(s, firsts) \in UNION {[1..m -> D!ToSet(s)] : m \in Nat}
    BY <1>6, <2>1
  <2>3. QED
    BY <1>2, <1>6, <2>2, SeqDef, LenProperties
<1>8. \A i \in 1..n : \E p \in 1..count : D!Kept(s, firsts)[p] = s[i]
  <2> TAKE i \in 1..n
  <2>1. PICK f \in firsts : s[f] = s[i]
    BY <1>4
  <2>2. PICK p \in 1..count : D!Nth(firsts, p) = f
    BY <1>2
  <2>3. QED
    BY <1>2, <2>1, <2>2
<1>9. QED
  BY <1>2, <1>3, <1>7, <1>8

LEMMA UniqueTypes ==
  ASSUME NEW T, NEW n \in Nat, NEW s \in [1..n -> T]
  PROVE  D!Unique(s) \in Seq(T) /\ Len(D!Unique(s)) \in 0..n
<1>1. DOMAIN s = 1..n /\ D!ToSet(s) \in SUBSET T
  BY DEF D!ToSet
<1>2. D!Unique(s) \in Seq(D!ToSet(s)) /\ Len(D!Unique(s)) \in 0..n
  BY <1>1, UniqueCovers
<1>3. QED
  BY <1>1, <1>2, SeqMonotonic

(* A list cut into batches becomes at most as many as it has ids.          *)
LEMMA BatchesAreFew ==
  ASSUME batchSize \in Nat \ {0}, NEW n \in Nat, NEW s \in [1..n -> Ids]
  PROVE  D!Batches(s) \in 0..n
<1>1. PICK u \in 0..n : u = Len(D!Unique(s))
  BY UniqueTypes
<1>2. PICK b \in Nat \ {0} : b = batchSize
  OBVIOUS
<1>3. PICK q : q = (u + b - 1) \div b
  OBVIOUS
<1>4. u \in Nat /\ b \in Nat /\ b >= 1 /\ u + b - 1 \in Nat
  BY <1>1, <1>2
<1>5. q \in Nat /\ q * b <= u + b - 1
  BY <1>2, <1>3, <1>4, Division
<1>6. q <= u
  <2>1. SUFFICES ASSUME q >= u + 1 PROVE FALSE
    BY <1>4, <1>5
  <2>2. q * b >= (u + 1) * b /\ (u + 1) * b = u * b + b /\ u * b >= u
    BY <1>4, <1>5, <2>1
  <2>3. u * b \in Nat /\ q * b \in Nat
    BY <1>4, <1>5
  <2>4. QED
    BY <1>4, <1>5, <2>2, <2>3
<1>7. D!Batches(s) = q
  BY <1>1, <1>2, <1>3 DEF D!Batches
<1>8. QED
  BY <1>1, <1>5, <1>6, <1>7

(* A batch holds ids; a request numbered from 1 has one of its own.        *)
LEMMA BatchHolds ==
  ASSUME batchSize \in Nat \ {0}, NEW T, NEW n \in Nat, ids \in [1..n -> T], NEW r \in Nat \ {0}
  PROVE  /\ D!Batch(r) \in Seq(T) /\ D!ToSet(D!Batch(r)) \in SUBSET T
         /\ \A p \in ((r - 1) * batchSize + 1)..(r * batchSize) :
              p <= Len(D!Unique(ids)) => D!Unique(ids)[p] \in D!ToSet(D!Batch(r))
<1>1. PICK u : u = D!Unique(ids)
  OBVIOUS
<1>2. u \in Seq(T) /\ Len(u) \in Nat
  BY <1>1, UniqueTypes
<1>3. PICK lo : lo = (r - 1) * batchSize + 1
  OBVIOUS
<1>4. PICK hi : hi = D!Smaller(r * batchSize, Len(u))
  OBVIOUS
<1>5. (r - 1) * batchSize \in Nat /\ r * batchSize \in Nat
  OBVIOUS
<1>6. lo \in Nat /\ lo >= 1
  BY <1>3, <1>5
<1>7. /\ hi \in Nat /\ hi <= Len(u)
      /\ \A p \in Nat : p <= r * batchSize /\ p <= Len(u) => p <= hi
  BY <1>2, <1>4, <1>5 DEF D!Smaller
<1>8. D!Batch(r) = SubSeq(u, lo, hi)
  BY <1>1, <1>3, <1>4 DEF D!Batch
<1>9. \A i \in lo..hi : u[i] \in T
  <2>1. \A i \in lo..hi : i \in 1..Len(u)
    BY <1>2, <1>6, <1>7
  <2>2. QED
    BY <1>2, <2>1, ElementOfSeq
<1>10. /\ D!Batch(r) \in Seq(T)
       /\ Len(D!Batch(r)) = IF lo <= hi THEN hi - lo + 1 ELSE 0
       /\ \A i \in 1..(hi - lo + 1) : D!Batch(r)[i] = u[lo + i - 1]
  BY <1>6, <1>7, <1>8, <1>9, SubSeqProperties
<1>11. DOMAIN D!Batch(r) = 1..Len(D!Batch(r))
  BY <1>10, LenProperties
<1>12. D!ToSet(D!Batch(r)) \in SUBSET T
  BY <1>10, <1>11, ElementOfSeq DEF D!ToSet
<1>13. ASSUME NEW p \in lo..(r * batchSize), p <= Len(u)
       PROVE  u[p] \in D!ToSet(D!Batch(r))
  <2>1. p \in Nat /\ lo <= p /\ p <= hi
    BY <1>5, <1>6, <1>7, <1>13
  <2>2. p - lo + 1 \in 1..(hi - lo + 1) /\ lo + (p - lo + 1) - 1 = p
    BY <1>6, <1>7, <2>1
  <2>3. p - lo + 1 \in DOMAIN D!Batch(r) /\ D!Batch(r)[p - lo + 1] = u[p]
    BY <1>6, <1>7, <1>10, <1>11, <2>1, <2>2
  <2>4. QED
    BY <2>3 DEF D!ToSet
<1>14. QED
  BY <1>1, <1>3, <1>10, <1>12, <1>13

(* Each id asked for is in the batch of one of the requests.               *)
LEMMA BatchesCover ==
  ASSUME batchSize \in Nat \ {0}, NEW n \in Nat, ids \in [1..n -> Ids], NEW i \in 1..n
  PROVE  \E r \in 1..D!Batches(ids) : ids[i] \in D!ToSet(D!Batch(r))
<1>1. PICK u : u = Len(D!Unique(ids))
  OBVIOUS
<1>2. u \in Nat
  BY <1>1, UniqueCovers
<1>3. PICK p \in 1..u : D!Unique(ids)[p] = ids[i]
  <2>1. DOMAIN ids = 1..n
    OBVIOUS
  <2>2. QED
    BY <1>1, <2>1, UniqueCovers
<1>4. PICK b \in Nat \ {0} : b = batchSize
  OBVIOUS
<1>5. PICK q : q = (p - 1) \div b
  OBVIOUS
<1>6. q \in Nat /\ q * b <= p - 1 /\ p - 1 < q * b + b
  <2>1. p - 1 \in Nat
    BY <1>2, <1>3
  <2>2. QED
    BY <1>4, <1>5, <2>1, Division
<1>7. PICK t : t = (u + b - 1) \div b
  OBVIOUS
<1>8. t \in Nat /\ u + b - 1 < t * b + b
  <2>1. u + b - 1 \in Nat
    BY <1>2, <1>4
  <2>2. QED
    BY <1>4, <1>7, <2>1, Division
<1>9. q < t
  <2>1. SUFFICES ASSUME q >= t PROVE FALSE
    BY <1>6, <1>8
  <2>2. q * b >= t * b /\ q * b \in Nat /\ t * b \in Nat
    BY <1>4, <1>6, <1>8, <2>1
  <2>3. QED
    BY <1>2, <1>3, <1>4, <1>6, <1>8, <2>2
<1>10. p \in (q * b + 1)..(q * b + b) /\ (q + 1) - 1 = q /\ (q + 1) * b = q * b + b
  <2>1. q * b \in Nat /\ p \in Nat /\ b \in Nat
    BY <1>2, <1>3, <1>4, <1>6
  <2>2. p \in (q * b + 1)..(q * b + b)
    BY <1>6, <2>1
  <2>3. (q + 1) - 1 = q /\ (q + 1) * b = q * b + b
    BY <1>6, <2>1
  <2>4. QED
    BY <2>2, <2>3
<1>11. ids[i] \in D!ToSet(D!Batch(q + 1))
  <2>1. /\ q + 1 \in Nat \ {0}
        /\ p \in (((q + 1) - 1) * batchSize + 1)..((q + 1) * batchSize)
        /\ p <= Len(D!Unique(ids))
    BY <1>1, <1>2, <1>3, <1>4, <1>6, <1>10
  <2>2. QED
    BY <1>3, <2>1, BatchHolds
<1>12. q + 1 \in 1..D!Batches(ids)
  BY <1>1, <1>4, <1>6, <1>7, <1>8, <1>9 DEF D!Batches
<1>13. QED
  BY <1>11, <1>12

-----------------------------------------------------------------------------
(* The answers *)

LEMMA ListsAreFinite ==
  ASSUME NEW T, NEW s \in Seq(T)
  PROVE  D!IsFiniteSet(D!ToSet(s))
<1>1. Len(s) \in Nat /\ DOMAIN s = 1..Len(s)
  BY LenProperties
<1>2. s \in [1..Len(s) -> D!ToSet(s)]
  <2>1. \A i \in 1..Len(s) : s[i] \in D!ToSet(s)
    BY <1>1 DEF D!ToSet
  <2>2. s = [i \in 1..Len(s) |-> s[i]]
    BY <1>1, LenProperties, IsASeq
  <2>3. QED
    BY <2>1, <2>2
<1>3. s \in Surjection(1..Len(s), D!ToSet(s))
  BY <1>1, <1>2 DEF Surjection, D!ToSet
<1>4. D!IsFiniteSet(1..Len(s))
  BY <1>1, FS_Interval, SizeOf
<1>5. QED
  BY <1>3, <1>4, FS_Surjection, SizeOf

(* An order of a finite set lists each of its members.                     *)
LEMMA OrdersAreComplete ==
  ASSUME NEW S, D!IsFiniteSet(S), NEW order \in D!SetToSeqs(S)
  PROVE  /\ D!Cardinality(S) \in Nat /\ DOMAIN order = 1..D!Cardinality(S)
         /\ \A i \in DOMAIN order : order[i] \in S
         /\ \A x \in S : \E i \in DOMAIN order : order[i] = x
<1> DEFINE n == D!Cardinality(S)
<1>1. n \in Nat
  BY FS_CardinalityType, SizeOf
<1>2. /\ order \in [1..n -> S]
      /\ \A i, j \in 1..n : i # j => order[i] # order[j]
  BY DEF D!SetToSeqs
<1>3. order \in Injection(1..n, S)
  BY <1>2 DEF Injection, IsInjective
<1>4. D!Cardinality(1..n) = n
  BY <1>1, FS_Interval, SizeOf
<1>5. order \in Surjection(1..n, S)
  BY <1>3, <1>4, FS_Injection, SizeOf
<1>6. QED
  BY <1>1, <1>2, <1>5 DEF Surjection

TypeInv == D!TypeOK /\ Len(ids) <= MaxTotal /\ changes <= MaxChanges

LEMMA CallTypes ==
  ASSUME TypeInv
  PROVE  /\ batchSize \in Nat \ {0} /\ k \in Nat \ {0} /\ MaxTotal \in Nat
         /\ Len(ids) \in Nat /\ DOMAIN ids = 1..Len(ids) /\ ids \in [1..Len(ids) -> Ids]
<1>1. MaxBatchSize \in Nat /\ MaxPicked \in Nat /\ MaxTotal \in Nat
  BY ReadsByIdAssumption, SlotsAssumption
<1>2. batchSize \in 1..MaxBatchSize /\ k \in 1..MaxPicked /\ ids \in Seq(Ids)
  BY DEF TypeInv, D!TypeOK
<1>3. batchSize \in Nat \ {0} /\ k \in Nat \ {0}
  BY <1>1, <1>2
<1>4. Len(ids) \in Nat /\ DOMAIN ids = 1..Len(ids) /\ ids \in [1..Len(ids) -> Ids]
  BY <1>2, LenProperties
<1>5. QED
  BY <1>1, <1>3, <1>4

LEMMA BatchTypes ==
  ASSUME TypeInv, NEW r \in D!Requests
  PROVE  D!Batch(r) \in Seq(Ids) /\ D!ToSet(D!Batch(r)) \in SUBSET Ids
<1>1. PICK n : n = Len(ids)
  OBVIOUS
<1>2. n \in Nat /\ ids \in [1..n -> Ids] /\ batchSize \in Nat \ {0} /\ r \in Nat \ {0}
  BY <1>1, CallTypes DEF D!Requests
<1>3. QED
  BY <1>2, BatchHolds

(* An answer holds what is stored under the ids of its batch, and leaves   *)
(* out only what is not there.                                             *)
LEMMA AnsweredMeans ==
  ASSUME TypeInv, NEW r \in D!Requests, D!Answered(r)
  PROVE  /\ answers' \in [D!Requests -> Seq(D!Vectors)]
         /\ \A q \in D!Requests \ {r} : answers'[q] = answers[q]
         /\ \A v \in D!ToSet(answers'[r]) :
              /\ v.key \in D!ToSet(D!Batch(r))
              /\ v.version = stored[v.key]
         /\ \A id \in D!ToSet(D!Batch(r)) :
              stored[id] = D!NotThere \/ \E v \in D!ToSet(answers'[r]) : v.key = id
<1> DEFINE there == {id \in D!ToSet(D!Batch(r)) : stored[id] # D!NotThere}
<1>1. D!Batch(r) \in Seq(Ids) /\ D!ToSet(D!Batch(r)) \in SUBSET Ids
  BY BatchTypes
<1>2. D!IsFiniteSet(there) /\ there \in SUBSET Ids
  <2>1. PICK B : B = D!Batch(r)
    OBVIOUS
  <2>2. D!IsFiniteSet(D!ToSet(B))
    BY <1>1, <2>1, ListsAreFinite
  <2>3. there \in SUBSET D!ToSet(B)
    BY <2>1
  <2>4. QED
    BY <1>1, <2>1, <2>2, <2>3, FS_Subset, SizeOf
<1>3. PICK order \in D!SetToSeqs(there) :
        answers' = [answers EXCEPT ![r] =
          [i \in DOMAIN order |-> [key |-> order[i], version |-> stored[order[i]]]]]
  BY DEF D!Answered
<1>4. PICK T : T = there
  OBVIOUS
<1>5. /\ D!Cardinality(T) \in Nat /\ DOMAIN order = 1..D!Cardinality(T)
      /\ \A i \in DOMAIN order : order[i] \in T
      /\ \A x \in T : \E i \in DOMAIN order : order[i] = x
  <2> HIDE DEF there
  <2>1. QED
    BY <1>2, <1>3, <1>4, OrdersAreComplete
<1>6. answers \in [D!Requests -> Seq(D!Vectors)]
  BY DEF TypeInv, D!TypeOK
<1>7. \A q \in D!Requests \ {r} : answers'[q] = answers[q]
  BY <1>3, <1>6
<1>8. answers'[r] = [i \in DOMAIN order |-> [key |-> order[i], version |-> stored[order[i]]]]
  BY <1>3, <1>6
<1>9. answers'[r] \in Seq(D!Vectors)
  <2>1. \A i \in 1..D!Cardinality(T) :
          order[i] \in Ids /\ stored[order[i]] \in D!Versions \ {D!NotThere}
    BY <1>2, <1>4, <1>5 DEF TypeInv, D!TypeOK
  <2>2. answers'[r] \in [1..D!Cardinality(T) -> D!Vectors]
    BY <1>5, <1>8, <2>1 DEF D!Vectors
  <2>3. answers'[r] \in UNION {[1..m -> D!Vectors] : m \in Nat}
    BY <1>5, <2>2
  <2>4. QED
    BY <2>3, SeqDef
<1>10. answers' \in [D!Requests -> Seq(D!Vectors)]
  <2>1. answers' = [answers EXCEPT ![r] = answers'[r]]
    BY <1>3, <1>8
  <2>2. QED
    BY <1>6, <1>9, <2>1
<1>11. \A v \in D!ToSet(answers'[r]) : v.key \in T /\ v.version = stored[v.key]
  BY <1>5, <1>8 DEF D!ToSet
<1>12. \A id \in T : \E v \in D!ToSet(answers'[r]) : v.key = id
  BY <1>5, <1>8 DEF D!ToSet
<1>13. QED
  BY <1>4, <1>7, <1>10, <1>11, <1>12

(* What is got for an id was answered under that id.                       *)
LEMMA GetsOwn ==
  ASSUME NEW id \in D!FoundIds
  PROVE  \E r \in D!Confirmed : \E v \in D!ToSet(answers[r]) : D!Get(id) = v /\ v.key = id
<1>1. \E entry \in D!Found : entry[1] = id
  BY DEF D!FoundIds
<1>2. PICK entry \in D!Found : entry[1] = id /\ D!Get(id) = entry[2]
  BY <1>1 DEF D!Get
<1>3. PICK r \in D!Confirmed : entry \in D!Puts(r)
  BY <1>2 DEF D!Found
<1>4. PICK v \in D!ToSet(answers[r]) : entry = <<v.key, v>>
  BY <1>3 DEF D!Puts
<1>5. QED
  BY <1>2, <1>3, <1>4

(* An id is found that any vector answered has.                            *)
LEMMA Finds ==
  ASSUME NEW r \in D!Confirmed, NEW v \in D!ToSet(answers[r])
  PROVE  v.key \in D!FoundIds
<1>1. <<v.key, v>> \in D!Found
  BY DEF D!Found, D!Puts
<1>2. QED
  BY <1>1 DEF D!FoundIds

LEMMA ListTypes ==
  ASSUME NEW S, NEW n \in Nat, NEW s \in D!Lists(S, n)
  PROVE  s \in Seq(S) /\ Len(s) \in 0..n /\ s \in [1..Len(s) -> S]
<1>1. PICK m \in 0..n : s \in [1..m -> S]
  BY DEF D!Lists
<1>2. m \in Nat
  BY <1>1
<1>3. s \in Seq(S)
  BY <1>1, <1>2, SeqDef
<1>4. Len(s) \in Nat /\ DOMAIN s = 1..Len(s)
  BY <1>3, LenProperties
<1>5. Len(s) = m
  BY <1>1, <1>2, <1>3, LenProperties
<1>6. QED
  BY <1>1, <1>3, <1>5

(* Where the ids that were found stand among those asked for.              *)
Places == {i \in DOMAIN ids : ids[i] \in D!FoundIds}

(* The candidates that are still there are ids that were found.            *)
LEMMA PresentHolds ==
  ASSUME TypeInv
  PROVE  /\ D!Cardinality(Places) \in 0..MaxTotal
         /\ D!Present \in Seq(Ids) /\ Len(D!Present) = D!Cardinality(Places)
         /\ \A i \in 1..Len(D!Present) :
              /\ D!Nth(Places, i) \in Places /\ D!Present[i] = ids[D!Nth(Places, i)]
              /\ D!Present[i] \in D!FoundIds
         /\ \A i, j \in 1..Len(D!Present) : i < j => D!Nth(Places, i) < D!Nth(Places, j)
         /\ \A p \in Places : \E i \in 1..Len(D!Present) : D!Nth(Places, i) = p
<1>1. PICK n : n = Len(ids)
  OBVIOUS
<1>2. n \in Nat /\ DOMAIN ids = 1..n /\ ids \in [1..n -> Ids] /\ n <= MaxTotal /\ MaxTotal \in Nat
  BY <1>1, CallTypes DEF TypeInv
<1>3. Places \in SUBSET (1..n)
  BY <1>2 DEF Places
<1>4. \A p \in Places : ids[p] \in D!FoundIds /\ ids[p] \in Ids
  BY <1>2 DEF Places
<1>5. D!Present = D!Kept(ids, Places)
  BY DEF D!Present, Places
<1>6. PICK T : T = Places
  OBVIOUS
<1>7. PICK s : s = ids
  OBVIOUS
<1>8. /\ D!Cardinality(T) \in 0..n
      /\ DOMAIN D!Kept(s, T) = 1..D!Cardinality(T)
      /\ \A i \in 1..D!Cardinality(T) : D!Nth(T, i) \in T /\ D!Kept(s, T)[i] = s[D!Nth(T, i)]
      /\ \A i, j \in 1..D!Cardinality(T) : i < j => D!Nth(T, i) < D!Nth(T, j)
      /\ \A p \in T : \E i \in 1..D!Cardinality(T) : D!Nth(T, i) = p
  BY <1>2, <1>3, <1>6, <1>7, KeptInOrder
<1>9. \A i \in 1..D!Cardinality(T) : D!Kept(s, T)[i] \in Ids /\ D!Kept(s, T)[i] \in D!FoundIds
  BY <1>4, <1>6, <1>7, <1>8
<1>10. D!Kept(s, T) \in Seq(Ids) /\ Len(D!Kept(s, T)) = D!Cardinality(T)
  <2>1. D!Kept(s, T) = [i \in 1..D!Cardinality(T) |-> s[D!Nth(T, i)]]
    BY DEF D!Kept
  <2>2. D!Kept(s, T) \in [1..D!Cardinality(T) -> Ids]
    BY <1>8, <1>9, <2>1
  <2>3. D!Cardinality(T) \in Nat
    BY <1>2, <1>8
  <2>4. D!Kept(s, T) \in Seq(Ids)
    BY <2>2, <2>3, SeqDef
  <2>5. QED
    BY <1>8, <2>3, <2>4, LenProperties
<1>11. D!Present = D!Kept(s, T)
  BY <1>5, <1>6, <1>7
<1>12. QED
  BY <1>2, <1>6, <1>7, <1>8, <1>9, <1>10, <1>11

-----------------------------------------------------------------------------
(* Types *)

LEMMA TypeInit == D!Init => TypeInv
<1> SUFFICES ASSUME D!Init PROVE TypeInv
  OBVIOUS
<1>1. /\ MaxBatchSize \in Nat \ {0} /\ MaxPicked \in Nat \ {0} /\ MaxChanges \in Nat
      /\ MaxTotal \in Nat
  BY ReadsByIdAssumption, SlotsAssumption
<1>2. D!WindowTypeOK
  <2>1. /\ status = [r \in D!Requests |-> "new"] /\ fired = FALSE /\ waiting = FALSE
        /\ launched = <<>> /\ inFlight = {} /\ failure = {} /\ total = 0
    BY DEF D!Init, D!WindowInit
  <2>2. launched \in Seq(D!Requests) /\ D!Cardinality(failure) <= 1
    <3>1. D!Cardinality({}) = 0
      BY FS_EmptySet, SizeOf
    <3>2. QED
      BY <2>1, <3>1, EmptySeq
  <2>3. /\ total \in 0..MaxTotal
        /\ status \in [D!Requests -> {"new", "launched", "sent", "ok", "failed"}]
    BY <1>1, <2>1
  <2>4. QED
    BY <2>1, <2>2, <2>3 DEF D!WindowTypeOK
<1>3. ids \in Seq(Ids) /\ Len(ids) <= MaxTotal
  <2>1. PICK n : n = IF mmr THEN 0 ELSE MaxTotal
    OBVIOUS
  <2>2. n \in Nat /\ n <= MaxTotal /\ ids \in D!Lists(Ids, n)
    BY <1>1, <2>1 DEF D!Init
  <2>3. ids \in Seq(Ids) /\ Len(ids) \in 0..n
    BY <2>2, ListTypes
  <2>4. QED
    BY <1>1, <2>2, <2>3
<1>4. batchSize \in 1..MaxBatchSize /\ k \in 1..MaxPicked
  BY <1>1 DEF D!Init
<1>5. /\ mmr \in BOOLEAN /\ pc = "begin" /\ next = 1 /\ foundIds = {} /\ changes = 0
      /\ answers \in [D!Requests -> Seq(D!Vectors)]
      /\ result \in Seq(D!Vectors \cup {D!Undefined}) /\ picked \in Seq(D!Vectors)
  BY EmptySeq DEF D!Init
<1>6. stored \in [Ids -> D!Versions] /\ held \in [Ids -> SUBSET D!Versions]
  <2>1. {D!NotThere, 1} \subseteq D!Versions
    BY <1>1 DEF D!Versions, D!NotThere
  <2>2. stored \in [Ids -> {D!NotThere, 1}] /\ held = [id \in Ids |-> {stored[id]}]
    BY DEF D!Init
  <2>3. QED
    BY <2>1, <2>2
<1>7. next \in 1..(MaxTotal + 1) /\ changes \in Nat /\ changes <= MaxChanges
  BY <1>1, <1>5
<1>8. QED
  BY <1>2, <1>3, <1>4, <1>5, <1>6, <1>7 DEF TypeInv, D!TypeOK

LEMMA GotTypes ==
  ASSUME TypeInv, NEW id \in D!FoundIds
  PROVE  D!Get(id) \in D!Vectors /\ D!Get(id).key = id
<1>1. PICK r \in D!Confirmed : \E v \in D!ToSet(answers[r]) : D!Get(id) = v /\ v.key = id
  BY GetsOwn
<1>2. PICK v \in D!ToSet(answers[r]) : D!Get(id) = v /\ v.key = id
  BY <1>1
<1>3. answers[r] \in Seq(D!Vectors)
  BY <1>1 DEF D!Confirmed, TypeInv, D!TypeOK
<1>4. v \in D!Vectors
  BY <1>2, <1>3, ElementOfSeq, LenProperties DEF D!ToSet
<1>5. QED
  BY <1>2, <1>4

LEMMA RanksTypes ==
  ASSUME TypeInv, D!Ranks
  PROVE  \E n, m \in Nat : \E selected \in [1..m -> 1..n] :
           /\ n = Len(D!Present) /\ m = D!Smaller(k, n) /\ D!IsInjective(selected)
           /\ \A i \in 1..m : D!Present[selected[i]] \in D!FoundIds
           /\ result' = picked' /\ picked' = [i \in 1..m |-> D!Get(D!Present[selected[i]])]
           /\ picked' \in [1..m -> D!Vectors]
<1>1. PICK n : n = Len(D!Present)
  OBVIOUS
<1>2. n \in Nat /\ \A i \in 1..n : D!Present[i] \in D!FoundIds
  BY <1>1, PresentHolds, LenProperties
<1>3. PICK m : m = D!Smaller(k, n)
  OBVIOUS
<1>4. m \in Nat
  BY <1>2, <1>3, CallTypes DEF D!Smaller
<1>5. PICK selected \in D!Selections(Len(D!Present)) :
        /\ picked' = [i \in DOMAIN selected |-> D!Get(D!Present[selected[i]])]
        /\ result' = [i \in DOMAIN selected |-> D!Document(selected[i])]
  BY DEF D!Ranks
<1>6. selected \in [1..m -> 1..n] /\ D!IsInjective(selected)
  BY <1>1, <1>3, <1>5 DEF D!Selections
<1>7. /\ picked' = [i \in 1..m |-> D!Get(D!Present[selected[i]])]
      /\ result' = picked'
  BY <1>5, <1>6 DEF D!Document
<1>8. \A i \in 1..m : D!Present[selected[i]] \in D!FoundIds
  BY <1>2, <1>6
<1>9. picked' \in [1..m -> D!Vectors]
  BY <1>7, <1>8, GotTypes
<1>10. QED
  BY <1>1, <1>2, <1>3, <1>4, <1>6, <1>7, <1>8, <1>9

LEMMA TypeStep == TypeInv /\ [D!Next]_(D!vars) => TypeInv'
<1> SUFFICES ASSUME TypeInv, [D!Next]_(D!vars) PROVE TypeInv'
  OBVIOUS
<1> USE DEF D!windowVars, D!call, D!outcome, D!index
<1>1. D!TypeOK /\ D!WindowTypeOK /\ Len(ids) <= MaxTotal /\ changes <= MaxChanges
  BY DEF TypeInv, D!TypeOK
<1>2. /\ batchSize \in Nat \ {0} /\ MaxTotal \in Nat /\ total \in 0..MaxTotal
      /\ next \in 1..(MaxTotal + 1)
  BY <1>1, CallTypes DEF D!TypeOK, D!WindowTypeOK
<1>3. CASE UNCHANGED D!vars
  BY <1>1, <1>3 DEF D!vars, TypeInv, D!TypeOK, D!WindowTypeOK
<1>4. CASE D!Begin
  <2>1. total' \in 0..MaxTotal
    <3>1. D!Batches(ids) \in 0..MaxTotal
      <4>1. PICK n : n = Len(ids)
        OBVIOUS
      <4>2. n \in Nat /\ n <= MaxTotal /\ ids \in [1..n -> Ids]
        BY <1>1, <4>1, CallTypes
      <4>3. PICK s : s = ids
        OBVIOUS
      <4>4. D!Batches(s) \in 0..n
        BY <1>2, <4>2, <4>3, BatchesAreFew
      <4>5. QED
        BY <1>2, <4>2, <4>3, <4>4
    <3>2. QED
      BY <1>2, <1>4, <3>1 DEF D!Begin
  <2>2. /\ pc' \in {"searching", "feeding", "thrown"}
        /\ UNCHANGED <<status, launched, inFlight, waiting, failure, fired, mmr, ids, batchSize, k,
                       next, answers, result, foundIds, picked, stored, held, changes>>
    BY <1>4 DEF D!Begin, D!Throws
  <2>3. QED
    BY <1>1, <2>1, <2>2 DEF TypeInv, D!TypeOK, D!WindowTypeOK, D!Ended
<1>5. CASE D!Searched
  <2>1. /\ pc' \in {"resolved", "feeding", "thrown"}
        /\ UNCHANGED <<status, launched, inFlight, waiting, failure, fired, mmr, batchSize, k,
                       next, answers, result, foundIds, picked, stored, held, changes>>
    BY <1>5 DEF D!Searched, D!Throws
  <2>2. \/ ids' = <<>> /\ total' = total
        \/ ids' \in D!Candidates /\ (total' = total \/ total' = D!Batches(ids'))
        \/ ids' = ids /\ total' = total
    BY <1>5 DEF D!Searched
  <2>3. CASE ids' \in D!Candidates
    <3>1. PICK s : s = ids'
      OBVIOUS
    <3>2. PICK S : S = {id \in Ids : held[id] # {D!NotThere}}
      OBVIOUS
    <3>3. s \in D!Lists(S, MaxTotal) /\ S \in SUBSET Ids
      BY <2>3, <3>1, <3>2 DEF D!Candidates
    <3>4. s \in Seq(S) /\ Len(s) \in 0..MaxTotal /\ s \in [1..Len(s) -> S]
      BY <1>2, <3>3, ListTypes
    <3>5. s \in Seq(Ids) /\ Len(s) \in Nat /\ s \in [1..Len(s) -> Ids]
      BY <1>2, <3>3, <3>4, SeqMonotonic
    <3>6. D!Batches(s) \in 0..Len(s)
      BY <1>2, <3>5, BatchesAreFew
    <3>7. total' \in 0..MaxTotal
      <4>1. total' = total \/ total' = D!Batches(s)
        BY <2>2, <2>3, <3>1
      <4>2. QED
        BY <1>2, <3>4, <3>6, <4>1
    <3>8. ids' \in Seq(Ids) /\ Len(ids') <= MaxTotal
      BY <1>2, <3>1, <3>4, <3>5
    <3>9. QED
      BY <1>1, <2>1, <3>7, <3>8 DEF TypeInv, D!TypeOK, D!WindowTypeOK, D!Ended
  <2>4. CASE ids' = ids \/ ids' = <<>>
    <3>1. total' = total \/ ids' \in D!Candidates
      BY <2>2
    <3>2. ids' \in Seq(Ids) /\ Len(ids') <= MaxTotal
      <4>1. <<>> \in Seq(Ids) /\ Len(<<>>) = 0
        BY EmptySeq
      <4>2. CASE ids' = ids
        BY <1>1, <4>2 DEF D!TypeOK
      <4>3. CASE ids' = <<>>
        BY <1>2, <4>1, <4>3
      <4>4. QED
        BY <2>4, <4>2, <4>3
    <3>3. QED
      BY <1>1, <2>1, <2>3, <3>1, <3>2 DEF TypeInv, D!TypeOK, D!WindowTypeOK, D!Ended
  <2>5. QED
    BY <2>2, <2>3, <2>4
<1>6. CASE D!Feed
  <2>1. UNCHANGED <<total, failure, fired, mmr, ids, batchSize, k, answers, result, foundIds,
                    picked, stored, held, changes>>
    BY <1>6 DEF D!Feed
  <2>2. CASE next <= total /\ failure = {}
    <3>1. D!Launch(next) /\ next' = next + 1 /\ pc' = pc
      BY <1>6, <2>2 DEF D!Feed
    <3>2. next \in D!Requests /\ next' \in 1..(MaxTotal + 1)
      BY <1>2, <2>2, <3>1 DEF D!Requests
    <3>3. D!WindowTypeOK'
      BY <1>1, <2>1, <3>1, <3>2, LaunchTypes
    <3>4. QED
      BY <1>1, <2>1, <3>1, <3>2, <3>3 DEF TypeInv, D!TypeOK
  <2>3. CASE ~(next <= total /\ failure = {})
    <3>1. pc' = "settling" /\ UNCHANGED <<status, launched, inFlight, waiting, next>>
      BY <1>6, <2>3 DEF D!Feed
    <3>2. QED
      BY <1>1, <2>1, <3>1 DEF TypeInv, D!TypeOK, D!WindowTypeOK
  <2>4. QED
    BY <2>2, <2>3
<1>7. ASSUME NEW r \in D!Requests, D!Answered(r)
      PROVE  TypeInv'
  <2>1. /\ D!Served(r)
        /\ UNCHANGED <<total, mmr, ids, batchSize, k, pc, next, result, foundIds, picked,
                       stored, held, changes>>
    BY <1>7 DEF D!Answered, D!Served
  <2>2. D!WindowTypeOK'
    BY <1>1, <2>1, MoveTypes
  <2>3. answers' \in [D!Requests -> Seq(D!Vectors)]
    BY <1>7, AnsweredMeans
  <2>4. QED
    BY <1>1, <2>1, <2>2, <2>3 DEF TypeInv, D!TypeOK
<1>8. ASSUME NEW r \in D!Requests, D!Refused(r) \/ D!SlotFreed(r)
      PROVE  TypeInv'
  <2>1. /\ D!Moves(r)
        /\ UNCHANGED <<total, mmr, ids, batchSize, k, pc, next, answers, result, foundIds, picked,
                       stored, held, changes>>
    BY <1>8 DEF D!Refused, D!SlotFreed, D!Moves, D!EnsureFails
  <2>2. D!WindowTypeOK'
    BY <1>1, <2>1, MoveTypes
  <2>3. QED
    BY <1>1, <2>1, <2>2 DEF TypeInv, D!TypeOK
<1>9. CASE D!FetchFails \/ D!RefuseVector \/ D!Slots \/ D!Ranks
  <2>1. /\ pc' \in D!Ended
        /\ UNCHANGED <<total, status, launched, inFlight, waiting, failure, fired, mmr, ids,
                       batchSize, k, next, answers, stored, held, changes>>
    BY <1>9 DEF D!FetchFails, D!RefuseVector, D!Slots, D!Ranks, D!Throws, D!Ended, D!Settled
  <2>2. foundIds' \in SUBSET Ids
    <3>1. D!FoundIds \in SUBSET Ids
      <4> SUFFICES ASSUME NEW id \in D!FoundIds PROVE id \in Ids
        OBVIOUS
      <4>1. D!Get(id) \in D!Vectors /\ D!Get(id).key = id
        BY GotTypes
      <4>2. QED
        BY <4>1 DEF D!Vectors
    <3>2. foundIds' = D!FoundIds \/ foundIds' = foundIds
      BY <1>9 DEF D!FetchFails, D!RefuseVector, D!Slots, D!Ranks, D!Throws
    <3>3. QED
      BY <1>1, <3>1, <3>2 DEF D!TypeOK
  <2>3. result' \in Seq(D!Vectors \cup {D!Undefined}) /\ picked' \in Seq(D!Vectors)
    <3>1. CASE D!FetchFails \/ D!RefuseVector
      BY <1>1, <3>1 DEF D!FetchFails, D!RefuseVector, D!Throws, D!TypeOK
    <3>2. CASE D!Slots
      <4>1. /\ picked' = picked
            /\ result' = [i \in DOMAIN ids |->
                 IF ids[i] \in D!FoundIds THEN D!Get(ids[i]) ELSE D!Undefined]
        BY <3>2 DEF D!Slots
      <4>2. PICK n : n = Len(ids)
        OBVIOUS
      <4>3. n \in Nat /\ DOMAIN ids = 1..n
        BY <4>2, CallTypes
      <4>4. result' \in [1..n -> D!Vectors \cup {D!Undefined}]
        BY <4>1, <4>3, GotTypes
      <4>5. QED
        BY <1>1, <4>1, <4>3, <4>4, SeqDef DEF D!TypeOK
    <3>3. CASE D!Ranks
      <4>1. PICK m \in Nat : result' = picked' /\ picked' \in [1..m -> D!Vectors]
        BY <3>3, RanksTypes
      <4>2. result' \in [1..m -> D!Vectors \cup {D!Undefined}]
        BY <4>1
      <4>3. QED
        BY <4>1, <4>2, SeqDef
    <3>4. QED
      BY <1>9, <3>1, <3>2, <3>3
  <2>4. QED
    BY <1>1, <2>1, <2>2, <2>3 DEF TypeInv, D!TypeOK, D!WindowTypeOK
<1>10. CASE D!Fires
  BY <1>1, <1>10 DEF D!Fires, D!Fire, TypeInv, D!TypeOK, D!WindowTypeOK
<1>11. CASE D!OtherChanges
  <2>1. /\ changes < MaxChanges /\ changes' = changes + 1
        /\ UNCHANGED <<total, status, launched, inFlight, waiting, failure, fired, mmr, ids,
                       batchSize, k, pc, next, answers, result, foundIds, picked>>
    BY <1>11 DEF D!OtherChanges
  <2>2. PICK id \in Ids, version \in {D!NotThere, changes + 2} :
          /\ stored' = [stored EXCEPT ![id] = version]
          /\ held' = [held EXCEPT ![id] = @ \cup {version}]
    BY <1>11 DEF D!OtherChanges
  <2>3. changes \in Nat /\ MaxChanges \in Nat
    BY <1>1, ReadsByIdAssumption DEF D!TypeOK
  <2>4. version \in D!Versions
    BY <2>1, <2>2, <2>3 DEF D!Versions, D!NotThere
  <2>5. stored' \in [Ids -> D!Versions] /\ held' \in [Ids -> SUBSET D!Versions]
    BY <1>1, <2>2, <2>4 DEF D!TypeOK
  <2>6. changes' \in Nat /\ changes' <= MaxChanges
    BY <2>1, <2>3
  <2>7. QED
    BY <1>1, <2>1, <2>5, <2>6 DEF TypeInv, D!TypeOK, D!WindowTypeOK
<1>12. QED
  BY <1>3, <1>4, <1>5, <1>6, <1>7, <1>8, <1>9, <1>10, <1>11 DEF D!Next

(* The state of a read by id stays in its types, whatever others do.       *)
THEOREM ByIdTypeCorrect == D!Spec => []D!TypeOK
<1>1. TypeInv => D!TypeOK
  BY DEF TypeInv
<1>2. QED
  BY <1>1, TypeInit, TypeStep, PTL DEF D!Spec

-----------------------------------------------------------------------------
(* The requests *)

(* The caller launched the first next - 1 batches, in order.               *)
FeedInv ==
  /\ D!Fed(0, next) /\ next <= total + 1
  /\ ~waiting => D!Cardinality(inFlight) < MaxConcurrent

(* It settles when every batch is launched or one failed; a call that      *)
(* ended has no request under way.                                         *)
PhaseInv ==
  /\ pc \in {"begin", "searching"} => next = 1 /\ failure = {}
  /\ pc \in {"feeding", "settling"} => total = D!Batches(ids)
  /\ pc = "settling" => next = total + 1 \/ failure # {}
  /\ pc \in D!Ended => D!UnderWay = {}
  /\ mmr => D!IsInjective(ids)

(* What a failure may have cost: the failed and those that may yet fail.   *)
Costs == {r \in D!Requests : status[r] \in {"launched", "sent", "failed"}}

CostInv ==
  /\ \A e \in failure : e \in D!Requests /\ status[e] = "failed"
  /\ D!Cardinality(Costs) <= MaxConcurrent

SlotInv == FeedInv /\ PhaseInv /\ CostInv

LEMMA SlotInit == D!Init => SlotInv
<1> SUFFICES ASSUME D!Init PROVE SlotInv
  OBVIOUS
<1>1. /\ status = [r \in D!Requests |-> "new"] /\ waiting = FALSE /\ pc = "begin" /\ next = 1
      /\ launched = <<>> /\ inFlight = {} /\ failure = {} /\ total = 0
  BY DEF D!Init, D!WindowInit
<1>2. MaxConcurrent \in Nat \ {0} /\ D!Cardinality({}) = 0 /\ MaxTotal \in Nat
  BY SlotsAssumption, FS_EmptySet, SizeOf
<1>3. D!UnderWay = {} /\ Costs = {}
  BY <1>1 DEF D!UnderWay, Costs
<1>4. D!Fed(0, 1)
  <2>1. launched = [i \in 1..(1 - 1 - 0) |-> i + 0]
    BY <1>1
  <2>2. \A r \in D!Requests : status[r] = "new" /\ r >= 1
    BY <1>1 DEF D!Requests
  <2>3. QED
    BY <1>1, <1>2, <1>3, <2>1, <2>2 DEF D!Fed
<1>5. FeedInv
  BY <1>1, <1>2, <1>4 DEF FeedInv
<1>6. mmr => D!IsInjective(ids)
  <2>1. SUFFICES ASSUME mmr PROVE D!IsInjective(ids)
    OBVIOUS
  <2>2. ids \in D!Lists(Ids, 0) /\ 0 \in Nat
    BY <2>1 DEF D!Init
  <2>3. Len(ids) = 0 /\ ids \in [1..Len(ids) -> Ids]
    BY <2>2, ListTypes
  <2>4. DOMAIN ids = {}
    BY <2>3
  <2>5. QED
    BY <2>4 DEF D!IsInjective
<1>7. PhaseInv
  BY <1>1, <1>6 DEF PhaseInv, D!Ended
<1>8. CostInv
  BY <1>1, <1>2, <1>3 DEF CostInv
<1>9. QED
  BY <1>5, <1>7, <1>8 DEF SlotInv

LEMMA CostsAreFinite ==
  D!IsFiniteSet(Costs) /\ D!Cardinality(Costs) \in Nat /\ MaxConcurrent \in Nat
<1>1. Costs \in SUBSET D!Requests
  BY DEF Costs
<1>2. QED
  BY <1>1, SlotsAreFinite, SlotsAssumption

(* A request that moves adds nothing to what a failure may have cost.      *)
LEMMA CostMoves ==
  ASSUME D!WindowTypeOK, CostInv, NEW r \in D!Requests, D!Moves(r) \/ D!Served(r)
  PROVE  CostInv'
<1> USE DEF D!windowVars
<1>1. CASE D!Finish(r)
  BY <1>1 DEF D!Finish, CostInv, Costs
<1>2. CASE D!Request(r) \/ D!EnsureFails(r) \/ D!Served(r)
  <2>1. /\ status[r] \in {"launched", "sent"}
        /\ \E to \in {"sent", "ok", "failed"} :
             D!Becomes(r, to) /\ (IF to = "failed" THEN D!Record(r) ELSE failure' = failure)
    BY <1>2 DEF D!Request, D!Send, D!Succeed, D!Fail, D!EnsureFails, D!Reject, D!Served
  <2>2. /\ \A q \in D!Requests \ {r} : status'[q] = status[q]
        /\ \A e \in failure' : e \in failure \/ (e = r /\ status'[r] = "failed")
    BY <2>1 DEF D!Becomes, D!Record, D!WindowTypeOK
  <2>3. \A e \in failure' : e \in D!Requests /\ status'[e] = "failed"
    BY <2>1, <2>2 DEF CostInv
  <2>4. Costs' \in SUBSET Costs
    BY <2>1, <2>2 DEF Costs
  <2>5. D!Cardinality(Costs') <= D!Cardinality(Costs) /\ D!Cardinality(Costs') \in Nat
    <3>1. D!IsFiniteSet(Costs)
      BY CostsAreFinite
    <3>2. QED
      BY <2>4, <3>1, FS_Subset, FS_CardinalityType, SizeOf
  <2>6. QED
    BY <2>3, <2>5, CostsAreFinite DEF CostInv
<1>3. QED
  BY <1>1, <1>2 DEF D!Moves

LEMMA SlotStep == TypeInv /\ TypeInv' /\ SlotInv /\ [D!Next]_(D!vars) => SlotInv'
<1> SUFFICES ASSUME TypeInv, TypeInv', SlotInv, [D!Next]_(D!vars) PROVE SlotInv'
  OBVIOUS
<1> USE DEF D!windowVars, D!call, D!outcome, D!index
<1>1. D!WindowTypeOK /\ FeedInv /\ PhaseInv /\ CostInv
  BY DEF TypeInv, D!TypeOK, SlotInv
<1>2. /\ total \in Nat /\ total <= MaxTotal /\ MaxTotal \in Nat /\ next \in Nat \ {0}
      /\ total' \in Nat
      /\ MaxConcurrent \in Nat
  BY SlotsAssumption DEF TypeInv, D!TypeOK, D!WindowTypeOK
<1>3. ASSUME UNCHANGED <<status, launched, inFlight, waiting, failure, next>>, next <= total' + 1
      PROVE  FeedInv' /\ CostInv' /\ D!UnderWay' = D!UnderWay
  BY <1>1, <1>3 DEF FeedInv, D!Fed, D!UnderWay, CostInv, Costs
<1>4. next = 1 => D!UnderWay = {}
  BY <1>1 DEF FeedInv, D!Fed, D!UnderWay, D!Requests
<1>5. CASE UNCHANGED D!vars
  <2>1. FeedInv' /\ CostInv' /\ D!UnderWay' = D!UnderWay
    BY <1>1, <1>2, <1>3, <1>5 DEF D!vars, FeedInv
  <2>2. PhaseInv'
    BY <1>1, <1>5, <2>1 DEF D!vars, PhaseInv, D!Batches, D!Unique
  <2>3. QED
    BY <2>1, <2>2 DEF SlotInv
<1>6. CASE D!Begin
  <2>1. /\ next = 1 /\ failure = {}
        /\ UNCHANGED <<status, launched, inFlight, waiting, failure, next, mmr, ids, batchSize>>
        /\ \/ pc' = "feeding" /\ total' = D!Batches(ids)
           \/ pc' \in {"searching", "thrown"}
    BY <1>1, <1>6 DEF D!Begin, D!Throws, PhaseInv
  <2>2. FeedInv' /\ CostInv' /\ D!UnderWay' = {}
    <3>1. next <= total' + 1
      <4>1. PICK t \in Nat : t = total'
        BY <1>2
      <4>2. 1 <= t + 1
        OBVIOUS
      <4>3. QED
        BY <2>1, <4>1, <4>2
    <3>2. FeedInv' /\ CostInv' /\ D!UnderWay' = D!UnderWay
      BY <1>3, <2>1, <3>1
    <3>3. QED
      BY <1>4, <2>1, <3>2
  <2>3. PhaseInv'
    BY <1>1, <2>1, <2>2 DEF PhaseInv, D!Ended, D!Batches, D!Unique
  <2>4. QED
    BY <2>2, <2>3 DEF SlotInv
<1>7. CASE D!Searched
  <2>1. /\ next = 1 /\ failure = {}
        /\ UNCHANGED <<status, launched, inFlight, waiting, failure, next, mmr, batchSize>>
        /\ \/ pc' = "feeding" /\ total' = D!Batches(ids')
           \/ pc' \in {"resolved", "thrown"}
        /\ ids' = <<>> \/ ids' = ids \/ ids' \in D!Candidates
    BY <1>1, <1>7 DEF D!Searched, D!Throws, PhaseInv
  <2>2. FeedInv' /\ CostInv' /\ D!UnderWay' = {}
    <3>1. next <= total' + 1
      <4>1. PICK t \in Nat : t = total'
        BY <1>2
      <4>2. 1 <= t + 1
        OBVIOUS
      <4>3. QED
        BY <2>1, <4>1, <4>2
    <3>2. FeedInv' /\ CostInv' /\ D!UnderWay' = D!UnderWay
      BY <1>3, <2>1, <3>1
    <3>3. QED
      BY <1>4, <2>1, <3>2
  <2>3. mmr => D!IsInjective(ids')
    BY <1>1, <2>1 DEF PhaseInv, D!Candidates, D!IsInjective
  <2>4. PhaseInv'
    BY <2>1, <2>2, <2>3 DEF PhaseInv, D!Ended, D!Batches, D!Unique
  <2>5. QED
    BY <2>2, <2>4 DEF SlotInv
<1>8. CASE D!Feed
  <2>1. /\ pc = "feeding" /\ ~waiting
        /\ UNCHANGED <<total, failure, mmr, ids, batchSize>>
    BY <1>8 DEF D!Feed
  <2>2. CASE next <= total /\ failure = {}
    <3>1. D!Launch(next) /\ next' = next + 1 /\ pc' = pc
      BY <1>8, <2>2 DEF D!Feed
    <3>2. PICK n \in D!Requests : n = next
      BY <1>2, <2>2 DEF D!Requests
    <3>3. /\ n \in Nat /\ 0 < n /\ D!Fed(0, n) /\ D!Cardinality(inFlight) < MaxConcurrent
          /\ D!Launch(n)
      BY <1>1, <1>2, <2>1, <3>1, <3>2 DEF FeedInv
    <3>4. D!Fed(0, n + 1)' /\ (~waiting' => D!Cardinality(inFlight') < MaxConcurrent)
      BY <1>1, <2>1, <3>2, <3>3, FedLaunches
    <3>5. FeedInv'
      BY <1>2, <2>1, <2>2, <3>1, <3>2, <3>4 DEF FeedInv
    <3>6. Costs' \in SUBSET inFlight' /\ D!Cardinality(inFlight') <= MaxConcurrent
      <4>1. D!UnderWay' \subseteq inFlight' /\ \A r \in D!Requests : status'[r] # "failed"
        BY <2>1, <2>2, <3>4 DEF D!Fed
      <4>2. Costs' \subseteq D!UnderWay'
        BY <4>1 DEF Costs, D!UnderWay
      <4>3. QED
        BY <3>4, <4>1, <4>2 DEF D!Fed
    <3>7. CostInv'
      <4>1. D!IsFiniteSet(inFlight')
        BY SlotsAreFinite DEF TypeInv, D!TypeOK, D!WindowTypeOK
      <4>2. D!Cardinality(Costs') <= D!Cardinality(inFlight') /\ D!IsFiniteSet(Costs')
        BY <3>6, <4>1, FS_Subset, SizeOf
      <4>3. D!Cardinality(Costs') \in Nat /\ D!Cardinality(inFlight') \in Nat
        BY <4>1, <4>2, FS_CardinalityType, SizeOf
      <4>4. D!Cardinality(Costs') <= MaxConcurrent
        BY <1>2, <3>6, <4>2, <4>3
      <4>5. QED
        BY <2>1, <2>2, <4>4 DEF CostInv
    <3>8. PhaseInv'
      BY <1>1, <2>1, <3>1 DEF PhaseInv, D!Ended, D!Batches, D!Unique
    <3>9. QED
      BY <3>5, <3>7, <3>8 DEF SlotInv
  <2>3. CASE ~(next <= total /\ failure = {})
    <3>1. pc' = "settling" /\ UNCHANGED <<status, launched, inFlight, waiting, next>>
      BY <1>8, <2>3 DEF D!Feed
    <3>2. next = total + 1 \/ failure # {}
      BY <1>1, <1>2, <2>3 DEF FeedInv
    <3>3. FeedInv' /\ CostInv'
      BY <1>1, <1>3, <2>1, <3>1 DEF FeedInv
    <3>4. PhaseInv'
      BY <1>1, <2>1, <3>1, <3>2 DEF PhaseInv, D!Ended, D!Batches, D!Unique
    <3>5. QED
      BY <3>3, <3>4 DEF SlotInv
  <2>4. QED
    BY <2>2, <2>3
<1>9. ASSUME NEW r \in D!Requests, D!Answered(r) \/ D!Refused(r) \/ D!SlotFreed(r)
      PROVE  SlotInv'
  <2>1. /\ D!Moves(r) \/ D!Served(r)
        /\ (status[r] = "launched" \/ UNCHANGED <<status, failure>>)
        /\ UNCHANGED <<total, mmr, ids, batchSize, pc, next>>
    BY <1>9 DEF D!Answered, D!Refused, D!SlotFreed, D!Moves, D!EnsureFails, D!Served, D!Finish
  <2>2. CostInv'
    BY <1>1, <2>1, CostMoves
  <2>3. PICK n \in Nat : n = next
    BY <1>2
  <2>4. /\ D!Fed(0, n)'
        /\ D!Cardinality(inFlight') < MaxConcurrent \/ UNCHANGED <<inFlight, waiting>>
    BY <1>1, <1>2, <2>1, <2>3, FedMoves DEF FeedInv
  <2>5. FeedInv'
    BY <1>1, <2>1, <2>3, <2>4 DEF FeedInv
  <2>6. pc \in {"begin", "searching"} \cup D!Ended => status[r] # "launched"
    <3>1. pc \in {"begin", "searching"} \cup D!Ended => D!UnderWay = {}
      BY <1>1, <1>4 DEF PhaseInv
    <3>2. QED
      BY <3>1 DEF D!UnderWay
  <2>7. PhaseInv'
    <3>1. D!UnderWay = {} => D!UnderWay' = {}
      BY <1>1, <2>1, MoveMeans
    <3>2. failure # {} => failure' # {}
      BY <1>1, <2>1, MoveMeans
    <3>3. QED
      BY <1>1, <2>1, <2>6, <3>1, <3>2 DEF PhaseInv, D!Batches, D!Unique
  <2>8. QED
    BY <2>2, <2>5, <2>7 DEF SlotInv
<1>10. CASE D!FetchFails \/ D!RefuseVector \/ D!Slots \/ D!Ranks
  <2>1. /\ inFlight = {} /\ pc' \in D!Ended
        /\ UNCHANGED <<total, status, launched, inFlight, waiting, failure, next, mmr, ids,
                       batchSize>>
    BY <1>10 DEF D!FetchFails, D!RefuseVector, D!Slots, D!Ranks, D!Throws, D!Ended, D!Settled,
                 D!Fetched, D!AllFinished
  <2>2. FeedInv' /\ CostInv' /\ D!UnderWay' = D!UnderWay
    BY <1>1, <1>3, <2>1 DEF FeedInv
  <2>3. D!UnderWay = {}
    BY <1>1, <2>1 DEF FeedInv, D!Fed
  <2>4. PhaseInv'
    BY <1>1, <2>1, <2>2, <2>3 DEF PhaseInv, D!Ended
  <2>5. QED
    BY <2>2, <2>4 DEF SlotInv
<1>11. CASE D!Fires \/ D!OtherChanges
  <2>1. UNCHANGED <<total, status, launched, inFlight, waiting, failure, next, pc, mmr, ids,
                    batchSize>>
    BY <1>11 DEF D!Fires, D!Fire, D!OtherChanges
  <2>2. FeedInv' /\ CostInv' /\ D!UnderWay' = D!UnderWay
    BY <1>1, <1>3, <2>1 DEF FeedInv
  <2>3. PhaseInv'
    BY <1>1, <2>1, <2>2 DEF PhaseInv, D!Batches, D!Unique
  <2>4. QED
    BY <2>2, <2>3 DEF SlotInv
<1>12. QED
  BY <1>5, <1>6, <1>7, <1>8, <1>9, <1>10, <1>11 DEF D!Next

-----------------------------------------------------------------------------
(* What was answered *)

(* What a request was answered is about ids of its batch, as they were     *)
(* stored during the call, and what it leaves out was not there.           *)
Truthful(r) ==
  /\ \A v \in D!ToSet(answers[r]) : v.key \in D!ToSet(D!Batch(r)) /\ v.version \in held[v.key]
  /\ \A id \in D!ToSet(D!Batch(r)) :
       D!NotThere \in held[id] \/ \E v \in D!ToSet(answers[r]) : v.key = id

AnswerInv ==
  /\ \A id \in Ids : stored[id] \in held[id]
  /\ \A r \in D!Confirmed : Truthful(r)

LEMMA AnswerInit == D!Init => AnswerInv
<1> SUFFICES ASSUME D!Init PROVE AnswerInv
  OBVIOUS
<1>1. D!Confirmed = {}
  BY DEF D!Init, D!WindowInit, D!Confirmed
<1>2. \A id \in Ids : stored[id] \in held[id]
  BY DEF D!Init
<1>3. QED
  BY <1>1, <1>2 DEF AnswerInv

LEMMA AnswerStep == TypeInv /\ SlotInv /\ AnswerInv /\ [D!Next]_(D!vars) => AnswerInv'
<1> SUFFICES ASSUME TypeInv, SlotInv, AnswerInv, [D!Next]_(D!vars) PROVE AnswerInv'
  OBVIOUS
<1> USE DEF D!windowVars, D!call, D!outcome, D!index
<1>1. D!WindowTypeOK /\ FeedInv /\ PhaseInv
  BY DEF TypeInv, D!TypeOK, SlotInv
<1>2. ASSUME UNCHANGED <<status, ids, batchSize, answers, stored, held>>
      PROVE  AnswerInv'
  BY <1>2 DEF AnswerInv, D!Confirmed, Truthful, D!Batch, D!Unique
<1>3. CASE UNCHANGED D!vars
  BY <1>2, <1>3 DEF D!vars
<1>4. CASE D!Searched
  <2>1. next = 1 /\ UNCHANGED <<status, stored, held>>
    BY <1>1, <1>4 DEF D!Searched, PhaseInv
  <2>2. D!Confirmed' = {}
    BY <1>1, <2>1 DEF FeedInv, D!Fed, D!Confirmed, D!Requests
  <2>3. QED
    BY <2>1, <2>2 DEF AnswerInv
<1>5. CASE D!Begin
  BY <1>2, <1>5 DEF D!Begin
<1>6. CASE D!Feed
  <2>1. UNCHANGED <<ids, batchSize, answers, stored, held>>
    BY <1>6 DEF D!Feed
  <2>2. status' = status \/ \E r : D!Becomes(r, "launched")
    BY <1>6 DEF D!Feed, D!Launch
  <2>3. D!Confirmed' \in SUBSET D!Confirmed
    BY <1>1, <2>2 DEF D!Becomes, D!Confirmed, D!WindowTypeOK
  <2>4. QED
    BY <2>1, <2>3 DEF AnswerInv, Truthful, D!Batch, D!Unique
<1>7. ASSUME NEW r \in D!Requests, D!Answered(r)
      PROVE  AnswerInv'
  <2>1. /\ \A q \in D!Requests \ {r} : answers'[q] = answers[q]
        /\ \A v \in D!ToSet(answers'[r]) :
             /\ v.key \in D!ToSet(D!Batch(r))
             /\ v.version = stored[v.key]
        /\ \A id \in D!ToSet(D!Batch(r)) :
             stored[id] = D!NotThere \/ \E v \in D!ToSet(answers'[r]) : v.key = id
    BY <1>7, AnsweredMeans
  <2>2. UNCHANGED <<ids, batchSize, stored, held>>
    BY <1>7 DEF D!Answered
  <2>3. D!Confirmed' \in SUBSET (D!Confirmed \cup {r})
    BY <1>1, <1>7 DEF D!Answered, D!Becomes, D!Confirmed, D!WindowTypeOK
  <2>4. \A q : D!Batch(q)' = D!Batch(q)
    BY <2>2 DEF D!Batch, D!Unique
  <2>5. Truthful(r)'
    BY <2>1, <2>2, <2>4, BatchTypes DEF AnswerInv, Truthful
  <2>6. ASSUME NEW q \in D!Confirmed, q # r
        PROVE  Truthful(q)'
    <3>1. answers'[q] = answers[q] /\ Truthful(q)
      BY <2>1, <2>6 DEF AnswerInv, D!Confirmed
    <3>2. QED
      BY <2>2, <2>4, <3>1 DEF Truthful
  <2>7. QED
    BY <2>2, <2>3, <2>5, <2>6 DEF AnswerInv
<1>8. ASSUME NEW r \in D!Requests, D!Refused(r) \/ D!SlotFreed(r)
      PROVE  AnswerInv'
  <2>1. UNCHANGED <<ids, batchSize, answers, stored, held>>
    BY <1>8 DEF D!Refused, D!SlotFreed
  <2>2. D!Confirmed' \in SUBSET D!Confirmed
    BY <1>1, <1>8 DEF D!Refused, D!SlotFreed, D!Finish, D!Reject, D!Becomes, D!Confirmed,
                      D!WindowTypeOK
  <2>3. ASSUME NEW q \in D!Confirmed' PROVE Truthful(q)'
    <3>1. Truthful(q)
      BY <2>2, <2>3 DEF AnswerInv
    <3>2. QED
      BY <2>1, <3>1 DEF Truthful, D!Batch, D!Unique
  <2>4. QED
    BY <2>1, <2>3 DEF AnswerInv
<1>9. CASE D!FetchFails \/ D!RefuseVector \/ D!Slots \/ D!Ranks
  BY <1>2, <1>9 DEF D!FetchFails, D!RefuseVector, D!Slots, D!Ranks, D!Settled
<1>10. CASE D!Fires
  BY <1>2, <1>10 DEF D!Fires, D!Fire
<1>11. CASE D!OtherChanges
  <2>1. UNCHANGED <<status, ids, batchSize, answers>>
    BY <1>11 DEF D!OtherChanges
  <2>2. PICK id \in Ids, version \in {D!NotThere, changes + 2} :
          /\ stored' = [stored EXCEPT ![id] = version]
          /\ held' = [held EXCEPT ![id] = @ \cup {version}]
    BY <1>11 DEF D!OtherChanges
  <2>3. \A i \in Ids : held[i] \subseteq held'[i] /\ stored'[i] \in held'[i]
    BY <2>2 DEF AnswerInv, TypeInv, D!TypeOK
  <2>4. \A q : D!Batch(q)' = D!Batch(q)
    BY <2>1 DEF D!Batch, D!Unique
  <2>5. ASSUME NEW q \in D!Confirmed
        PROVE  Truthful(q)'
    <3>1. Truthful(q) /\ D!ToSet(D!Batch(q)) \in SUBSET Ids
      BY BatchTypes DEF AnswerInv, D!Confirmed
    <3>2. QED
      BY <2>1, <2>3, <2>4, <3>1 DEF Truthful
  <2>6. D!Confirmed' = D!Confirmed
    BY <2>1 DEF D!Confirmed
  <2>7. QED
    BY <2>3, <2>5, <2>6 DEF AnswerInv
<1>12. QED
  BY <1>3, <1>4, <1>5, <1>6, <1>7, <1>8, <1>9, <1>10, <1>11 DEF D!Next

-----------------------------------------------------------------------------
(* What is returned *)

StartInv ==
  /\ pc = "searching" => mmr
  /\ pc \notin D!Ended => result = <<>> /\ picked = <<>>

LEMMA StartInit == D!Init => StartInv
BY DEF D!Init, StartInv

LEMMA StartStep == StartInv /\ [D!Next]_(D!vars) => StartInv'
<1> SUFFICES ASSUME StartInv, [D!Next]_(D!vars) PROVE StartInv'
  OBVIOUS
<1> USE DEF StartInv, D!call, D!outcome, D!Ended
<1>1. CASE D!Begin \/ D!Searched \/ D!Feed
  BY <1>1 DEF D!Begin, D!Searched, D!Feed, D!Throws
<1>2. CASE \E r \in D!Requests : D!Answered(r) \/ D!Refused(r) \/ D!SlotFreed(r)
  BY <1>2 DEF D!Answered, D!Refused, D!SlotFreed
<1>3. CASE D!FetchFails \/ D!RefuseVector \/ D!Slots \/ D!Ranks
  BY <1>3 DEF D!FetchFails, D!RefuseVector, D!Slots, D!Ranks, D!Throws
<1>4. CASE D!Fires \/ D!OtherChanges \/ UNCHANGED D!vars
  BY <1>4 DEF D!Fires, D!OtherChanges, D!vars
<1>5. QED
  BY <1>1, <1>2, <1>3, <1>4 DEF D!Next

ReadInv == TypeInv /\ SlotInv /\ AnswerInv /\ StartInv

LEMMA ReadInit == D!Init => ReadInv
BY TypeInit, SlotInit, AnswerInit, StartInit DEF ReadInv

LEMMA ReadStep == ReadInv /\ [D!Next]_(D!vars) => ReadInv'
BY TypeStep, SlotStep, AnswerStep, StartStep DEF ReadInv

LEMMA ReadHolds == D!Spec => []ReadInv
BY ReadInit, ReadStep, PTL DEF D!Spec

(* Of a call that ended nothing changes but a slot that is freed late.     *)
LEMMA EndedStays ==
  ASSUME ReadInv, [D!Next]_(D!vars), pc \in D!Ended
  PROVE  UNCHANGED <<pc, mmr, ids, k, answers, status, failure, held, result, picked, foundIds>>
<1> USE DEF D!windowVars, D!call, D!outcome, D!index, D!Ended
<1>1. CASE D!Begin \/ D!Searched \/ D!Feed \/ D!FetchFails \/ D!RefuseVector \/ D!Slots \/ D!Ranks
  BY <1>1 DEF D!Begin, D!Searched, D!Feed, D!FetchFails, D!RefuseVector, D!Slots, D!Ranks, D!Fetched
<1>2. CASE \E r \in D!Requests : D!Answered(r) \/ D!Refused(r)
  <2>1. PICK r \in D!Requests : D!Answered(r) \/ D!Refused(r)
    BY <1>2
  <2>2. r \in D!UnderWay
    BY <2>1 DEF D!Answered, D!Refused, D!UnderWay
  <2>3. QED
    BY <2>2 DEF ReadInv, SlotInv, PhaseInv
<1>3. CASE \E r \in D!Requests : D!SlotFreed(r)
  BY <1>3 DEF D!SlotFreed, D!Finish
<1>4. CASE D!Fires \/ D!OtherChanges
  BY <1>4 DEF D!Fires, D!OtherChanges
<1>5. CASE UNCHANGED D!vars
  BY <1>5 DEF D!vars
<1>6. QED
  BY <1>1, <1>2, <1>3, <1>4, <1>5 DEF D!Next

LEMMA FoundStays ==
  ASSUME UNCHANGED <<answers, status>>
  PROVE  D!FoundIds' = D!FoundIds /\ D!UnderWay' = D!UnderWay
BY DEF D!FoundIds, D!Found, D!Puts, D!Confirmed, D!UnderWay

-----------------------------------------------------------------------------
(* getByIds *)

LEMMA SlotsAnswer ==
  ASSUME ReadInv, D!Slots
  PROVE  D!OwnSlot'
<1>1. /\ pc = "settling" /\ inFlight = {} /\ failure = {}
      /\ UNCHANGED <<ids, held>>
      /\ result' = [i \in DOMAIN ids |->
                      IF ids[i] \in D!FoundIds THEN D!Get(ids[i]) ELSE D!Undefined]
  BY DEF D!Slots, D!Fetched, D!AllFinished, D!Settled, D!call, D!index
<1>2. PICK n : n = Len(ids)
  OBVIOUS
<1>3. n \in Nat /\ DOMAIN ids = 1..n /\ ids \in [1..n -> Ids] /\ batchSize \in Nat \ {0}
  BY <1>2, CallTypes DEF ReadInv
<1>4. \A r \in 1..D!Batches(ids) : r \in D!Confirmed
  <2> TAKE r \in 1..D!Batches(ids)
  <2>1. next = total + 1 /\ total = D!Batches(ids)
    BY <1>1 DEF ReadInv, SlotInv, PhaseInv
  <2>2. total \in Nat /\ total <= MaxTotal /\ MaxTotal \in Nat
    BY SlotsAssumption DEF ReadInv, TypeInv, D!TypeOK, D!WindowTypeOK
  <2>3. r \in D!Requests /\ ~(r >= next)
    BY <2>1, <2>2 DEF D!Requests
  <2>4. status[r] # "new" /\ status[r] # "failed" /\ r \notin D!UnderWay
    BY <1>1, <2>3 DEF ReadInv, SlotInv, FeedInv, D!Fed
  <2>5. status[r] \in {"new", "launched", "sent", "ok", "failed"}
    BY <2>3 DEF ReadInv, TypeInv, D!TypeOK, D!WindowTypeOK
  <2>6. QED
    BY <2>3, <2>4, <2>5 DEF D!UnderWay, D!Confirmed
<1>5. ASSUME NEW i \in 1..n, ids[i] \in D!FoundIds
      PROVE  D!Get(ids[i]).key = ids[i] /\ D!Get(ids[i]).version \in held[ids[i]]
  <2>1. PICK r \in D!Confirmed : \E v \in D!ToSet(answers[r]) : D!Get(ids[i]) = v /\ v.key = ids[i]
    BY <1>5, GetsOwn
  <2>2. PICK v \in D!ToSet(answers[r]) : D!Get(ids[i]) = v /\ v.key = ids[i]
    BY <2>1
  <2>3. v.version \in held[v.key]
    BY <2>1, <2>2 DEF ReadInv, AnswerInv, Truthful
  <2>4. QED
    BY <2>2, <2>3
<1>6. ASSUME NEW i \in 1..n, ids[i] \notin D!FoundIds
      PROVE  D!NotThere \in held[ids[i]]
  <2>1. PICK r \in 1..D!Batches(ids) : ids[i] \in D!ToSet(D!Batch(r))
    BY <1>3, BatchesCover
  <2>2. r \in D!Confirmed /\ Truthful(r)
    BY <1>4, <2>1 DEF ReadInv, AnswerInv
  <2>3. ~ \E v \in D!ToSet(answers[r]) : v.key = ids[i]
    BY <1>6, <2>2, Finds
  <2>4. QED
    BY <2>1, <2>2, <2>3 DEF Truthful
<1>7. /\ DOMAIN result' = DOMAIN ids
      /\ \A i \in 1..n : result'[i] = IF ids[i] \in D!FoundIds THEN D!Get(ids[i]) ELSE D!Undefined
  BY <1>1, <1>3
<1>8. \A i \in 1..n :
         \/ result'[i] = D!Undefined /\ D!NotThere \in held[ids[i]]
         \/ result'[i].key = ids[i] /\ result'[i].version \in held[ids[i]]
  BY <1>5, <1>6, <1>7
<1>9. QED
  BY <1>1, <1>3, <1>7, <1>8 DEF D!OwnSlot

LEMMA OwnSlotStep == ReadInv /\ D!OwnSlot /\ [D!Next]_(D!vars) => D!OwnSlot'
<1> SUFFICES ASSUME ReadInv, D!OwnSlot, [D!Next]_(D!vars) PROVE D!OwnSlot'
  OBVIOUS
<1>1. CASE pc \in D!Ended
  BY <1>1, EndedStays DEF D!OwnSlot
<1>2. CASE pc \notin D!Ended /\ D!Slots
  BY <1>2, SlotsAnswer
<1>3. CASE pc \notin D!Ended /\ ~D!Slots
  <2>1. pc' # "resolved" \/ mmr'
    <3> USE DEF D!call, D!Ended
    <3>1. CASE \/ D!Begin \/ D!Feed \/ D!FetchFails \/ D!RefuseVector
               \/ D!Fires \/ D!OtherChanges \/ UNCHANGED D!vars
      BY <1>3, <3>1
         DEF D!Begin, D!Feed, D!FetchFails, D!RefuseVector, D!Fires, D!OtherChanges, D!Throws,
             D!vars
    <3>2. CASE D!Searched \/ D!Ranks
      BY <1>3, <3>2 DEF D!Searched, D!Ranks, D!Settled, ReadInv, StartInv
    <3>3. CASE \E r \in D!Requests : D!Answered(r) \/ D!Refused(r) \/ D!SlotFreed(r)
      BY <1>3, <3>3 DEF D!Answered, D!Refused, D!SlotFreed
    <3>4. QED
      BY <1>3, <3>1, <3>2, <3>3 DEF D!Next
  <2>2. QED
    BY <2>1 DEF D!OwnSlot
<1>4. QED
  BY <1>1, <1>2, <1>3

(* Each slot getByIds returns is about the id asked for there: what was    *)
(* stored under it during the call, or nothing, and then it was not there  *)
(* at some time during the call; for any ids, repeated or not, requests    *)
(* answered in any order and changes by others.                            *)
THEOREM OwnSlotHolds == D!Spec => []D!OwnSlot
<1>1. D!Init => D!OwnSlot
  BY DEF D!Init, D!OwnSlot
<1>2. QED
  BY <1>1, OwnSlotStep, ReadHolds, PTL DEF D!Spec

-----------------------------------------------------------------------------
(* mmrSearch *)

(* Only ids that were asked for are found.                                 *)
LEMMA FoundWereAsked ==
  ASSUME ReadInv, NEW id \in D!FoundIds
  PROVE  \E p \in Places : ids[p] = id
<1>1. PICK n : n = Len(ids)
  OBVIOUS
<1>2. PICK T : T = D!ToSet(ids)
  OBVIOUS
<1>3. /\ n \in Nat /\ DOMAIN ids = 1..n /\ ids \in [1..n -> T] /\ batchSize \in Nat \ {0}
  <2>1. n \in Nat /\ DOMAIN ids = 1..n /\ ids \in [1..n -> Ids] /\ batchSize \in Nat \ {0}
    BY <1>1, CallTypes DEF ReadInv
  <2>2. \A i \in 1..n : ids[i] \in T
    BY <1>2, <2>1 DEF D!ToSet
  <2>3. QED
    BY <2>1, <2>2
<1>4. PICK r \in D!Confirmed : \E v \in D!ToSet(answers[r]) : D!Get(id) = v /\ v.key = id
  BY GetsOwn
<1>5. id \in D!ToSet(D!Batch(r))
  BY <1>4 DEF ReadInv, AnswerInv, Truthful
<1>6. r \in Nat \ {0}
  BY <1>4 DEF D!Confirmed, D!Requests
<1>7. D!ToSet(D!Batch(r)) \in SUBSET T
  BY <1>3, <1>6, BatchHolds
<1>8. PICK p \in DOMAIN ids : ids[p] = id
  BY <1>2, <1>5, <1>7 DEF D!ToSet
<1>9. QED
  BY <1>8 DEF Places

(* The candidates that are still there are all that was found, each once.  *)
LEMMA PresentIsAll ==
  ASSUME ReadInv, mmr
  PROVE  /\ Len(D!Present) = D!Cardinality(D!FoundIds)
         /\ \A i, j \in 1..Len(D!Present) : D!Present[i] = D!Present[j] => i = j
<1>1. PICK n : n = Len(D!Present)
  OBVIOUS
<1>2. /\ n \in Nat /\ D!Present \in Seq(Ids)
      /\ \A i \in 1..n :
           /\ D!Nth(Places, i) \in Places /\ D!Present[i] = ids[D!Nth(Places, i)]
           /\ D!Present[i] \in D!FoundIds
      /\ \A i, j \in 1..n : i < j => D!Nth(Places, i) < D!Nth(Places, j)
      /\ \A p \in Places : \E i \in 1..n : D!Nth(Places, i) = p
  BY <1>1, PresentHolds, LenProperties DEF ReadInv
<1>3. \A p, q \in DOMAIN ids : ids[p] = ids[q] => p = q
  BY DEF ReadInv, SlotInv, PhaseInv, D!IsInjective
<1>4. \A i, j \in 1..n : D!Present[i] = D!Present[j] => i = j
  <2> TAKE i, j \in 1..n
  <2> HAVE D!Present[i] = D!Present[j]
  <2>1. D!Nth(Places, i) = D!Nth(Places, j)
    BY <1>2, <1>3 DEF Places
  <2>2. D!Nth(Places, i) \in Nat
    BY <1>2, CallTypes DEF Places, ReadInv
  <2>3. ~(i < j) /\ ~(j < i)
    BY <1>2, <2>1, <2>2
  <2>4. QED
    BY <1>2, <2>3
<1>5. D!Present \in [1..n -> D!FoundIds]
  <2>1. D!Present = [i \in 1..n |-> D!Present[i]]
    BY <1>1, <1>2, LenProperties, IsASeq
  <2>2. QED
    BY <1>2, <2>1
<1>6. \A id \in D!FoundIds : \E i \in 1..n : D!Present[i] = id
  <2> TAKE id \in D!FoundIds
  <2>1. PICK p \in Places : ids[p] = id
    BY FoundWereAsked
  <2>2. QED
    BY <1>2, <2>1
<1>7. D!Present \in Bijection(1..n, D!FoundIds)
  BY <1>4, <1>5, <1>6 DEF Bijection, Injection, Surjection, IsInjective
<1>8. D!IsFiniteSet(1..n) /\ D!Cardinality(1..n) = n
  BY <1>2, FS_Interval, SizeOf
<1>9. D!Cardinality(D!FoundIds) = n
  <2>1. ExistsBijection(1..n, D!FoundIds)
    BY <1>7 DEF ExistsBijection
  <2>2. QED
    BY <1>8, <2>1, FS_Bijection, SizeOf
<1>10. QED
  BY <1>1, <1>4, <1>9

LEMMA RanksReturn ==
  ASSUME ReadInv, D!Ranks
  PROVE  D!RankedReturned'
<1>1. mmr /\ UNCHANGED <<k, answers, status>>
  BY DEF D!Ranks, D!Settled, D!call
<1>2. PICK n, m \in Nat : \E selected \in [1..m -> 1..n] :
        /\ n = Len(D!Present) /\ m = D!Smaller(k, n) /\ D!IsInjective(selected)
        /\ \A i \in 1..m : D!Present[selected[i]] \in D!FoundIds
        /\ result' = picked' /\ picked' = [i \in 1..m |-> D!Get(D!Present[selected[i]])]
        /\ picked' \in [1..m -> D!Vectors]
  BY RanksTypes DEF ReadInv
<1>3. PICK selected \in [1..m -> 1..n] :
        /\ n = Len(D!Present) /\ m = D!Smaller(k, n) /\ D!IsInjective(selected)
        /\ \A i \in 1..m : D!Present[selected[i]] \in D!FoundIds
        /\ result' = picked' /\ picked' = [i \in 1..m |-> D!Get(D!Present[selected[i]])]
        /\ picked' \in [1..m -> D!Vectors]
  BY <1>2
<1>4. \A i \in 1..m : result'[i].key = D!Present[selected[i]]
  BY <1>3, GotTypes DEF ReadInv
<1>5. DOMAIN result' = 1..m
  BY <1>3
<1>6. \A i, j \in 1..m : result'[i].key = result'[j].key => i = j
  <2> TAKE i, j \in 1..m
  <2> HAVE result'[i].key = result'[j].key
  <2>1. D!Present[selected[i]] = D!Present[selected[j]]
    BY <1>4
  <2>2. selected[i] = selected[j]
    BY <1>1, <1>3, <2>1, PresentIsAll
  <2>3. QED
    BY <1>3, <2>2 DEF D!IsInjective
<1>7. D!IsInjective([i \in DOMAIN result' |-> result'[i].key])
  BY <1>5, <1>6 DEF D!IsInjective
<1>8. Len(result') = m
  <2>1. result' \in Seq(D!Vectors)
    <3>1. result' \in UNION {[1..l -> D!Vectors] : l \in Nat}
      BY <1>3
    <3>2. QED
      BY <3>1, SeqDef
  <2>2. QED
    BY <1>5, <2>1, LenProperties
<1>9. m = D!Smaller(k, D!Cardinality(D!FoundIds))
  BY <1>1, <1>3, PresentIsAll
<1>10. D!FoundIds' = D!FoundIds
  BY <1>1, FoundStays
<1>11. QED
  BY <1>1, <1>3, <1>7, <1>8, <1>9, <1>10 DEF D!RankedReturned, D!Smaller

LEMMA RankedStep == ReadInv /\ D!RankedReturned /\ [D!Next]_(D!vars) => D!RankedReturned'
<1> SUFFICES ASSUME ReadInv, D!RankedReturned, [D!Next]_(D!vars) PROVE D!RankedReturned'
  OBVIOUS
<1> USE DEF D!call, D!Ended
<1>1. CASE pc \in D!Ended
  <2>1. /\ UNCHANGED <<pc, mmr, k, result, picked>>
        /\ D!FoundIds' = D!FoundIds
    BY <1>1, EndedStays, FoundStays
  <2>2. QED
    BY <2>1 DEF D!RankedReturned
<1>2. CASE D!Ranks
  BY <1>2, RanksReturn
<1>3. CASE pc \notin D!Ended /\ D!Searched
  <2>1. /\ pc = "searching" /\ UNCHANGED <<status, answers, k, result, picked>>
        /\ result = <<>> /\ picked = <<>>
    BY <1>3 DEF D!Searched, D!Throws, D!outcome, ReadInv, StartInv
  <2>2. D!Confirmed = {}
    BY <2>1 DEF ReadInv, SlotInv, PhaseInv, FeedInv, D!Fed, D!Confirmed, D!Requests
  <2>3. D!FoundIds' = {}
    <3>1. D!FoundIds = {}
      BY <2>2 DEF D!FoundIds, D!Found
    <3>2. QED
      BY <2>1, <3>1, FoundStays
  <2>4. D!Cardinality(D!FoundIds') = 0 /\ k \in Nat \ {0}
    BY <2>3, FS_EmptySet, SizeOf, CallTypes DEF ReadInv
  <2>5. Len(result') = 0 /\ DOMAIN result' = {}
    <3>1. <<>> \in Seq(Ids) /\ Len(<<>>) = 0
      BY EmptySeq
    <3>2. DOMAIN <<>> = 1..0
      BY <3>1, LenProperties
    <3>3. QED
      BY <2>1, <3>1, <3>2
  <2>6. D!IsInjective([i \in DOMAIN result' |-> result'[i].key])
    BY <2>5 DEF D!IsInjective
  <2>7. D!Smaller(k, 0)' = 0
    BY <2>1, <2>4 DEF D!Smaller
  <2>8. QED
    BY <2>1, <2>4, <2>5, <2>6, <2>7 DEF D!RankedReturned
<1>4. CASE pc \notin D!Ended /\ ~D!Ranks /\ ~D!Searched
  <2>1. pc' # "resolved" \/ ~mmr'
    <3>1. CASE D!Begin \/ D!Feed \/ D!FetchFails \/ D!RefuseVector \/ D!Slots
      BY <1>4, <3>1 DEF D!Begin, D!Feed, D!FetchFails, D!RefuseVector, D!Slots, D!Settled, D!Throws
    <3>2. CASE D!Fires \/ D!OtherChanges \/ UNCHANGED D!vars
      BY <1>4, <3>2 DEF D!Fires, D!OtherChanges, D!vars
    <3>3. CASE \E r \in D!Requests : D!Answered(r) \/ D!Refused(r) \/ D!SlotFreed(r)
      BY <1>4, <3>3 DEF D!Answered, D!Refused, D!SlotFreed
    <3>4. QED
      BY <1>4, <3>1, <3>2, <3>3 DEF D!Next
  <2>2. QED
    BY <2>1 DEF D!RankedReturned
<1>5. QED
  BY <1>1, <1>2, <1>3, <1>4

(* An MMR search returns the documents whose embeddings it selected, in    *)
(* its order, k or all that are left, no two of one id, however many of    *)
(* its candidates were deleted before the fetch.                           *)
THEOREM RankedHolds == D!Spec => []D!RankedReturned
<1>1. D!Init => D!RankedReturned
  BY DEF D!Init, D!RankedReturned
<1>2. QED
  BY <1>1, RankedStep, ReadHolds, PTL DEF D!Spec

-----------------------------------------------------------------------------
(* The error of a fetch *)

LEMMA FoundStep == ReadInv /\ ReadInv' /\ D!FoundComplete /\ [D!Next]_(D!vars) => D!FoundComplete'
<1> SUFFICES ASSUME ReadInv, ReadInv', D!FoundComplete, [D!Next]_(D!vars),
                    pc' = "thrown", failure' # {}
             PROVE  /\ D!UnderWay' = {} /\ foundIds' = D!FoundIds'
                    /\ \A r \in failure' : status'[r] = "failed"
                    /\ D!Cardinality({r \in D!Requests : status'[r] = "failed"}) <= MaxConcurrent
  BY DEF D!FoundComplete
<1>1. D!UnderWay' = {} /\ \A r \in failure' : status'[r] = "failed"
  BY DEF ReadInv, SlotInv, PhaseInv, CostInv, D!Ended
<1>2. D!Cardinality({r \in D!Requests : status'[r] = "failed"}) <= MaxConcurrent
  <2> DEFINE failed == {r \in D!Requests : status'[r] = "failed"}
  <2>1. D!IsFiniteSet(Costs') /\ D!Cardinality(Costs') \in Nat /\ MaxConcurrent \in Nat
    <3>1. Costs' \in SUBSET D!Requests
      BY DEF Costs
    <3>2. QED
      BY <3>1, SlotsAreFinite, SlotsAssumption
  <2>2. failed \in SUBSET Costs'
    BY DEF Costs
  <2> HIDE DEF failed
  <2>3. D!Cardinality(failed) <= D!Cardinality(Costs') /\ D!Cardinality(failed) \in Nat
    BY <2>1, <2>2, FS_Subset, FS_CardinalityType, SizeOf
  <2>4. D!Cardinality(Costs') <= MaxConcurrent
    BY DEF ReadInv, SlotInv, CostInv
  <2>5. D!Cardinality(failed) <= MaxConcurrent
    BY <2>1, <2>3, <2>4
  <2>6. QED
    BY <2>5 DEF failed
<1>3. foundIds' = D!FoundIds'
  <2> USE DEF D!call, D!Ended
  <2>1. CASE pc \in D!Ended
    <3>1. UNCHANGED <<pc, failure, foundIds>> /\ D!FoundIds' = D!FoundIds
      BY <2>1, EndedStays, FoundStays
    <3>2. QED
      BY <3>1 DEF D!FoundComplete
  <2>2. CASE D!FetchFails
    <3>1. foundIds' = D!FoundIds /\ UNCHANGED <<answers, status>>
      BY <2>2 DEF D!FetchFails, D!Settled
    <3>2. QED
      BY <3>1, FoundStays
  <2>3. CASE pc \notin D!Ended /\ ~D!FetchFails
    <3>1. CASE D!Begin \/ D!Searched \/ D!RefuseVector
      BY <3>1 DEF D!Begin, D!Searched, D!RefuseVector, D!Settled, ReadInv, SlotInv, PhaseInv
    <3>2. CASE D!Feed \/ D!Slots \/ D!Ranks
      BY <2>3, <3>2 DEF D!Feed, D!Slots, D!Ranks
    <3>3. CASE D!Fires \/ D!OtherChanges \/ UNCHANGED D!vars
      BY <2>3, <3>3 DEF D!Fires, D!OtherChanges, D!vars
    <3>4. CASE \E r \in D!Requests : D!Answered(r) \/ D!Refused(r) \/ D!SlotFreed(r)
      BY <2>3, <3>4 DEF D!Answered, D!Refused, D!SlotFreed
    <3>5. QED
      BY <2>3, <3>1, <3>2, <3>3, <3>4 DEF D!Next
  <2>4. QED
    BY <2>1, <2>2, <2>3
<1>4. QED
  BY <1>1, <1>2, <1>3

(* The error of a fetch is thrown when no request is under way any more    *)
(* and names every id that was answered, and a persistent failure costs no *)
(* more requests than may be in flight at once.                            *)
THEOREM FoundIsComplete == D!Spec => []D!FoundComplete
<1>1. D!Init => D!FoundComplete
  BY DEF D!Init, D!FoundComplete
<1>2. QED
  BY <1>1, FoundStep, ReadHolds, PTL DEF D!Spec

-----------------------------------------------------------------------------
(* The two kinds of read together, as the run checks them: of pages, or by *)
(* id.                                                                     *)

ByIdInv == byId => ReadInv /\ D!OwnSlot /\ D!RankedReturned /\ D!FoundComplete

(* A read by id takes the steps of Reads, and a read of pages none of them. *)
LEMMA ByIdHolds == AnySpec => []ByIdInv
<1>1. AnyInit => ByIdInv
  <2> SUFFICES ASSUME byId, D!Init PROVE ByIdInv
    BY DEF AnyInit, ByIdInv
  <2>1. D!Init
    OBVIOUS
  <2>2. ReadInv
    BY <2>1, ReadInit, SlotsAssumption, ReadsByIdAssumption
  <2>3. pc = "begin"
    BY <2>1 DEF D!Init
  <2>4. D!OwnSlot /\ D!RankedReturned /\ D!FoundComplete
    BY <2>3 DEF D!OwnSlot, D!RankedReturned, D!FoundComplete
  <2>5. QED
    BY <2>2, <2>4 DEF ByIdInv
<1>2. ByIdInv /\ [AnyNext]_<<vars, byIdVars, byId>> => ByIdInv'
  <2> SUFFICES ASSUME ByIdInv, [AnyNext]_<<vars, byIdVars, byId>>, byId' PROVE ByIdInv'
    BY DEF ByIdInv
  <2>1. byId /\ [D!Next]_(D!vars)
    <3>1. CASE AnyNext
      <4>1. byId /\ D!Next
        BY <3>1, Zenon DEF AnyNext
      <4>2. QED
        BY <4>1, Zenon
    <3>2. CASE UNCHANGED <<vars, byIdVars, byId>>
      <4>1. byId
        BY <3>2, Zenon
      <4>2. UNCHANGED D!vars
        BY <3>2
           DEF vars, loop, byIdVars, windowVars, D!vars, D!windowVars, D!call, D!outcome, D!index
      <4>3. QED
        BY <4>1, <4>2, Zenon
    <3>3. QED
      BY <3>1, <3>2
  <2>2. ReadInv'
    BY <2>1, ReadStep, SlotsAssumption, ReadsByIdAssumption DEF ByIdInv
  <2>3. D!OwnSlot'
    BY <2>1, OwnSlotStep, SlotsAssumption, ReadsByIdAssumption DEF ByIdInv
  <2>4. D!RankedReturned'
    BY <2>1, RankedStep, SlotsAssumption, ReadsByIdAssumption DEF ByIdInv
  <2>5. D!FoundComplete'
    BY <2>1, <2>2, FoundStep, SlotsAssumption, ReadsByIdAssumption DEF ByIdInv
  <2>6. QED
    BY <2>2, <2>3, <2>4, <2>5 DEF ByIdInv
<1>3. QED
  BY <1>1, <1>2, PTL DEF AnySpec

(* Each slot of getByIds is about its own id, as stored during the call.   *)
THEOREM EachInItsSlot == AnySpec => []OwnSlot
<1>1. ByIdInv => OwnSlot
  BY DEF ByIdInv, OwnSlot
<1>2. QED
  BY <1>1, ByIdHolds, PTL

(* An MMR search returns what it selected, in its order.                   *)
THEOREM EachInItsRank == AnySpec => []RankedReturned
<1>1. ByIdInv => RankedReturned
  BY DEF ByIdInv, RankedReturned
<1>2. QED
  BY <1>1, ByIdHolds, PTL

(* The error of a fetch names all that was found.                          *)
THEOREM NothingFoundIsLost == AnySpec => []FoundComplete
<1>1. ByIdInv => FoundComplete
  BY DEF ByIdInv, FoundComplete
<1>2. QED
  BY <1>1, ByIdHolds, PTL

=============================================================================
