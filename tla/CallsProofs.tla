---------------------------- MODULE CallsProofs ----------------------------
(***************************************************************************)
(* Calls for every set of calls of every public method, whatever fields    *)
(* they are given: the order that decides between all that is wrong with   *)
(* one, and that a failure reaches the caller with the class, the cause,   *)
(* the request, the ids and the verdict of what failed first.              *)
(***************************************************************************)
EXTENDS Calls, SequenceTheorems, TLAPS

-----------------------------------------------------------------------------
(* Lists, and stages in order                                              *)

(* A list of stages or of layers. *)
List(s) == s \in Seq({s[i] : i \in DOMAIN s})

(* A sequence over any set is a list of its own members.                   *)
LEMMA Lists ==
  ASSUME NEW S, NEW s \in Seq(S)
  PROVE  List(s) /\ Len(s) \in Nat /\ DOMAIN s = 1..Len(s)
<1>1. Len(s) \in Nat /\ s \in [1..Len(s) -> S]
  OBVIOUS
<1>2. s \in [1..Len(s) -> {s[i] : i \in DOMAIN s}]
  BY <1>1
<1> QED
  BY <1>1, <1>2 DEF List

(* What concatenating two lists gives.                                     *)
LEMMA Joined ==
  ASSUME NEW s, NEW t, List(s), List(t)
  PROVE  /\ List(s \o t) /\ Len(s) \in Nat /\ Len(t) \in Nat
         /\ DOMAIN s = 1..Len(s) /\ DOMAIN t = 1..Len(t)
         /\ DOMAIN (s \o t) = 1..(Len(s) + Len(t))
         /\ \A i \in 1..Len(s) : (s \o t)[i] = s[i]
         /\ \A i \in 1..Len(t) : (s \o t)[Len(s) + i] = t[i]
         /\ \A i \in 1..(Len(s) + Len(t)) : i > Len(s) => (s \o t)[i] = t[i - Len(s)]
<1> DEFINE S == {s[i] : i \in DOMAIN s} \cup {t[i] : i \in DOMAIN t}
<1>1. s \in Seq(S) /\ t \in Seq(S)
  <2>1. s \in Seq({s[i] : i \in DOMAIN s}) /\ t \in Seq({t[i] : i \in DOMAIN t})
    BY DEF List
  <2> QED
    BY <2>1
<1> HIDE DEF S
<1>2. s \o t \in Seq(S) /\ Len(s \o t) = Len(s) + Len(t)
  BY <1>1, ConcatProperties
<1>3. \A i \in 1..(Len(s) + Len(t)) : (s \o t)[i] = IF i <= Len(s) THEN s[i] ELSE t[i - Len(s)]
  BY <1>1, ConcatProperties
<1>4. List(s \o t) /\ List(s) /\ List(t) /\ DOMAIN s = 1..Len(s) /\ DOMAIN t = 1..Len(t)
       /\ DOMAIN (s \o t) = 1..Len(s \o t) /\ Len(s) \in Nat /\ Len(t) \in Nat
  BY <1>1, <1>2, Lists
<1> QED
  BY <1>2, <1>3, <1>4

(* A member of a concatenation is a member of one of the two.              *)
LEMMA Members ==
  ASSUME NEW s, NEW t, List(s), List(t)
  PROVE  /\ List(s \o t)
         /\ \A i \in DOMAIN (s \o t) :
              (\E k \in DOMAIN s : (s \o t)[i] = s[k]) \/ (\E k \in DOMAIN t : (s \o t)[i] = t[k])
<1>1. SUFFICES ASSUME NEW i \in DOMAIN (s \o t)
               PROVE (\E k \in DOMAIN s : (s \o t)[i] = s[k]) \/ (\E k \in DOMAIN t : (s \o t)[i] = t[k])
  BY Joined
<1>2. CASE i <= Len(s)
  BY <1>2, Joined
<1>3. CASE i > Len(s)
  <2>1. i - Len(s) \in DOMAIN t /\ (s \o t)[i] = t[i - Len(s)]
    BY <1>3, Joined
  <2> QED
    BY <2>1
<1> QED
  BY <1>2, <1>3, Joined

(* What refuses this call whenever it is asked. *)
Refuses(x) == x.kind = "check" /\ Value(x.field) \in x.refuses
(* A stage that ends the call at once, and one that no model answers.      *)
NothingToDo(x) == x.kind = "empty" /\ Value("items") = "none"
NoModel(x) == x.kind = "model" /\ Value("model") = "stub"

(* What may come before what. *)
Precedes(x, y) ==
  /\ Refuses(y) \/ y.kind = "race" => x.kind = "check"
  /\ NothingToDo(y) => x.kind \in {"check", "signal"}
  /\ NoModel(y) => x.kind \in {"check", "race", "signal", "empty"}

(* A list of stages in the one order: what a method refuses, then a        *)
(* signal, an empty input, a missing model, and what is spent after them.  *)
Ordered(s) ==
  /\ List(s) /\ 1 \in DOMAIN s
  /\ \A i, j \in DOMAIN s : i < j => Precedes(s[i], s[j])
  /\ \A i \in DOMAIN s : s[i].kind \notin {"check", "race", "signal"} =>
       \E k \in 1..(i - 1) : s[k].kind = "signal"
  /\ \A i \in DOMAIN s : s[i].kind = "race" => Value("signal") \notin NotASignal

(* Stages that a call which came so far does not fail at. *)
Quiet(s) ==
  /\ List(s)
  /\ \A i \in DOMAIN s :
       ~Refuses(s[i]) /\ s[i].kind # "race" /\ ~NothingToDo(s[i]) /\ ~NoModel(s[i])

(* Stages that only look at arguments.                                     *)
Checks(s) == List(s) /\ 1 \in DOMAIN s /\ \A i \in DOMAIN s : s[i].kind = "check"

(* Two runs of checks are one.                                             *)
LEMMA ChecksJoined ==
  ASSUME NEW s, NEW t, Checks(s), Checks(t)
  PROVE  Checks(s \o t)
<1> DEFINE u == s \o t
<1>1. List(s) /\ List(t)
  BY DEF Checks
<1>2. List(u) /\ \A i \in DOMAIN u : (\E k \in DOMAIN s : u[i] = s[k]) \/ (\E k \in DOMAIN t : u[i] = t[k])
  BY <1>1, Members, SMTT(30)
<1>3. 1 \in DOMAIN u
  BY <1>1, Joined DEF Checks
<1> HIDE DEF u
<1>4. Checks(u)
  BY <1>2, <1>3 DEF Checks
<1> QED
  BY <1>4 DEF u

(* Checks alone are in order.                                              *)
LEMMA ChecksOrdered ==
  ASSUME NEW s, Checks(s)
  PROVE  Ordered(s)
BY DEF Checks, Ordered, Precedes, Refuses, NothingToDo, NoModel

(* Checks may be put before what is in order.                              *)
LEMMA ChecksFirst ==
  ASSUME NEW s, NEW t, Checks(s), Ordered(t)
  PROVE  Ordered(s \o t)
<1> DEFINE n == Len(s)
           m == Len(t)
           u == s \o t
<1>1. /\ List(u) /\ n \in Nat /\ m \in Nat /\ DOMAIN s = 1..n /\ DOMAIN t = 1..m
      /\ DOMAIN u = 1..(n + m)
      /\ \A i \in 1..n : u[i] = s[i]
      /\ \A i \in 1..m : u[n + i] = t[i]
      /\ \A i \in 1..(n + m) : i > n => u[i] = t[i - n]
  BY Joined DEF Checks, Ordered
<1> HIDE DEF n, m, u
<1>6. /\ 1 \in 1..m /\ \A i, j \in 1..m : i < j => Precedes(t[i], t[j])
      /\ \A i \in 1..m : t[i].kind \notin {"check", "race", "signal"} =>
           \E k \in 1..(i - 1) : t[k].kind = "signal"
  BY <1>1 DEF Ordered
<1>2. \A i \in 1..n : u[i].kind = "check"
  BY <1>1 DEF Checks
<1>3. ASSUME NEW i \in DOMAIN u, NEW j \in DOMAIN u, i < j PROVE Precedes(u[i], u[j])
  <2>1. CASE i <= n
    BY <1>1, <1>2, <2>1 DEF Precedes
  <2>2. CASE i > n
    BY <1>1, <1>3, <1>6, <2>2
  <2> QED
    BY <1>1, <2>1, <2>2
<1>4. ASSUME NEW i \in DOMAIN u, u[i].kind \notin {"check", "race", "signal"}
      PROVE  \E k \in 1..(i - 1) : u[k].kind = "signal"
  <2>1. i > n /\ i \in 1..(n + m)
    BY <1>1, <1>2, <1>4
  <2>2. PICK k \in 1..(i - n - 1) : t[k].kind = "signal"
    <3>1. i - n \in 1..m /\ u[i] = t[i - n]
      BY <1>1, <2>1
    <3>2. t[i - n].kind \notin {"check", "race", "signal"}
      BY <1>4, <3>1
    <3> QED
      BY <1>1, <1>6, <3>1, <3>2
  <2>3. n + k \in 1..(i - 1) /\ u[n + k] = t[k]
    BY <1>1, <2>1, <2>2
  <2> QED
    BY <2>2, <2>3
<1>5. ASSUME NEW i \in DOMAIN u, u[i].kind = "race" PROVE Value("signal") \notin NotASignal
  <2>1. i > n /\ i - n \in 1..m
    BY <1>1, <1>2, <1>5
  <2> QED
    BY <1>1, <1>5, <2>1 DEF Ordered
<1> QED
  <2>1. 1 \in DOMAIN u
    BY <1>1, <1>6
  <2> QED
    BY <1>1, <2>1, <1>3, <1>4, <1>5 DEF Ordered, u

(* A signal is looked at.                                                  *)
Signals(s) == \E k \in DOMAIN s : s[k].kind = "signal"

(* Once the signal has been looked at, what no call fails at may follow.   *)
LEMMA QuietLast ==
  ASSUME NEW s, NEW t, Ordered(s), Signals(s), Quiet(t)
  PROVE  Ordered(s \o t) /\ Signals(s \o t)
<1> DEFINE n == Len(s)
           m == Len(t)
           u == s \o t
<1>1. /\ List(u) /\ n \in Nat /\ m \in Nat /\ DOMAIN s = 1..n /\ DOMAIN t = 1..m
      /\ DOMAIN u = 1..(n + m)
      /\ \A i \in 1..n : u[i] = s[i]
      /\ \A i \in 1..m : u[n + i] = t[i]
      /\ \A i \in 1..(n + m) : i > n => u[i] = t[i - n]
  BY Joined DEF Quiet, Ordered
<1> HIDE DEF n, m, u
<1>2. PICK first \in 1..n : u[first].kind = "signal"
  BY <1>1 DEF Signals
<1>3. ASSUME NEW i \in DOMAIN u, NEW j \in DOMAIN u, i < j PROVE Precedes(u[i], u[j])
  <2>1. CASE j <= n
    BY <1>1, <1>3, <2>1 DEF Ordered
  <2>2. CASE j > n
    BY <1>1, <1>3, <2>2 DEF Quiet, Precedes
  <2> QED
    BY <1>1, <2>1, <2>2
<1>4. ASSUME NEW i \in DOMAIN u, u[i].kind \notin {"check", "race", "signal"}
      PROVE  \E k \in 1..(i - 1) : u[k].kind = "signal"
  <2>1. CASE i <= n
    <3>1. i \in 1..n /\ s[i].kind \notin {"check", "race", "signal"}
      BY <1>1, <1>4, <2>1
    <3>2. PICK k \in 1..(i - 1) : s[k].kind = "signal"
      BY <1>1, <3>1 DEF Ordered
    <3>3. u[k] = s[k]
      BY <1>1, <3>1
    <3> QED
      BY <3>2, <3>3
  <2>2. CASE i > n
    BY <1>1, <1>2, <2>2
  <2> QED
    BY <1>1, <2>1, <2>2
<1>5. ASSUME NEW i \in DOMAIN u, u[i].kind = "race" PROVE Value("signal") \notin NotASignal
  <2>1. CASE i <= n
    BY <1>1, <1>5, <2>1 DEF Ordered
  <2>2. CASE i > n
    BY <1>1, <1>5, <2>2 DEF Quiet
  <2> QED
    BY <1>1, <2>1, <2>2
<1> QED
  BY <1>1, <1>2, <1>3, <1>4, <1>5 DEF Ordered, Signals, u

(* What is appended leaves the signal where it was.                        *)
LEMMA SignalsAfter ==
  ASSUME NEW s, NEW t, Checks(s), Ordered(t), Signals(t)
  PROVE  Signals(s \o t)
<1>0. List(s) /\ List(t)
  BY DEF Checks, Ordered
<1>1. PICK k \in 1..Len(t) : t[k].kind = "signal"
  BY <1>0, Joined DEF Signals
<1>2. Len(s) + k \in DOMAIN (s \o t) /\ (s \o t)[Len(s) + k] = t[k]
  BY <1>0, Joined
<1> QED
  BY <1>1, <1>2 DEF Signals

(* Two quiet lists are one.                                                *)
LEMMA QuietJoined ==
  ASSUME NEW s, NEW t, Quiet(s), Quiet(t)
  PROVE  Quiet(s \o t)
<1> DEFINE u == s \o t
<1>1. List(u) /\ \A i \in DOMAIN u : (\E k \in DOMAIN s : u[i] = s[k]) \/ (\E k \in DOMAIN t : u[i] = t[k])
  <2>1. List(s) /\ List(t)
    BY DEF Quiet
  <2> QED
    BY <2>1, Members
<1> QED
  BY <1>1 DEF Quiet
(* A race may begin before what is in order, when the signal given is one. *)
LEMMA RaceFirst ==
  ASSUME NEW t, Ordered(t), Value("signal") \notin NotASignal,
         \A i \in DOMAIN t : ~Refuses(t[i]) /\ t[i].kind # "race" /\ ~NothingToDo(t[i])
  PROVE  Ordered(<<Do("race")>> \o t)
<1> DEFINE m == Len(t)
           u == <<Do("race")>> \o t
<1>1. /\ List(u) /\ m \in Nat /\ DOMAIN t = 1..m
      /\ DOMAIN u = 1..(1 + m)
      /\ u[1].kind = "race"
      /\ \A i \in 1..m : u[1 + i] = t[i]
      /\ \A i \in 1..(1 + m) : i > 1 => u[i] = t[i - 1]
  <2>1. List(<<Do("race")>>) /\ Len(<<Do("race")>>) = 1 /\ <<Do("race")>>[1].kind = "race"
    BY DEF List, Do
  <2>2. List(t)
    BY DEF Ordered
  <2> QED
    BY <2>1, <2>2, Joined
<1> HIDE DEF m, u
<1>3. ASSUME NEW i \in DOMAIN u, NEW j \in DOMAIN u, i < j PROVE Precedes(u[i], u[j])
  <2>1. j - 1 \in DOMAIN t /\ u[j] = t[j - 1]
    BY <1>1, <1>3
  <2>2. CASE i = 1
    BY <1>1, <2>1, <2>2 DEF Precedes, Refuses, NothingToDo
  <2>3. CASE i > 1
    <3>1. i - 1 \in DOMAIN t /\ u[i] = t[i - 1] /\ i - 1 < j - 1
      BY <1>1, <1>3, <2>3
    <3> QED
      BY <2>1, <3>1 DEF Ordered
  <2> QED
    BY <1>1, <2>2, <2>3
<1>4. ASSUME NEW i \in DOMAIN u, u[i].kind \notin {"check", "race", "signal"}
      PROVE  \E k \in 1..(i - 1) : u[k].kind = "signal"
  <2>1. i > 1 /\ i - 1 \in DOMAIN t /\ u[i] = t[i - 1]
    BY <1>1, <1>4
  <2>2. PICK k \in 1..(i - 2) : t[k].kind = "signal"
    <3>1. \E k \in 1..((i - 1) - 1) : t[k].kind = "signal"
      BY <1>4, <2>1 DEF Ordered
    <3> QED
      BY <1>1, <2>1, <3>1
  <2>3. 1 + k \in 1..(i - 1) /\ u[1 + k] = t[k]
    BY <1>1, <2>1, <2>2
  <2> QED
    BY <2>2, <2>3
<1> QED
  BY <1>1, <1>3, <1>4 DEF Ordered, u

-----------------------------------------------------------------------------
(* The programs *)

(* What is spent may follow what is in order, after a signal.              *)
LEMMA SpendsLast ==
  /\ Ordered(<<Do("signal"), Do("empty"), Do("write")>>)
  /\ Ordered(<<Do("signal"), Do("empty"), Do("model"), Do("embedAndWrite")>>)
  /\ Ordered(<<Do("signal"), Do("empty"), Do("fetch")>>)
  /\ Ordered(<<Do("signal"), Do("empty"), Do("delete")>>)
  /\ Ordered(<<Do("signal"), Do("list")>>)
  /\ Ordered(<<Do("signal"), Do("deleteIndex")>>)
  /\ Ordered(<<Do("signal"), Do("query")>>)
  /\ Ordered(<<Do("signal"), Do("model"), Do("embed")>>)
  /\ Signals(<<Do("signal"), Do("model"), Do("embed")>>)
  /\ Quiet(<<Do("signal"), Do("query")>>)
  /\ Quiet(<<Do("score")>>)
<1>1. Ordered(<<Do("signal"), Do("empty"), Do("write")>>)
  BY DEF Ordered, Precedes, Refuses, NothingToDo, NoModel, List, Do
<1>2. Ordered(<<Do("signal"), Do("empty"), Do("model"), Do("embedAndWrite")>>)
  BY DEF Ordered, Precedes, Refuses, NothingToDo, NoModel, List, Do
<1>3. Ordered(<<Do("signal"), Do("empty"), Do("fetch")>>)
  BY DEF Ordered, Precedes, Refuses, NothingToDo, NoModel, List, Do
<1>4. Ordered(<<Do("signal"), Do("empty"), Do("delete")>>)
  BY DEF Ordered, Precedes, Refuses, NothingToDo, NoModel, List, Do
<1>5. Ordered(<<Do("signal"), Do("list")>>)
  BY DEF Ordered, Precedes, Refuses, NothingToDo, NoModel, List, Do
<1>6. Ordered(<<Do("signal"), Do("deleteIndex")>>)
  BY DEF Ordered, Precedes, Refuses, NothingToDo, NoModel, List, Do
<1>7. Ordered(<<Do("signal"), Do("query")>>)
  BY DEF Ordered, Precedes, Refuses, NothingToDo, NoModel, List, Do
<1>8. Ordered(<<Do("signal"), Do("model"), Do("embed")>>)
  BY DEF Ordered, Precedes, Refuses, NothingToDo, NoModel, List, Do
<1>9. Signals(<<Do("signal"), Do("model"), Do("embed")>>)
  BY DEF Signals, Do
<1>10. Quiet(<<Do("signal"), Do("query")>>) /\ Quiet(<<Do("score")>>)
  BY DEF Quiet, Refuses, NothingToDo, NoModel, List, Do
<1> QED
  BY <1>1, <1>2, <1>3, <1>4, <1>5, <1>6, <1>7, <1>8, <1>9, <1>10


(* The stages of a method that looks at the signal once its checks are     *)
(* done.                                                                   *)
LEMMA ArgumentsFirst ==
  /\ Checks(ResolveIds)
  /\ Checks(Options)
  /\ Checks(<<Refuse("queryVector", Unstorable)>>)
  /\ Checks(<<Refuse("batchSize", NotABatchSize)>>)
  /\ Checks(<<Refuse("pageSize", NotAPageSize)>>)
<1>1. Checks(ResolveIds)
  BY DEF Checks, List, ResolveIds, Refuse
<1>2. Checks(Options)
  BY DEF Checks, List, Options, Refuse
<1> QED
  BY <1>1, <1>2 DEF Checks, List, Refuse

(* addVectors and addDocuments are in order.                               *)
LEMMA AddOrdered == Ordered(AddVectors) /\ Ordered(AddDocuments)
<1>1. Ordered(AddVectors)
  <2> DEFINE a == <<Refuse("vectors", NotAnArray), Refuse("documents", NotAnArray),
                    Refuse("vectors", {"fewer"})>>
             b == <<Refuse("batchSize", NotABatchSize), Refuse("documents", Unstorable),
                    Refuse("vectors", Unstorable \cup {"mixed"})>>
             c == <<Do("signal"), Do("empty"), Do("write")>>
  <2>1. Checks(a) /\ Checks(b)
    BY DEF Checks, List, Refuse
  <2>2. Ordered(c)
    BY SpendsLast
  <2>3. AddVectors = ((a \o ResolveIds) \o b) \o c
    BY DEF AddVectors
  <2> HIDE DEF a, b, c
  <2>4. Checks((a \o ResolveIds) \o b)
    BY <2>1, ArgumentsFirst, ChecksJoined
  <2> QED
    BY <2>2, <2>3, <2>4, ChecksFirst
<1>2. Ordered(AddDocuments)
  <2> DEFINE a == <<Refuse("documents", NotAnArray)>>
             b == <<Refuse("batchSize", NotABatchSize), Refuse("documents", Unstorable)>>
             c == <<Do("signal"), Do("empty"), Do("model"), Do("embedAndWrite")>>
  <2>1. Checks(a) /\ Checks(b)
    BY DEF Checks, List, Refuse
  <2>2. Ordered(c)
    BY SpendsLast
  <2>3. AddDocuments = ((a \o ResolveIds) \o b) \o c
    BY DEF AddDocuments
  <2> HIDE DEF a, b, c
  <2>4. Checks((a \o ResolveIds) \o b)
    BY <2>1, ArgumentsFirst, ChecksJoined
  <2> QED
    BY <2>2, <2>3, <2>4, ChecksFirst
<1> QED
  BY <1>1, <1>2

(* The fetch, the listing and the delete are in order.                     *)
LEMMA ReadsOrdered ==
  /\ Ordered(SearchByVector) /\ Ordered(FetchVectorsByIds) /\ Ordered(GetByIds)
  /\ Ordered(ListPages) /\ Ordered(DeleteVectors)
<1>1. Ordered(SearchByVector) /\ Ordered(FetchVectorsByIds) /\ Ordered(ListPages)
  BY SpendsLast, ArgumentsFirst, ChecksFirst
     DEF SearchByVector, QueryPages, FetchVectorsByIds, ListPages
<1>2. Ordered(GetByIds)
  <2>1. Checks(<<Refuse("idList", NotAnArray), Refuse("idList", Malformed)>>)
    BY DEF Checks, List, Refuse
  <2> QED
    BY <1>1, <2>1, ChecksFirst DEF GetByIds
<1>3. Ordered(DeleteVectors)
  <2> DEFINE a == <<Refuse("deleteAll", {"given"}), Refuse("keys", {"absent", "null"}), Refuse("keys", NotAnArray),
                    Refuse("keys", Malformed), Refuse("keys", Repeated),
                    Refuse("batchSize", NotABatchSize)>>
  <2>1. Checks(a)
    BY SMTT(60) DEF Checks, List, Refuse
  <2>2. DeleteVectors = a \o <<Do("signal"), Do("empty"), Do("delete")>>
    BY DEF DeleteVectors
  <2> HIDE DEF a
  <2> QED
    BY <2>1, <2>2, SpendsLast, ChecksFirst
<1> QED
  BY <1>1, <1>2, <1>3

(* A search by a vector the method worked out itself stops no call that    *)
(* came so far.                                                            *)
LEMMA SearchQuiet ==
  ASSUME "queryVector" \notin DOMAIN call.value
  PROVE  Quiet(SearchByVector)
<1>1. Value("queryVector") = "fine"
  BY DEF Value
<1>2. Quiet(<<Refuse("queryVector", Unstorable)>>)
  BY <1>1 DEF Quiet, List, Refuses, NothingToDo, NoModel, Refuse, Unstorable
<1> QED
  BY <1>2, SpendsLast, QuietJoined DEF SearchByVector, QueryPages

(* Nor does the fetch of an MMR search's candidates.                       *)
LEMMA FetchQuiet ==
  ASSUME "batchSize" \notin DOMAIN call.value, "items" \notin DOMAIN call.value
  PROVE  Quiet(FetchVectorsByIds)
<1>1. Value("batchSize") \in {"absent", "fine"} /\ Value("items") = "fine"
  BY DEF Value
<1>2. Quiet(<<Refuse("batchSize", NotABatchSize)>>)
  BY <1>1 DEF Quiet, List, Refuses, NothingToDo, NoModel, Refuse, NotABatchSize
<1>3. Quiet(<<Do("signal"), Do("empty"), Do("fetch")>>)
  BY <1>1 DEF Quiet, List, Refuses, NothingToDo, NoModel, Do
<1> QED
  BY <1>2, <1>3, QuietJoined DEF FetchVectorsByIds

(* A search by text is in order.                                           *)
LEMMA TextSearchOrdered ==
  ASSUME "queryVector" \notin DOMAIN call.value
  PROVE  /\ Ordered(SimilaritySearch) /\ Ordered(RelevanceScores)
         /\ "batchSize" \notin DOMAIN call.value /\ "items" \notin DOMAIN call.value
              => Ordered(MaxMarginalRelevanceSearch)
<1> DEFINE a == <<Refuse("query", NotText), Refuse("k", NotAK), Refuse("filter", NotAFilter)>>
           b == <<Refuse("callbacks", SignalInCallbacks)>>
           c == <<Refuse("callbacks", SignalInCallbacks), Refuse("metric", NoScores)>>
           d == <<Refuse("callbacks", SignalInCallbacks), Refuse("query", NotText), Refuse("mmr", NotABag),
                  Refuse("mmr", {"absent", "null"}), Refuse("parameters", NotMmrParameters),
                  Refuse("filter", NotAFilter)>>
           e == <<Do("signal"), Do("model"), Do("embed")>>
<1>1. Checks(a) /\ Checks(b) /\ Checks(c)
  BY DEF Checks, List, Refuse
<1>2. Checks(d)
  BY DEF Checks, List, Refuse
<1>3. Ordered(e) /\ Signals(e)
  BY SpendsLast
<1>4. TextSearch = (a \o e) \o SearchByVector
  BY DEF TextSearch
<1>5. SimilaritySearch = b \o TextSearch /\ RelevanceScores = (c \o TextSearch) \o <<Do("score")>>
  BY DEF SimilaritySearch, RelevanceScores
<1>6. MaxMarginalRelevanceSearch = (d \o e) \o MmrSearch
  BY DEF MaxMarginalRelevanceSearch
<1>7. MmrSearch = (<<Refuse("queryVector", Unstorable)>> \o QueryPages) \o FetchVectorsByIds
  BY DEF MmrSearch
<1> HIDE DEF a, b, c, d, e
<1>8. Ordered(a \o e) /\ Ordered(d \o e) /\ Signals(a \o e) /\ Signals(d \o e)
  BY <1>1, <1>2, <1>3, ChecksFirst, SignalsAfter
<1>9. Ordered(TextSearch) /\ Signals(TextSearch)
  BY <1>4, <1>8, SearchQuiet, QuietLast
<1>10. Ordered(SimilaritySearch)
  BY <1>1, <1>5, <1>9, ChecksFirst
<1>11. Ordered(RelevanceScores)
  <2>1. Ordered(c \o TextSearch) /\ Signals(c \o TextSearch)
    BY <1>1, <1>9, ChecksFirst, SignalsAfter
  <2> QED
    BY <1>5, <2>1, SpendsLast, QuietLast
<1>12. ASSUME "batchSize" \notin DOMAIN call.value, "items" \notin DOMAIN call.value
       PROVE  Ordered(MaxMarginalRelevanceSearch)
  <2>1. Quiet(MmrSearch)
    BY <1>7, <1>12, SearchQuiet, FetchQuiet, QuietJoined DEF SearchByVector
  <2> QED
    BY <1>6, <1>8, <2>1, QuietLast
<1> QED
  BY <1>10, <1>11, <1>12

(* Every method of the store is in order.                                  *)
LEMMA StoreOrdered ==
  ASSUME NEW name \in DOMAIN StoreOperation,
         "queryVector" \in DOMAIN call.value => name = "similaritySearchVectorWithScore",
         name = "maxMarginalRelevanceSearch" =>
           "batchSize" \notin DOMAIN call.value /\ "items" \notin DOMAIN call.value
  PROVE  Ordered(StoreOperation[name])
<1>1. CASE name \in {"addVectors", "addDocuments"}
  <2>1. Ordered(StoreAddVectors) /\ Ordered(StoreAddDocuments)
    BY ArgumentsFirst, AddOrdered, ChecksFirst DEF StoreAddVectors, StoreAddDocuments
  <2> QED
    BY <1>1, <2>1 DEF StoreOperation
<1>2. CASE name = "similaritySearchVectorWithScore"
  <2>1. Checks(<<Refuse("k", NotAK), Refuse("filter", NotAFilter)>>)
    BY DEF Checks, List, Refuse
  <2>2. Ordered(SimilaritySearchVectorWithScore)
    BY <2>1, ReadsOrdered, ChecksFirst DEF SimilaritySearchVectorWithScore
  <2> QED
    BY <1>2, <2>2 DEF StoreOperation
<1>3. CASE name \in {"similaritySearchWithScore", "similaritySearch",
                     "similaritySearchWithRelevanceScores", "maxMarginalRelevanceSearch"}
  <2>1. "queryVector" \notin DOMAIN call.value
    BY <1>3
  <2> QED
    BY <1>3, <2>1, TextSearchOrdered DEF StoreOperation, SimilaritySearchWithScore
<1>4. CASE name \in {"delete", "deleteIndex", "getByIds", "listDocuments", "listVectors"}
  <2>1. /\ Ordered(Delete) /\ Ordered(DeleteIndex) /\ Ordered(StoreGetByIds)
        /\ Ordered(ListDocuments) /\ Ordered(ListVectors)
    BY ArgumentsFirst, ReadsOrdered, SpendsLast, ChecksFirst
       DEF Delete, DeleteIndex, StoreGetByIds, ListDocuments, ListVectors
  <2> QED
    BY <1>4, <2>1 DEF StoreOperation
<1> QED
  BY <1>1, <1>2, <1>3, <1>4 DEF StoreOperation


-----------------------------------------------------------------------------
(* The stages of a program, whatever their layers.                         *)
StagesOf(code) == [i \in DOMAIN code |-> code[i].stage]

(* Putting stages under a name and inside layers keeps them.               *)
LEMMA StagesIn ==
  ASSUME NEW s, NEW operation, NEW layers, List(s)
  PROVE  LET code == In(s, operation, layers)
         IN /\ List(code) /\ StagesOf(code) = s /\ DOMAIN code = DOMAIN s
            /\ \A i \in DOMAIN code :
                 code[i].stage = s[i] /\ code[i].operation = operation /\ code[i].layers = layers
<1> DEFINE code == In(s, operation, layers)
           e(i) == [stage |-> s[i], operation |-> operation, layers |-> layers]
           S == {s[i] : i \in DOMAIN s}
<1>1. Len(s) \in Nat /\ DOMAIN s = 1..Len(s) /\ s \in Seq(S)
  BY Joined DEF List
<1>2. code = [i \in 1..Len(s) |-> e(i)]
  BY <1>1 DEF In
<1>3. code \in Seq({e(i) : i \in 1..Len(s)}) /\ DOMAIN code = 1..Len(s)
  BY <1>1, <1>2
<1>4. {code[i] : i \in DOMAIN code} = {e(i) : i \in 1..Len(s)}
  BY <1>2, <1>3
<1>5. List(code)
  BY <1>3, <1>4 DEF List
<1>6. s = [i \in DOMAIN s |-> s[i]]
  BY <1>1
<1>7. StagesOf(code) = [i \in 1..Len(s) |-> s[i]]
  BY <1>2, <1>3 DEF StagesOf
<1>8. \A i \in DOMAIN code :
        code[i].stage = s[i] /\ code[i].operation = operation /\ code[i].layers = layers
  BY <1>2, <1>3
<1> HIDE DEF code
<1>9. StagesOf(code) = s
  BY <1>1, <1>6, <1>7
<1> QED
  BY <1>1, <1>3, <1>5, <1>8, <1>9 DEF code

(* The stages of a list of entries are a list.                             *)
LEMMA StagesList ==
  ASSUME NEW a, List(a)
  PROVE  List(StagesOf(a)) /\ Len(StagesOf(a)) = Len(a) /\ DOMAIN StagesOf(a) = DOMAIN a
         /\ \A i \in DOMAIN a : StagesOf(a)[i] = a[i].stage
<1>1. Len(a) \in Nat /\ DOMAIN a = 1..Len(a)
  BY Joined
<1>2. StagesOf(a) \in Seq({a[i].stage : i \in 1..Len(a)}) /\ Len(StagesOf(a)) = Len(a)
  BY <1>1 DEF StagesOf
<1> QED
  BY <1>1, <1>2, Lists DEF StagesOf

(* The stages of a concatenation are concatenated.                         *)
LEMMA StagesJoined ==
  ASSUME NEW a, NEW b, List(a), List(b)
  PROVE  StagesOf(a \o b) = StagesOf(a) \o StagesOf(b)
<1> DEFINE one == StagesOf(a \o b)
           other == StagesOf(a) \o StagesOf(b)
           S == {one[i] : i \in DOMAIN one} \cup {other[i] : i \in DOMAIN other}
<1>1. /\ Len(a) \in Nat /\ Len(b) \in Nat /\ List(a \o b)
      /\ DOMAIN (a \o b) = 1..(Len(a) + Len(b)) /\ DOMAIN a = 1..Len(a) /\ DOMAIN b = 1..Len(b)
      /\ \A i \in 1..Len(a) : (a \o b)[i] = a[i]
      /\ \A i \in 1..(Len(a) + Len(b)) : i > Len(a) => (a \o b)[i] = b[i - Len(a)]
  BY Joined
<1>2. List(one) /\ DOMAIN one = 1..(Len(a) + Len(b)) /\ \A i \in DOMAIN one : one[i] = (a \o b)[i].stage
  BY <1>1, StagesList
<1>3. /\ List(other) /\ DOMAIN other = 1..(Len(a) + Len(b))
      /\ \A i \in 1..Len(a) : other[i] = StagesOf(a)[i]
      /\ \A i \in 1..(Len(a) + Len(b)) : i > Len(a) => other[i] = StagesOf(b)[i - Len(a)]
  <2>1. /\ List(StagesOf(a)) /\ Len(StagesOf(a)) = Len(a)
        /\ List(StagesOf(b)) /\ Len(StagesOf(b)) = Len(b)
    BY StagesList
  <2> QED
    BY <2>1, Joined
<1> HIDE DEF one, other
<1>4. ASSUME NEW i \in 1..(Len(a) + Len(b)) PROVE one[i] = other[i]
  <2>1. CASE i <= Len(a)
    BY <1>1, <1>2, <1>3, <2>1, StagesList
  <2>2. CASE i > Len(a)
    <3>1. i - Len(a) \in DOMAIN b
      BY <1>1, <2>2
    <3>2. one[i] = b[i - Len(a)].stage
      BY <1>1, <1>2, <2>2
    <3>3. other[i] = b[i - Len(a)].stage
      BY <1>3, <2>2, <3>1, StagesList
    <3> QED
      BY <3>2, <3>3
  <2> QED
    BY <1>1, <2>1, <2>2
<1>5. one \in Seq(S) /\ other \in Seq(S)
  <2>1. one \in Seq({one[i] : i \in DOMAIN one}) /\ other \in Seq({other[i] : i \in DOMAIN other})
    BY <1>2, <1>3 DEF List
  <2> QED
    BY <2>1
<1>6. Len(one) = Len(other)
  BY <1>1, <1>2, <1>3, <1>5, Lists
<1> HIDE DEF S
<1>7. one = other
  BY <1>2, <1>4, <1>5, <1>6, SeqEqual
<1> QED
  BY <1>7 DEF one, other


-----------------------------------------------------------------------------
(* The code of a call                                                      *)
LEMMA CodeIs ==
  ASSUME call \in Calls
  PROVE  Code = Program(call.name, call.type)
BY DEF Code, Codes

(* A program of checks alone is in order.                                  *)
LEMMA ChecksInOrder ==
  ASSUME NEW s, NEW operation, NEW layers, NEW code, Checks(s), List(code), Ordered(StagesOf(code))
  PROVE  LET whole == In(s, operation, layers) \o code
         IN List(whole) /\ Ordered(StagesOf(whole))
<1> DEFINE first == In(s, operation, layers)
<1>1. List(first) /\ StagesOf(first) = s
  BY StagesIn DEF Checks
<1> HIDE DEF first
<1>2. List(first \o code) /\ StagesOf(first \o code) = s \o StagesOf(code)
  BY <1>1, StagesJoined, Joined
<1> QED
  BY <1>2, ChecksFirst DEF first

(* A method of the store is in order inside any layers.                    *)
LEMMA OfStoreInOrder ==
  ASSUME NEW name \in DOMAIN StoreOperation, NEW outer,
         "queryVector" \in DOMAIN call.value => name = "similaritySearchVectorWithScore",
         name = "maxMarginalRelevanceSearch" =>
           "batchSize" \notin DOMAIN call.value /\ "items" \notin DOMAIN call.value
  PROVE  /\ List(OfStore(name, outer)) /\ Ordered(StagesOf(OfStore(name, outer)))
         /\ StagesOf(OfStore(name, outer)) = StoreOperation[name]
<1>1. Ordered(StoreOperation[name])
  BY StoreOrdered
<1>2. List(StoreOperation[name])
  BY <1>1 DEF Ordered
<1> QED
  BY <1>1, <1>2, StagesIn DEF OfStore

(* Stages that only check, put under a name, only check.                   *)
LEMMA ChecksOnly ==
  ASSUME NEW s, NEW operation, NEW layers, Checks(s)
  PROVE  List(In(s, operation, layers)) /\ Checks(StagesOf(In(s, operation, layers)))
         /\ Ordered(StagesOf(In(s, operation, layers)))
BY StagesIn, ChecksOrdered DEF Checks

(* The constructor, fromDocuments and fromTexts are in order.              *)
LEMMA FactoriesInOrder ==
  ASSUME NEW outer, "queryVector" \notin DOMAIN call.value
  PROVE  /\ List(FromDocuments(outer)) /\ Ordered(StagesOf(FromDocuments(outer)))
         /\ List(FromTexts) /\ Ordered(StagesOf(FromTexts))
<1>1. ASSUME NEW out PROVE List(FromDocuments(out)) /\ Ordered(StagesOf(FromDocuments(out)))
  <2> DEFINE code == OfStore("addDocuments", Instance \o out)
  <2>1. "addDocuments" \in DOMAIN StoreOperation
    BY DEF StoreOperation
  <2>2. List(code) /\ Ordered(StagesOf(code))
    BY <2>1, OfStoreInOrder
  <2>3. Checks(<<Refuse("config", NotAConfig)>>)
    BY DEF Checks, List, Refuse
  <2> HIDE DEF code
  <2> QED
    BY <2>2, <2>3, ChecksInOrder DEF FromDocuments, Constructor, code
<1>2. Checks(<<Refuse("texts", NotAnArray), Refuse("texts", {"mixed"}),
               Refuse("metadatas", {"short", "badEntry", "text"})>>)
  BY DEF Checks, List, Refuse
<1> QED
  BY <1>1, <1>2, ChecksInOrder DEF FromTexts

(* A retriever looks at its fields and does nothing else.                  *)
LEMMA FieldsAreChecks == \A type \in {"similarity", "mmr", "other"} : Checks(AssertSearchFields(type))
<1>1. Checks(AssertSearchFields("mmr"))
  <2> DEFINE s == <<Refuse("threshold", {"finite", "infinite", "euclidean"}),
                    Refuse("searchKwargs", NotABag), Refuse("parameters", NotMmrParameters),
                    Refuse("filter", NotAFilter), Refuse("signal", NotASignal)>>
  <2>1. Checks(s)
    BY DEF Checks, List, Refuse
  <2>2. AssertSearchFields("mmr") = s
    BY DEF AssertSearchFields
  <2> QED
    BY <2>1, <2>2
<1>2. Checks(AssertSearchFields("similarity"))
  <2> DEFINE s == <<Refuse("k", NotAK), Refuse("filter", NotAFilter), Refuse("threshold", {"infinite"}),
                    Refuse("threshold", NoScores), Refuse("signal", NotASignal)>>
  <2>1. Checks(s)
    BY DEF Checks, List, Refuse
  <2>2. AssertSearchFields("similarity") = s
    BY DEF AssertSearchFields
  <2> QED
    BY <2>1, <2>2
<1>3. Checks(AssertSearchFields("other"))
  BY DEF Checks, List, AssertSearchFields, Refuse
<1> QED
  BY <1>1, <1>2, <1>3

(* So does its construction.                                               *)
LEMMA BuiltChecked ==
  Checks(<<Refuse("built", NotABag \cup {"null"}), Refuse("vectorStore", {"absent"})>>)
BY DEF Checks, List, Refuse

(* asRetriever and the constructor of a retriever are in order.            *)
LEMMA RetrieversInOrder ==
  ASSUME NEW type \in {"similarity", "mmr", "other"}, NEW outer
  PROVE  /\ List(RetrieverConstructor(type, outer))
         /\ Ordered(StagesOf(RetrieverConstructor(type, outer)))
         /\ List(AsRetriever(type)) /\ Ordered(StagesOf(AsRetriever(type)))
<1>1. ASSUME NEW out
      PROVE  List(RetrieverConstructor(type, out)) /\ Ordered(StagesOf(RetrieverConstructor(type, out)))
  <2> DEFINE layers == Operation("retriever.constructor") \o out
             code == In(AssertSearchFields(type), "retriever.constructor", layers)
  <2>1. List(code) /\ Ordered(StagesOf(code))
    BY FieldsAreChecks, ChecksOnly
  <2>2. Checks(<<Refuse("built", NotABag \cup {"null"}), Refuse("vectorStore", {"absent"})>>)
    BY BuiltChecked
  <2> HIDE DEF code
  <2> QED
    BY <2>1, <2>2, ChecksInOrder DEF RetrieverConstructor, code
<1>2. Checks(<<Refuse("tags", NotTags)>>) /\ Checks(<<Refuse("fields", NotABag)>>)
  BY DEF Checks, List, Refuse
<1>3. List(BuildRetriever(type)) /\ Ordered(StagesOf(BuildRetriever(type)))
  BY <1>1, <1>2, ChecksInOrder DEF BuildRetriever
<1> QED
  BY <1>1, <1>2, <1>3, ChecksInOrder DEF AsRetriever

(* Checks that refuse nothing of this call.                                *)
Passes(s) ==
  /\ List(s)
  /\ \A i \in DOMAIN s : ~Refuses(s[i]) /\ s[i].kind # "race" /\ ~NothingToDo(s[i])

(* Two runs of checks that refuse nothing are one.                         *)
LEMMA PassesJoined ==
  ASSUME NEW s, NEW t, Passes(s), Passes(t)
  PROVE  Passes(s \o t)
<1> DEFINE u == s \o t
<1>1. List(u) /\ \A i \in DOMAIN u : (\E k \in DOMAIN s : u[i] = s[k]) \/ (\E k \in DOMAIN t : u[i] = t[k])
  <2>1. List(s) /\ List(t)
    BY DEF Passes
  <2> QED
    BY <2>1, Members
<1> QED
  BY <1>1 DEF Passes

(* What a retriever searches with is no field of an invocation.            *)
LEMMA SearchedAsConstructed ==
  ASSUME DOMAIN call.value \subseteq {"input", "timeout", "runSignal", "signal", "model"},
         NEW name \in {"similaritySearch", "maxMarginalRelevanceSearch",
                       "similaritySearchWithRelevanceScores"},
         NEW i \in DOMAIN StoreOperation[name]
  PROVE  LET x == StoreOperation[name][i]
         IN ~Refuses(x) /\ x.kind # "race" /\ ~NothingToDo(x)
<1>1. \A field \in {"callbacks", "query", "k", "filter", "metric", "mmr", "parameters", "queryVector", "items"} :
        Value(field) = "fine"
  BY DEF Value
<1>2. Value("batchSize") = "fine"
  BY DEF Value
<1>4. Passes(TextSearch)
  <2>1. Passes(<<Refuse("query", NotText), Refuse("k", NotAK), Refuse("filter", NotAFilter)>>)
    BY <1>1 DEF Passes, List, Refuses, NothingToDo, Refuse, NotText, NotAK, NotAFilter
  <2>2. Passes(<<Do("signal"), Do("model"), Do("embed")>>)
    BY DEF Passes, List, Refuses, NothingToDo, Do
  <2>3. Quiet(SearchByVector)
    BY SearchQuiet
  <2>4. Passes(SearchByVector)
    BY <2>3 DEF Quiet, Passes
  <2> QED
    BY <2>1, <2>2, <2>4, PassesJoined DEF TextSearch
<1>5. Passes(SimilaritySearch)
  <2>1. Passes(<<Refuse("callbacks", SignalInCallbacks)>>)
    BY <1>1 DEF Passes, List, Refuses, NothingToDo, Refuse, SignalInCallbacks
  <2> QED
    BY <2>1, <1>4, PassesJoined DEF SimilaritySearch
<1>6. Passes(RelevanceScores)
  <2>1. Passes(<<Refuse("callbacks", SignalInCallbacks), Refuse("metric", NoScores)>>)
    BY <1>1 DEF Passes, List, Refuses, NothingToDo, Refuse, SignalInCallbacks, NoScores
  <2>2. Passes(<<Do("score")>>)
    BY DEF Passes, List, Refuses, NothingToDo, Do
  <2> QED
    BY <2>1, <2>2, <1>4, PassesJoined DEF RelevanceScores
<1>7. Passes(MaxMarginalRelevanceSearch)
  <2> DEFINE d == <<Refuse("callbacks", SignalInCallbacks), Refuse("query", NotText), Refuse("mmr", NotABag),
                    Refuse("mmr", {"absent", "null"}), Refuse("parameters", NotMmrParameters),
                    Refuse("filter", NotAFilter)>>
             e == <<Do("signal"), Do("model"), Do("embed")>>
  <2>1. Passes(d)
    <3>1. Checks(d)
      BY DEF Checks, List, Refuse
    <3>2. DOMAIN d = 1..6
      OBVIOUS
    <3>3. \A n \in 1..6 : d[n].field \in {"callbacks", "query", "mmr", "parameters", "filter"}
      BY DEF Refuse
    <3>4. \A n \in 1..6 : "fine" \notin d[n].refuses
      BY DEF Refuse, SignalInCallbacks, NotText, NotABag, NotMmrParameters, NotAFilter
    <3> HIDE DEF d
    <3> QED
      BY <1>1, <3>1, <3>2, <3>3, <3>4 DEF Passes, Checks, Refuses, NothingToDo
  <2>2. Passes(e)
    BY DEF Passes, List, Refuses, NothingToDo, Do
  <2>3. Quiet(SearchByVector) /\ Quiet(FetchVectorsByIds)
    BY SearchQuiet, FetchQuiet
  <2>4. Passes(SearchByVector) /\ Passes(FetchVectorsByIds)
    BY <2>3 DEF Quiet, Passes
  <2>5. MaxMarginalRelevanceSearch = (d \o e) \o (SearchByVector \o FetchVectorsByIds)
    BY DEF MaxMarginalRelevanceSearch, MmrSearch, SearchByVector
  <2> HIDE DEF d, e
  <2> QED
    BY <2>1, <2>2, <2>4, <2>5, PassesJoined
<1>8. Passes(StoreOperation[name])
  BY <1>5, <1>6, <1>7 DEF StoreOperation
<1> QED
  BY <1>8 DEF Passes

(* retriever.invoke is in order, its search inside it included.            *)
LEMMA InvocationsInOrder ==
  ASSUME DOMAIN call.value \subseteq {"input", "timeout", "runSignal", "signal", "model"},
         "signal" \in DOMAIN call.value => call.value.signal \notin NotASignal,
         NEW type \in {"similarity", "mmr", "threshold"}
  PROVE  List(Invoke(type)) /\ Ordered(StagesOf(Invoke(type)))
<1> DEFINE a == <<Refuse("input", NotText), Refuse("timeout", NotATimeout), Refuse("runSignal", NotASignal)>>
           name == GetRelevantDocuments(type)
           first == In(a \o <<Do("race")>>, "retriever.invoke", Operation("retriever.invoke"))
           search == OfStore(name, Operation("retriever.invoke"))
<1>1. Checks(a)
  BY DEF Checks, List, Refuse
<1>2. name \in {"similaritySearch", "maxMarginalRelevanceSearch", "similaritySearchWithRelevanceScores"}
  BY DEF GetRelevantDocuments
<1>3. name \in DOMAIN StoreOperation
  BY <1>2 DEF StoreOperation
<1>4. Value("signal") \notin NotASignal
  BY DEF Value, NotASignal
<1>5. Invoke(type) = first \o search
  BY DEF Invoke
<1> HIDE DEF a, name, first, search
<1>6. List(search) /\ Ordered(StagesOf(search)) /\ StagesOf(search) = StoreOperation[name]
  <2>1. "queryVector" \notin DOMAIN call.value /\ "batchSize" \notin DOMAIN call.value
        /\ "items" \notin DOMAIN call.value
    OBVIOUS
  <2> QED
    BY <1>3, <2>1, OfStoreInOrder DEF search
<1>7. Ordered(<<Do("race")>> \o StagesOf(search))
  BY <1>2, <1>4, <1>6, SearchedAsConstructed, RaceFirst
<1>8. List(<<Do("race")>>) /\ List(a)
  <2>1. List(<<Do("race")>>)
    BY DEF List
  <2> QED
    BY <1>1, <2>1 DEF Checks
<1>9. List(first) /\ StagesOf(first) = a \o <<Do("race")>>
  BY <1>8, StagesIn, Joined DEF first
<1>10. List(first \o search) /\ StagesOf(first \o search) = (a \o <<Do("race")>>) \o StagesOf(search)
  <2>1. List(first) /\ List(search)
    BY <1>6, <1>9
  <2> QED
    BY <1>9, <2>1, StagesJoined, Joined
<1>11. (a \o <<Do("race")>>) \o StagesOf(search) = a \o (<<Do("race")>> \o StagesOf(search))
  OBVIOUS
<1> QED
  BY <1>1, <1>5, <1>7, <1>10, <1>11, ChecksFirst

(* The program of every public method is in order on every call of it.     *)
LEMMA CodeInOrder ==
  ASSUME CallsAssumption, call \in Calls
  PROVE  List(Code) /\ Ordered(StagesOf(Code))
<1> DEFINE name == call.name
           type == call.type
<1>1. /\ <<name, type>> \in PublicMethods
      /\ "queryVector" \in DOMAIN call.value => name = "similaritySearchVectorWithScore"
      /\ name = "maxMarginalRelevanceSearch" => {"batchSize", "items"} \cap DOMAIN call.value = {}
      /\ name = "retriever.invoke" =>
           /\ DOMAIN call.value \subseteq {"input", "timeout", "runSignal", "signal", "model"}
           /\ "signal" \in DOMAIN call.value => call.value.signal \notin NotASignal
  BY DEF CallsAssumption
<1>2. Code = Program(name, type)
  BY CodeIs
<1> HIDE DEF name, type
<1>3. \/ name \in DOMAIN StoreOperation
      \/ name \in {"constructor", "fromDocuments", "fromTexts", "retriever.addDocuments"}
      \/ name \in {"asRetriever", "retriever.constructor"} /\ type \in {"similarity", "mmr", "other"}
      \/ name = "retriever.invoke" /\ type \in {"similarity", "mmr", "threshold"}
  BY <1>1 DEF PublicMethods
<1>4. CASE name \in DOMAIN StoreOperation
  <2>0. name \notin {"constructor", "fromDocuments", "fromTexts", "retriever.addDocuments",
                    "asRetriever", "retriever.constructor", "retriever.invoke"}
    BY <1>4 DEF StoreOperation
  <2>1. Code = OfStore(name, <<>>)
    BY <1>2, <1>4, <2>0 DEF Program
  <2> QED
    BY <1>1, <1>4, <2>1, OfStoreInOrder
<1>5. CASE name = "constructor"
  <2>1. Code = Constructor(<<>>)
    BY <1>2, <1>5 DEF Program, StoreOperation
  <2>2. Checks(<<Refuse("config", NotAConfig)>>)
    BY DEF Checks, List, Refuse
  <2> QED
    BY <2>1, <2>2, ChecksOnly DEF Constructor
<1>6. CASE name \in {"fromDocuments", "fromTexts"}
  <2>1. Code = FromDocuments(<<>>) \/ Code = FromTexts
    BY <1>2, <1>6 DEF Program, StoreOperation
  <2>2. "queryVector" \notin DOMAIN call.value
    BY <1>1, <1>6
  <2> QED
    BY <2>1, <2>2, FactoriesInOrder
<1>7. CASE name = "retriever.addDocuments"
  <2>1. Code = OfStore("addDocuments", Operation("retriever.addDocuments"))
    BY <1>2, <1>7 DEF Program, RetrieverAddDocuments, StoreOperation
  <2>2. "addDocuments" \in DOMAIN StoreOperation /\ "queryVector" \notin DOMAIN call.value
    BY <1>1, <1>7 DEF StoreOperation
  <2> QED
    BY <2>1, <2>2, OfStoreInOrder
<1>8. CASE name \in {"asRetriever", "retriever.constructor"} /\ type \in {"similarity", "mmr", "other"}
  <2>1. Code = AsRetriever(type) \/ Code = RetrieverConstructor(type, <<>>)
    BY <1>2, <1>8 DEF Program, StoreOperation
  <2> QED
    BY <1>8, <2>1, RetrieversInOrder
<1>9. CASE name = "retriever.invoke" /\ type \in {"similarity", "mmr", "threshold"}
  <2>1. Code = Invoke(type)
    BY <1>2, <1>9 DEF Program, StoreOperation
  <2> QED
    BY <1>1, <1>9, <2>1, InvocationsInOrder
<1> QED
  BY <1>3, <1>4, <1>5, <1>6, <1>7, <1>8, <1>9

-----------------------------------------------------------------------------
(* A failure on its way out *)

(* An error of the package, and what it does not show.                     *)
Error(code, lead, context, hidden, cause) ==
  [code |-> code, lead |-> lead, context |-> context, hidden |-> hidden, cause |-> cause]

(* An error as the package builds it: its message begins with its          *)
(* operation or with none, and a store it carries is hidden.               *)
Shaped(e) ==
  /\ e = Error(e.code, e.lead, e.context, e.hidden, e.cause)
  /\ "operation" \in DOMAIN e.context /\ e.lead \in {"", e.context.operation}
  /\ e.hidden \in {{}, {"instance"}}
  /\ "instance" \in DOMAIN e.context => e.hidden = {"instance"}

(* What no layer changes.                                                  *)
SameNews(e, r) ==
  /\ r.code = e.code /\ r.cause = e.cause
  /\ DOMAIN r.context \ {"operation", "instance"} = DOMAIN e.context \ {"operation", "instance"}
  /\ \A key \in DOMAIN e.context \ {"operation", "instance"} : r.context[key] = e.context[key]

(* The fields of an error.                                                 *)
LEMMA ErrorParts ==
  ASSUME NEW code, NEW lead, NEW context, NEW hidden, NEW cause
  PROVE  /\ Error(code, lead, context, hidden, cause).code = code
         /\ Error(code, lead, context, hidden, cause).lead = lead
         /\ Error(code, lead, context, hidden, cause).context = context
         /\ Error(code, lead, context, hidden, cause).hidden = hidden
         /\ Error(code, lead, context, hidden, cause).cause = cause
         /\ DOMAIN Error(code, lead, context, hidden, cause) = {"code", "lead", "context", "hidden", "cause"}
BY DEF Error

(* An error of the package is passed on as it is.                          *)
LEMMA Normalized ==
  ASSUME NEW e, Shaped(e), NEW context
  PROVE  NormalizeToS3VectorsError(e, context) = e /\ IsS3VectorsError(e) /\ e # NoError
<1>1. "code" \in DOMAIN e
  <2>1. PICK code, lead, fields, hidden, cause : e = Error(code, lead, fields, hidden, cause)
    BY DEF Shaped
  <2> QED
    BY <2>1, ErrorParts
<1>2. "code" \notin DOMAIN NoError
  BY DEF NoError
<1> QED
  BY <1>1, <1>2 DEF NormalizeToS3VectorsError, WrapCallerError, Wrapped, IsS3VectorsError

(* What extending the context of an error gives.                           *)
LEMMA Extended ==
  ASSUME NEW e, Shaped(e), NEW extra
  PROVE  RebuildExtended(e, extra) = Error(e.code, e.lead, Merge(extra, e.context), e.hidden, e.cause)
<1>1. PICK code, lead, context, hidden, cause : e = Error(code, lead, context, hidden, cause)
  BY DEF Shaped
<1>2. e.code = code /\ e.lead = lead /\ e.context = context /\ e.hidden = hidden /\ e.cause = cause
  BY <1>1, ErrorParts
<1>3. [Error(code, lead, context, hidden, cause) EXCEPT !.context = Merge(extra, context)]
        = Error(code, lead, Merge(extra, context), hidden, cause)
  BY DEF Error
<1> QED
  BY <1>1, <1>2, <1>3 DEF RebuildExtended

(* A layer that renames the operation tells the same news.                 *)
LEMMA OperationAttached ==
  ASSUME NEW e, Shaped(e), NEW operation
  PROVE  LET r == AttachOperation(e, operation)
         IN /\ Shaped(r) /\ SameNews(e, r) /\ r.context.operation = operation /\ r.hidden = e.hidden
            /\ "instance" \in DOMAIN r.context <=> "instance" \in DOMAIN e.context
<1> DEFINE r == AttachOperation(e, operation)
           context == Merge([operation |-> operation], e.context)
           lead == IF e.lead = e.context.operation THEN operation ELSE e.lead
<1>1. NormalizeToS3VectorsError(e, At(operation)) = e
  BY Normalized
<1>2. CASE e.context.operation = operation
  <2>1. r = e
    BY <1>1, <1>2 DEF AttachOperation
  <2> QED
    BY <1>2, <2>1 DEF SameNews
<1>3. CASE e.context.operation # operation
  <2>1. r = Error(e.code, lead, context, e.hidden, e.cause)
    <3>1. r = [RebuildExtended(e, [operation |-> operation]) EXCEPT !.lead = lead]
      BY <1>1, <1>3 DEF AttachOperation
    <3>2. RebuildExtended(e, [operation |-> operation]) = Error(e.code, e.lead, context, e.hidden, e.cause)
      BY Extended
    <3> HIDE DEF r, lead, context
    <3> QED
      BY <3>1, <3>2 DEF Error
  <2>2. /\ DOMAIN context = {"operation"} \cup DOMAIN e.context
        /\ context.operation = operation
        /\ \A key \in DOMAIN e.context \ {"operation"} : context[key] = e.context[key]
    <3> DEFINE extra == [operation |-> operation]
    <3>1. DOMAIN extra = {"operation"} /\ extra["operation"] = operation
      OBVIOUS
    <3> HIDE DEF extra
    <3>2. context = Merge(extra, e.context)
      BY DEF extra
    <3> HIDE DEF context
    <3>3. /\ DOMAIN context = DOMAIN extra \cup DOMAIN e.context
          /\ \A key \in DOMAIN extra : context[key] = extra[key]
          /\ \A key \in DOMAIN e.context \ DOMAIN extra : context[key] = e.context[key]
      BY <3>2 DEF Merge
    <3> QED
      BY <3>1, <3>3
  <2>3. lead \in {"", operation}
    BY DEF Shaped
  <2>4. e.hidden \in {{}, {"instance"}} /\ ("instance" \in DOMAIN e.context => e.hidden = {"instance"})
    BY DEF Shaped
  <2> HIDE DEF r, lead, context
  <2>5. /\ r.code = e.code /\ r.lead = lead /\ r.context = context
        /\ r.hidden = e.hidden /\ r.cause = e.cause
    BY <2>1, ErrorParts
  <2>6. Shaped(r)
    BY <2>1, <2>2, <2>3, <2>4, <2>5 DEF Shaped
  <2>7. SameNews(e, r)
    BY <2>2, <2>5 DEF SameNews
  <2> QED
    BY <2>2, <2>5, <2>6, <2>7 DEF r
<1> QED
  BY <1>2, <1>3

(* So does the layer that adds the store, and the store is hidden.         *)
LEMMA InstanceAttached ==
  ASSUME NEW e, Shaped(e), NEW operation
  PROVE  LET r == AttachInstance(e, operation)
         IN /\ Shaped(r) /\ SameNews(e, r) /\ r.context.operation = operation
            /\ "instance" \in DOMAIN r.context
<1> DEFINE r == AttachInstance(e, operation)
           base == AttachOperation(e, operation)
           rest == [key \in DOMAIN base.context \ base.hidden |-> base.context[key]]
           context == Merge([instance |-> "store"], rest)
<1>1. /\ Shaped(base) /\ SameNews(e, base) /\ base.context.operation = operation
  BY OperationAttached
<1> HIDE DEF base
<1>2. r = Error(base.code, base.lead, context, {"instance"}, base.cause)
  <2>1. r = [RebuildSpread(base, [instance |-> "store"]) EXCEPT !.hidden = {"instance"}]
    BY DEF AttachInstance, base
  <2>2. RebuildSpread(base, [instance |-> "store"]) = Error(base.code, base.lead, context, {}, base.cause)
    <3> HIDE DEF rest, context
    <3>1. RebuildSpread(base, [instance |-> "store"])
            = [base EXCEPT !.context = context, !.hidden = {}]
      BY DEF RebuildSpread, rest, context
    <3>2. base = Error(base.code, base.lead, base.context, base.hidden, base.cause)
      BY <1>1 DEF Shaped
    <3> QED
      BY <3>1, <3>2 DEF Error
  <2> HIDE DEF r, rest, context
  <2> QED
    BY <2>1, <2>2 DEF Error
<1>3. /\ DOMAIN context = {"instance"} \cup (DOMAIN base.context \ base.hidden)
      /\ \A key \in DOMAIN base.context \ {"instance"} : key \in DOMAIN context => context[key] = base.context[key]
  <2> DEFINE extra == [instance |-> "store"]
  <2>1. DOMAIN extra = {"instance"} /\ DOMAIN rest = DOMAIN base.context \ base.hidden
        /\ \A key \in DOMAIN rest : rest[key] = base.context[key]
    OBVIOUS
  <2> HIDE DEF extra, rest
  <2>2. context = Merge(extra, rest)
    BY DEF extra
  <2> HIDE DEF context
  <2>3. /\ DOMAIN context = DOMAIN extra \cup DOMAIN rest
        /\ \A key \in DOMAIN extra : context[key] = extra[key]
        /\ \A key \in DOMAIN rest \ DOMAIN extra : context[key] = rest[key]
    BY <2>2 DEF Merge
  <2> QED
    BY <2>1, <2>3
<1>4. base.hidden \in {{}, {"instance"}} /\ "operation" \in DOMAIN base.context
      /\ base.lead \in {"", base.context.operation}
  BY <1>1 DEF Shaped
<1> HIDE DEF r, rest, context
<1>5. r.code = base.code /\ r.lead = base.lead /\ r.context = context /\ r.hidden = {"instance"} /\ r.cause = base.cause
  BY <1>2, ErrorParts
<1>6. "operation" \in DOMAIN context /\ context.operation = operation /\ "instance" \in DOMAIN context
  BY <1>1, <1>3, <1>4
<1>7. Shaped(r)
  BY <1>1, <1>2, <1>4, <1>5, <1>6 DEF Shaped
<1>8. SameNews(e, r)
  BY <1>1, <1>3, <1>4, <1>5 DEF SameNews
<1> QED
  BY <1>5, <1>6, <1>7, <1>8 DEF r

(* So does every layer.                                                    *)
LEMMA LayerPassed ==
  ASSUME NEW e, Shaped(e), NEW layer
  PROVE  LET r == Passed(e, layer)
         IN /\ Shaped(r) /\ SameNews(e, r) /\ r.context.operation = layer.name
            /\ "instance" \in DOMAIN r.context <=>
                 "instance" \in DOMAIN e.context \/ layer.kind = "instance"
BY OperationAttached, InstanceAttached DEF Passed

-----------------------------------------------------------------------------
(* A failure where it begins *)

(* An error no layer has added to yet.                                     *)
Fresh(e) == Shaped(e) /\ e.hidden = {} /\ "instance" \notin DOMAIN e.context

(* An error as it is raised is well formed and carries no store.           *)
LEMMA FreshError ==
  ASSUME NEW code, NEW context, NEW cause, "operation" \in DOMAIN context,
         "instance" \notin DOMAIN context, NEW lead \in {"", context["operation"]},
         NEW e, e = Error(code, lead, context, {}, cause)
  PROVE  Fresh(e) /\ e.code = code /\ e.context = context /\ e.cause = cause
<1>1. e.code = code /\ e.lead = lead /\ e.context = context /\ e.hidden = {} /\ e.cause = cause
  BY DEF Error
<1>2. Fresh(e)
  BY <1>1 DEF Fresh, Shaped
<1> QED
  BY <1>1, <1>2

(* What is kept of a cause that looks like the SDK's.                      *)
Diagnosis == {"awsErrorName", "httpStatusCode", "retryable"}

(* Nothing else is kept of it, and whether it is retryable is kept of      *)
(* every such cause.                                                       *)
LEMMA Diagnosed ==
  ASSUME NEW raw, NEW ofAws \in BOOLEAN
  PROVE  /\ DOMAIN AwsDiagnostics(raw, ofAws) \in {{}, Diagnosis}
         /\ DOMAIN AwsDiagnostics(raw, ofAws) # {} =>
              /\ raw.names # <<>> /\ AwsShaped(raw, ofAws /\ IsTransientNetworkFailure(raw), ofAws)
              /\ AwsDiagnostics(raw, ofAws)["retryable"]
                   = IsRetryable(raw, ofAws /\ IsTransientNetworkFailure(raw))
         /\ DOMAIN AwsDiagnostics(raw, ofAws) = {} =>
              raw.names = <<>> \/ ~AwsShaped(raw, ofAws /\ IsTransientNetworkFailure(raw), ofAws)
<1> DEFINE transient == ofAws /\ IsTransientNetworkFailure(raw)
           nothing == raw.names = <<>> \/ ~AwsShaped(raw, transient, ofAws)
           d == [awsErrorName |-> NameOf(raw), httpStatusCode |-> raw.status,
                 retryable |-> IsRetryable(raw, transient)]
<1>1. AwsDiagnostics(raw, ofAws) = IF nothing THEN <<>> ELSE d
  BY DEF AwsDiagnostics
<1>2. DOMAIN d = Diagnosis /\ d["retryable"] = IsRetryable(raw, transient)
  BY DEF Diagnosis
<1>3. DOMAIN <<>> = {} /\ Diagnosis # {}
  BY DEF Diagnosis
<1> HIDE DEF d
<1> QED
  BY <1>1, <1>2, <1>3

(* What wrapping a value that is no error of the package gives.            *)
LEMMA Wraps ==
  ASSUME NEW raw, "code" \notin DOMAIN raw, NEW code, NEW operation,
         NEW command, DOMAIN command \subseteq {"awsCommand"}
  PROVE  LET r == Wrapped(raw, code, At(operation), command)
             d == AwsDiagnostics(raw, DOMAIN command # {})
         IN /\ Fresh(r) /\ r.code = code /\ r.cause = raw /\ r.context.operation = operation
            /\ DOMAIN r.context = {"operation"} \cup DOMAIN command \cup DOMAIN d
            /\ \A key \in DOMAIN command : r.context[key] = command[key]
            /\ \A key \in DOMAIN d : r.context[key] = d[key]
<1> DEFINE r == Wrapped(raw, code, At(operation), command)
           d == AwsDiagnostics(raw, DOMAIN command # {})
           start == At(operation)
           context == Merge(Merge(start, command), d)
<1>1. r = Error(code, operation, context, {}, raw)
  BY DEF Wrapped, IsS3VectorsError, At, S3VectorsError, Error
<1>2. DOMAIN start = {"operation"} /\ start["operation"] = operation
  BY DEF At
<1>3. DOMAIN d \in {{}, Diagnosis}
  BY Diagnosed
<1> HIDE DEF d, start
<1>4. /\ DOMAIN context = {"operation"} \cup DOMAIN command \cup DOMAIN d
      /\ context["operation"] = operation
      /\ \A key \in DOMAIN command : context[key] = command[key]
      /\ \A key \in DOMAIN d : context[key] = d[key]
  BY <1>2, <1>3 DEF Merge, Diagnosis
<1> HIDE DEF r, context
<1>5. "instance" \notin DOMAIN context
  BY <1>3, <1>4 DEF Diagnosis
<1>6. Fresh(r) /\ r.code = code /\ r.context = context /\ r.cause = raw
  <2>1. "operation" \in DOMAIN context /\ operation \in {"", context["operation"]}
    BY <1>4
  <2>2. /\ r.code = code /\ r.lead = operation /\ r.context = context /\ r.hidden = {}
        /\ r.cause = raw
    BY <1>1, ErrorParts
  <2>3. r = Error(r.code, r.lead, r.context, r.hidden, r.cause)
    BY <1>1, <2>2
  <2> QED
    BY <1>5, <2>1, <2>2, <2>3 DEF Fresh, Shaped
<1> QED
  BY <1>4, <1>6 DEF r, d

(* A transient class is one that a retry may help, and is said to be.      *)
LEMMA TransientClassesSaySo ==
  ASSUME NEW raw, NEW diagnosis, diagnosis = AwsDiagnostics(raw, TRUE),
         ClassifyAwsError(raw) \in {"THROTTLED", "SERVICE_UNAVAILABLE"}
  PROVE  "retryable" \in DOMAIN diagnosis /\ diagnosis["retryable"]
<1> DEFINE transient == IsTransientNetworkFailure(raw)
<1>1. raw.names # <<>>
  BY DEF ClassifyAwsError
<1>2. NameOf(raw) \in RETRYABLE_AWS_ERROR_NAMES \/ transient
  <2>1. CASE NameOf(raw) = "TimeoutError"
    BY <2>1 DEF RETRYABLE_AWS_ERROR_NAMES
  <2>2. CASE NameOf(raw) # "TimeoutError" /\ Declared(NameOf(raw))
    <3>1. ClassifyAwsError(raw) = BY_NAME[NameOf(raw)]
      BY <1>1, <2>2 DEF ClassifyAwsError
    <3> QED
      BY <2>2, <3>1 DEF BY_NAME, Declared, RETRYABLE_AWS_ERROR_NAMES
  <2>3. CASE NameOf(raw) # "TimeoutError" /\ ~Declared(NameOf(raw))
    BY <1>1, <2>3 DEF ClassifyAwsError
  <2> QED
    BY <2>1, <2>2, <2>3
<1>3. AwsShaped(raw, transient, TRUE)
  BY <1>2 DEF AwsShaped, IsException, Declared, BY_NAME, RETRYABLE_AWS_ERROR_NAMES
<1>4. IsRetryable(raw, transient)
  BY <1>2 DEF IsRetryable
<1> HIDE DEF transient
<1> DEFINE d == AwsDiagnostics(raw, TRUE)
<1>5. /\ DOMAIN d = {} => raw.names = <<>> \/ ~AwsShaped(raw, TRUE /\ transient, TRUE)
      /\ DOMAIN d # {} => d["retryable"] = IsRetryable(raw, TRUE /\ transient)
      /\ DOMAIN d \in {{}, Diagnosis}
  BY Diagnosed DEF transient
<1>6. (TRUE /\ transient) = transient
  BY DEF transient, IsTransientNetworkFailure
<1> HIDE DEF d
<1>7. "retryable" \in DOMAIN d /\ d["retryable"]
  BY <1>1, <1>3, <1>4, <1>5, <1>6 DEF Diagnosis
<1> QED
  BY <1>7 DEF d

-----------------------------------------------------------------------------
(* The layers of a stage                                                   *)

(* A layer among these adds the store.                                     *)
Instances(layers) == \E i \in DOMAIN layers : layers[i].kind = "instance"

(* They end with the method that was called.                               *)
Way(layers) == List(layers) /\ layers # <<>> /\ layers[Len(layers)].name = call.name

(* What the store a factory had built is to be told of.                    *)
OfFactory(operation) ==
  call.name \in {"fromTexts", "fromDocuments"} /\ operation = "addDocuments"

(* A stage with the layers its failure passes through: the last of them is *)
(* the method called, and the store is added where a factory adds          *)
(* documents.                                                              *)
Placed(entry) ==
  /\ entry.layers = <<>> =>
       /\ entry.operation = call.name /\ entry.stage.kind = "check"
       /\ "throwing" \notin entry.stage.refuses
  /\ entry.layers # <<>> => Way(entry.layers)
  /\ Instances(entry.layers) <=> OfFactory(entry.operation)

(* Every stage of a program is placed.                                     *)
AllPlaced(code) == List(code) /\ \A i \in DOMAIN code : Placed(code[i])

(* Two placed programs are one.                                            *)
LEMMA PlacedJoined ==
  ASSUME NEW a, NEW b, AllPlaced(a), AllPlaced(b)
  PROVE  AllPlaced(a \o b)
<1> DEFINE u == a \o b
<1>0. List(a) /\ List(b)
  BY DEF AllPlaced
<1>1. List(u) /\ \A i \in DOMAIN u : (\E k \in DOMAIN a : u[i] = a[k]) \/ (\E k \in DOMAIN b : u[i] = b[k])
  BY <1>0, Members
<1> HIDE DEF u
<1>2. AllPlaced(u)
  BY <1>1 DEF AllPlaced
<1> QED
  BY <1>2 DEF u

(* Layers that end with the method called, whatever comes before.          *)
LEMMA WayOut ==
  ASSUME NEW sort, NEW name, NEW outer,
         (outer = <<>> /\ name = call.name) \/ Way(outer)
  PROVE  LET layers == <<[kind |-> sort, name |-> name]>> \o outer
         IN /\ Way(layers)
            /\ Instances(layers) <=> sort = "instance" \/ Instances(outer)
<1> DEFINE one == <<[kind |-> sort, name |-> name]>>
           layers == one \o outer
<1>1. List(one) /\ Len(one) = 1 /\ one[1].kind = sort /\ one[1].name = name
  BY DEF List
<1>2. CASE outer = <<>> /\ name = call.name
  <2>1. layers = one
    BY <1>2
  <2>2. ~Instances(outer) /\ (Instances(one) <=> sort = "instance")
    BY <1>2 DEF Instances
  <2> HIDE DEF one, layers
  <2>3. one # <<>>
    BY <1>1
  <2>4. Way(layers) /\ (Instances(layers) <=> sort = "instance" \/ Instances(outer))
    BY <1>1, <1>2, <2>1, <2>2, <2>3 DEF Way
  <2> QED
    BY <2>4 DEF layers, one
<1>3. CASE Way(outer)
  <2> HIDE DEF one
  <2>1. List(outer) /\ outer # <<>> /\ outer[Len(outer)].name = call.name
    BY <1>3 DEF Way
  <2>0. /\ List(layers) /\ Len(outer) \in Nat /\ DOMAIN outer = 1..Len(outer)
        /\ DOMAIN layers = 1..(Len(one) + Len(outer))
        /\ \A i \in 1..Len(one) : layers[i] = one[i]
        /\ \A i \in 1..Len(outer) : layers[Len(one) + i] = outer[i]
        /\ \A i \in 1..(Len(one) + Len(outer)) : i > Len(one) => layers[i] = outer[i - Len(one)]
    <3>1. List(one) /\ List(outer)
      BY <1>1, <2>1
    <3> QED
      BY <3>1, Joined
  <2>2. /\ List(layers) /\ Len(outer) \in Nat /\ DOMAIN outer = 1..Len(outer)
        /\ DOMAIN layers = 1..(1 + Len(outer)) /\ layers[1] = one[1]
        /\ \A i \in 1..Len(outer) : layers[1 + i] = outer[i]
        /\ \A i \in 1..(1 + Len(outer)) : i > 1 => layers[i] = outer[i - 1]
    <3> HIDE DEF layers
    <3> QED
      BY <1>1, <2>0
  <2>3. Len(outer) # 0
    BY <2>1 DEF List
  <2> HIDE DEF layers
  <2>4. Len(layers) = 1 + Len(outer)
    BY <2>2, Joined
  <2>5. layers # <<>> /\ layers[Len(layers)] = outer[Len(outer)]
    BY <2>2, <2>3, <2>4
  <2>6. Way(layers)
    BY <2>1, <2>2, <2>5 DEF Way
  <2>7. ASSUME Instances(layers) PROVE sort = "instance" \/ Instances(outer)
    <3>1. PICK i \in 1..(1 + Len(outer)) : layers[i].kind = "instance"
      BY <2>2, <2>7 DEF Instances
    <3>2. CASE i = 1
      BY <1>1, <2>2, <3>1, <3>2
    <3>3. CASE i > 1
      <4>1. i - 1 \in DOMAIN outer /\ layers[i] = outer[i - 1]
        BY <2>2, <3>3
      <4> QED
        BY <3>1, <4>1 DEF Instances
    <3> QED
      BY <2>2, <3>2, <3>3
  <2>8. ASSUME sort = "instance" \/ Instances(outer) PROVE Instances(layers)
    <3>1. CASE sort = "instance"
      BY <1>1, <2>2, <3>1 DEF Instances
    <3>2. CASE Instances(outer)
      <4>1. PICK i \in 1..Len(outer) : outer[i].kind = "instance"
        BY <2>2, <3>2 DEF Instances
      <4>2. 1 + i \in DOMAIN layers /\ layers[1 + i] = outer[i]
        BY <2>2
      <4> QED
        BY <4>1, <4>2 DEF Instances
    <3> QED
      BY <2>8, <3>1, <3>2
  <2> QED
    BY <2>6, <2>7, <2>8 DEF layers, one
<1> QED
  BY <1>2, <1>3

(* Stages under one name and inside such layers are placed.                *)
LEMMA SegmentPlaced ==
  ASSUME NEW s, NEW operation, NEW layers, List(s), Way(layers),
         Instances(layers) <=> OfFactory(operation)
  PROVE  AllPlaced(In(s, operation, layers))
<1> DEFINE code == In(s, operation, layers)
<1>1. /\ List(code)
      /\ \A i \in DOMAIN code : code[i].operation = operation /\ code[i].layers = layers
  BY StagesIn
<1>2. layers # <<>>
  BY DEF Way
<1> HIDE DEF code
<1>3. AllPlaced(code)
  BY <1>1, <1>2 DEF AllPlaced, Placed
<1> QED
  BY <1>3 DEF code

(* A stage in the layer of an operation.                                   *)
LEMMA OperationPlaced ==
  ASSUME NEW s, NEW operation, NEW name, NEW outer, List(s),
         (outer = <<>> /\ name = call.name) \/ Way(outer),
         Instances(outer) <=> OfFactory(operation)
  PROVE  AllPlaced(In(s, operation, Operation(name) \o outer))
<1> DEFINE layers == Operation(name) \o outer
<1>1. layers = <<[kind |-> "operation", name |-> name]>> \o outer
  BY DEF Operation
<1>2. Way(layers) /\ (Instances(layers) <=> Instances(outer))
  BY <1>1, WayOut
<1> HIDE DEF layers
<1>3. AllPlaced(In(s, operation, layers))
  BY <1>2, SegmentPlaced
<1> QED
  BY <1>3 DEF layers

(* A method of the store is placed when it is the method called.           *)
LEMMA StorePlaced ==
  ASSUME NEW name, NEW outer, List(StoreOperation[name]),
         (outer = <<>> /\ name = call.name) \/ Way(outer),
         Instances(outer) <=> OfFactory(name)
  PROVE  AllPlaced(OfStore(name, outer))
<1>1. OfStore(name, outer) = In(StoreOperation[name], name, Operation(name) \o outer)
  BY DEF OfStore
<1> QED
  BY <1>1, OperationPlaced

(* No layers add no store.                                                 *)
LEMMA NoInstance == ~Instances(<<>>)
BY DEF Instances

(* One layer that names the method called.                                 *)
LEMMA OneLayer ==
  ASSUME NEW name, name = call.name
  PROVE  Way(Operation(name)) /\ ~Instances(Operation(name))
<1> DEFINE layer == [kind |-> "operation", name |-> name]
<1>1. Operation(name) = <<layer>> /\ layer.kind = "operation" /\ layer.name = name
  BY DEF Operation
<1> HIDE DEF layer
<1>2. Way(<<layer>>) /\ ~Instances(<<layer>>)
  BY <1>1 DEF Way, List, Instances
<1> QED
  BY <1>1, <1>2

(* fromDocuments is placed, also under fromTexts.                          *)
LEMMA DocumentsPlaced ==
  ASSUME NEW outer,
         \/ outer = <<>> /\ call.name = "fromDocuments"
         \/ Way(outer) /\ ~Instances(outer) /\ call.name = "fromTexts",
         "queryVector" \notin DOMAIN call.value
  PROVE  AllPlaced(FromDocuments(outer))
<1> DEFINE inner == Operation("fromDocuments") \o outer
           built == Instance \o outer
           s == <<Refuse("config", NotAConfig)>>
<1>1. Way(inner) /\ ~Instances(inner)
  <2>1. inner = <<[kind |-> "operation", name |-> "fromDocuments"]>> \o outer
    BY DEF Operation
  <2> HIDE DEF inner
  <2> QED
    BY <2>1, WayOut, NoInstance
<1>2. Way(built) /\ Instances(built)
  <2>1. built = <<[kind |-> "instance", name |-> "fromDocuments"]>> \o outer
    BY DEF Instance
  <2> HIDE DEF built
  <2> QED
    BY <2>1, WayOut
<1>3. FromDocuments(outer)
        = In(s, "constructor", Operation("constructor") \o inner) \o OfStore("addDocuments", built)
  BY DEF FromDocuments, Constructor
<1>4. List(s)
  BY DEF List, Refuse
<1> HIDE DEF inner, built, s
<1>5. AllPlaced(In(s, "constructor", Operation("constructor") \o inner))
  <2>1. ~OfFactory("constructor")
    BY DEF OfFactory
  <2> QED
    BY <1>1, <1>4, <2>1, OperationPlaced
<1>6. AllPlaced(OfStore("addDocuments", built))
  <2>1. OfFactory("addDocuments")
    BY DEF OfFactory
  <2>2. Ordered(StoreOperation["addDocuments"])
    BY StoreOrdered DEF StoreOperation
  <2>3. List(StoreOperation["addDocuments"])
    BY <2>2 DEF Ordered
  <2> QED
    BY <1>2, <2>1, <2>3, StorePlaced
<1> QED
  BY <1>3, <1>5, <1>6, PlacedJoined

(* fromTexts is placed.                                                    *)
LEMMA TextsPlaced ==
  ASSUME call.name = "fromTexts", "queryVector" \notin DOMAIN call.value
  PROVE  AllPlaced(FromTexts)
<1> DEFINE s == <<Refuse("texts", NotAnArray), Refuse("texts", {"mixed"}),
                  Refuse("metadatas", {"short", "badEntry", "text"})>>
           first == In(s, "fromTexts", <<>>)
           outer == Operation("fromTexts")
<1>1. FromTexts = first \o FromDocuments(outer)
  BY DEF FromTexts
<1>2. Way(outer) /\ ~Instances(outer)
  BY OneLayer
<1>3. List(s) /\ \A i \in DOMAIN s : s[i].kind = "check" /\ "throwing" \notin s[i].refuses
  BY DEF List, Refuse, NotAnArray
<1> HIDE DEF s, outer
<1>4. /\ List(first) /\ DOMAIN first = DOMAIN s
      /\ \A i \in DOMAIN first : first[i].stage = s[i] /\ first[i].operation = "fromTexts" /\ first[i].layers = <<>>
  BY <1>3, StagesIn
<1> HIDE DEF first
<1>5. ASSUME NEW i \in DOMAIN first PROVE Placed(first[i])
  <2>1. ~OfFactory("fromTexts")
    BY DEF OfFactory
  <2> QED
    BY <1>3, <1>4, <2>1, NoInstance DEF Placed
<1>6. AllPlaced(first)
  BY <1>4, <1>5 DEF AllPlaced
<1>7. AllPlaced(FromDocuments(outer))
  BY <1>2, DocumentsPlaced
<1> QED
  BY <1>1, <1>6, <1>7, PlacedJoined

(* The constructor is placed.                                              *)
LEMMA ConstructorPlaced ==
  ASSUME NEW type \in {"similarity", "mmr", "other"}, NEW outer,
         (outer = <<>> /\ call.name = "retriever.constructor") \/ Way(outer), ~Instances(outer)
  PROVE  AllPlaced(RetrieverConstructor(type, outer))
<1> DEFINE s == <<Refuse("built", NotABag \cup {"null"}), Refuse("vectorStore", {"absent"})>>
           layers == Operation("retriever.constructor") \o outer
<1>1. RetrieverConstructor(type, outer)
        = In(s, "retriever.constructor", layers)
            \o In(AssertSearchFields(type), "retriever.constructor", layers)
  BY DEF RetrieverConstructor
<1>2. List(s)
  <2>1. Checks(s)
    BY BuiltChecked
  <2> QED
    BY <2>1 DEF Checks
<1>3. List(AssertSearchFields(type))
  BY FieldsAreChecks DEF Checks
<1>4. ~OfFactory("retriever.constructor")
  BY DEF OfFactory
<1> HIDE DEF s
<1>5. AllPlaced(In(s, "retriever.constructor", layers))
  BY <1>2, <1>4, OperationPlaced
<1>6. AllPlaced(In(AssertSearchFields(type), "retriever.constructor", layers))
  BY <1>3, <1>4, OperationPlaced
<1> QED
  BY <1>1, <1>5, <1>6, PlacedJoined

(* The construction of a retriever is placed, also by asRetriever.         *)
LEMMA RetrieverPlaced ==
  ASSUME NEW type \in {"similarity", "mmr", "other"}, call.name = "asRetriever"
  PROVE  AllPlaced(AsRetriever(type))
<1> DEFINE layers == Operation("asRetriever")
           one == <<Refuse("fields", NotABag)>>
           two == <<Refuse("tags", NotTags)>>
<1>1. AsRetriever(type)
        = In(one, "asRetriever", layers)
            \o (In(two, "asRetriever", layers) \o RetrieverConstructor(type, layers))
  BY DEF AsRetriever, BuildRetriever
<1>2. Way(layers) /\ ~Instances(layers)
  BY OneLayer
<1>3. List(one) /\ List(two)
  <2>1. List(one)
    BY DEF List, Refuse
  <2> QED
    BY <2>1 DEF List, Refuse
<1>4. ~OfFactory("asRetriever")
  BY DEF OfFactory
<1> HIDE DEF one, two, layers
<1>5. AllPlaced(In(one, "asRetriever", layers)) /\ AllPlaced(In(two, "asRetriever", layers))
  BY <1>2, <1>3, <1>4, SegmentPlaced
<1>6. AllPlaced(RetrieverConstructor(type, layers))
  BY <1>2, ConstructorPlaced
<1> QED
  BY <1>1, <1>5, <1>6, PlacedJoined

(* retriever.invoke is placed.                                             *)
LEMMA InvocationPlaced ==
  ASSUME NEW type \in {"similarity", "mmr", "threshold"}, call.name = "retriever.invoke",
         DOMAIN call.value \subseteq {"input", "timeout", "runSignal", "signal", "model"}
  PROVE  AllPlaced(Invoke(type))
<1> DEFINE s == <<Refuse("input", NotText), Refuse("timeout", NotATimeout),
                  Refuse("runSignal", NotASignal)>> \o <<Do("race")>>
           name == GetRelevantDocuments(type)
           layers == Operation("retriever.invoke")
<1>1. Invoke(type) = In(s, "retriever.invoke", layers) \o OfStore(name, layers)
  BY DEF Invoke
<1>2. Way(layers) /\ ~Instances(layers)
  BY OneLayer
<1>3. List(s)
  <2> DEFINE a == <<Refuse("input", NotText), Refuse("timeout", NotATimeout),
                    Refuse("runSignal", NotASignal)>>
             b == <<Do("race")>>
  <2>1. List(a) /\ List(b)
    <3>1. List(b)
      BY DEF List, Do
    <3> QED
      BY <3>1 DEF List, Refuse
  <2> QED
    BY <2>1, Joined
<1>4. name \in {"similaritySearch", "maxMarginalRelevanceSearch", "similaritySearchWithRelevanceScores"}
  BY DEF GetRelevantDocuments
<1>5. ~OfFactory("retriever.invoke") /\ ~OfFactory(name)
  BY DEF OfFactory
<1> HIDE DEF s, name, layers
<1>6. AllPlaced(In(s, "retriever.invoke", layers))
  BY <1>2, <1>3, <1>5, SegmentPlaced
<1>7. AllPlaced(OfStore(name, layers))
  <2>1. name \in DOMAIN StoreOperation
    BY <1>4 DEF StoreOperation
  <2>2. "queryVector" \notin DOMAIN call.value /\ "batchSize" \notin DOMAIN call.value
        /\ "items" \notin DOMAIN call.value
    OBVIOUS
  <2>3. Ordered(StoreOperation[name])
    BY <2>1, <2>2, StoreOrdered
  <2>4. List(StoreOperation[name])
    BY <2>3 DEF Ordered
  <2> QED
    BY <1>2, <1>5, <2>4, StorePlaced
<1> QED
  BY <1>1, <1>6, <1>7, PlacedJoined

(* The program of every public method is placed.                           *)
LEMMA CodePlaced ==
  ASSUME CallsAssumption, call \in Calls
  PROVE  AllPlaced(Code)
<1> DEFINE name == call.name
           type == call.type
<1>1. /\ <<name, type>> \in PublicMethods
      /\ "queryVector" \in DOMAIN call.value => name = "similaritySearchVectorWithScore"
      /\ name = "maxMarginalRelevanceSearch" => {"batchSize", "items"} \cap DOMAIN call.value = {}
      /\ name = "retriever.invoke" =>
           DOMAIN call.value \subseteq {"input", "timeout", "runSignal", "signal", "model"}
  BY DEF CallsAssumption
<1>2. Code = Program(name, type)
  BY CodeIs
<1>3. \/ name \in DOMAIN StoreOperation
      \/ name \in {"constructor", "fromDocuments", "fromTexts", "retriever.addDocuments"}
      \/ name \in {"asRetriever", "retriever.constructor"} /\ type \in {"similarity", "mmr", "other"}
      \/ name = "retriever.invoke" /\ type \in {"similarity", "mmr", "threshold"}
  <2> HIDE DEF name, type
  <2> QED
    BY <1>1 DEF PublicMethods
<1>4. CASE name \in DOMAIN StoreOperation
  <2>1. name \notin {"constructor", "fromDocuments", "fromTexts", "retriever.addDocuments",
                    "asRetriever", "retriever.constructor", "retriever.invoke"}
    BY <1>4 DEF StoreOperation
  <2>2. Code = OfStore(name, <<>>)
    BY <1>2, <1>4, <2>1 DEF Program
  <2>3. Ordered(StoreOperation[name])
    BY <1>1, <1>4, StoreOrdered
  <2>4. List(StoreOperation[name])
    BY <2>3 DEF Ordered
  <2>5. ~OfFactory(name)
    BY <2>1 DEF OfFactory
  <2> QED
    BY <2>2, <2>4, <2>5, StorePlaced, NoInstance
<1>5. CASE name = "constructor"
  <2> DEFINE s == <<Refuse("config", NotAConfig)>>
  <2>1. Code = In(s, "constructor", Operation("constructor") \o <<>>)
    BY <1>2, <1>5 DEF Program, StoreOperation, Constructor
  <2>2. List(s)
    BY DEF List, Refuse
  <2>3. ~OfFactory("constructor")
    BY DEF OfFactory
  <2> HIDE DEF s
  <2> QED
    BY <1>5, <2>1, <2>2, <2>3, OperationPlaced, NoInstance
<1>6. CASE name = "fromDocuments"
  <2>1. Code = FromDocuments(<<>>)
    BY <1>2, <1>6 DEF Program, StoreOperation
  <2> QED
    BY <1>1, <1>6, <2>1, DocumentsPlaced
<1>7. CASE name = "fromTexts"
  <2>1. Code = FromTexts
    BY <1>2, <1>7 DEF Program, StoreOperation
  <2> QED
    BY <1>1, <1>7, <2>1, TextsPlaced
<1>8. CASE name = "retriever.addDocuments"
  <2> DEFINE outer == Operation("retriever.addDocuments")
  <2>1. Code = OfStore("addDocuments", outer)
    BY <1>2, <1>8 DEF Program, RetrieverAddDocuments, StoreOperation
  <2>2. Ordered(StoreOperation["addDocuments"])
    BY <1>1, <1>8, StoreOrdered DEF StoreOperation
  <2>3. List(StoreOperation["addDocuments"])
    BY <2>2 DEF Ordered
  <2>4. ~OfFactory("addDocuments")
    BY <1>8 DEF OfFactory
  <2>5. Way(outer) /\ ~Instances(outer)
    BY <1>8, OneLayer
  <2> HIDE DEF outer
  <2> QED
    BY <2>1, <2>3, <2>4, <2>5, StorePlaced
<1>9. CASE name = "asRetriever" /\ type \in {"similarity", "mmr", "other"}
  <2>1. Code = AsRetriever(type)
    BY <1>2, <1>9 DEF Program, StoreOperation
  <2> QED
    BY <1>9, <2>1, RetrieverPlaced
<1>10. CASE name = "retriever.constructor" /\ type \in {"similarity", "mmr", "other"}
  <2>1. Code = RetrieverConstructor(type, <<>>)
    BY <1>2, <1>10 DEF Program, StoreOperation
  <2> QED
    BY <1>10, <2>1, ConstructorPlaced, NoInstance
<1>11. CASE name = "retriever.invoke" /\ type \in {"similarity", "mmr", "threshold"}
  <2>1. Code = Invoke(type)
    BY <1>2, <1>11 DEF Program, StoreOperation
  <2> QED
    BY <1>1, <1>11, <2>1, InvocationPlaced
<1> QED
  BY <1>3, <1>4, <1>5, <1>6, <1>7, <1>8, <1>9, <1>10, <1>11

-----------------------------------------------------------------------------
(* What a failure tells, where it begins and wherever it passes            *)

(* The classes of a failure that may pass.                                 *)
Transient == {"THROTTLED", "SERVICE_UNAVAILABLE"}

(* The keys that tell how far a call came.                                 *)
Progress == {"batchSize", "writtenIds", "deletedIds", "foundIds", "pagesScanned", "yielded",
             "resultsCollected"}

(* The cause is told, no request is, and a verdict on retrying is given    *)
(* where the service has answered.                                         *)
Judged(e, source) ==
  /\ e.cause = source.raw /\ "awsCommand" \notin DOMAIN e.context
  /\ "retryable" \in DOMAIN e.context <=> source.raw.metadata \/ source.raw.marked

(* A transient class says that it is.                                      *)
SaidTransient(e) ==
  e.code \in Transient => "retryable" \in DOMAIN e.context /\ e.context["retryable"]

(* An error tells what failed first.                                       *)
TellsFailure(e, source) ==
  /\ source.from \in {"aws", "model", "caller", "foreign", "package"}
  /\ source.from = "aws" =>
       /\ e.code = ClassifyAwsError(source.raw) /\ e.cause = source.raw
       /\ "awsCommand" \in DOMAIN e.context /\ e.context["awsCommand"] = source.command
  /\ source.from = "model" => e.code = "EMBEDDINGS_FAILED" /\ Judged(e, source)
  /\ source.from = "caller" => e.code = "UNEXPECTED_ERROR" /\ Judged(e, source)
  /\ source.from = "foreign" => e.code = source.raw.code /\ e.cause = source.raw.cause
  /\ source.from = "package" => e.code = source.code
  /\ SaidTransient(e)

(* It carries the ids confirmed before.                                    *)
TellsIds(e, ids) ==
  \A key \in DOMAIN ids : key \in Progress /\ key \in DOMAIN e.context /\ e.context[key] = ids[key]

(* Both.                                                                   *)
Tells(e, source) ==
  TellsFailure(e, source) /\ ("partial" \in DOMAIN source => TellsIds(e, source.partial))

(* What counting the progress does not change.                             *)
Grown(e, r) ==
  /\ r.code = e.code /\ r.cause = e.cause
  /\ DOMAIN r.context \ Progress = DOMAIN e.context \ Progress
  /\ \A key \in DOMAIN e.context \ Progress : r.context[key] = e.context[key]

(* A layer that changes no news tells what failed first.                   *)
LEMMA ToldOn ==
  ASSUME NEW e, NEW r, NEW source, Tells(e, source), SameNews(e, r)
  PROVE  Tells(r, source)
<1>1. r.code = e.code /\ r.cause = e.cause
  BY DEF SameNews
<1>2. /\ "awsCommand" \in DOMAIN r.context <=> "awsCommand" \in DOMAIN e.context
      /\ "awsCommand" \in DOMAIN e.context => r.context["awsCommand"] = e.context["awsCommand"]
      /\ "retryable" \in DOMAIN r.context <=> "retryable" \in DOMAIN e.context
      /\ "retryable" \in DOMAIN e.context => r.context["retryable"] = e.context["retryable"]
  BY DEF SameNews
<1>3. TellsFailure(r, source)
  BY <1>1, <1>2 DEF Tells, TellsFailure, Judged, SaidTransient
<1>4. ASSUME NEW ids, TellsIds(e, ids) PROVE TellsIds(r, ids)
  <2>1. ASSUME NEW key \in DOMAIN ids
        PROVE  key \in Progress /\ key \in DOMAIN r.context /\ r.context[key] = ids[key]
    <3>1. key \in Progress /\ key \in DOMAIN e.context /\ e.context[key] = ids[key]
      BY <1>4 DEF TellsIds
    <3>2. key \notin {"operation", "instance"}
      BY <3>1 DEF Progress
    <3> QED
      BY <3>1, <3>2 DEF SameNews
  <2> QED
    BY <2>1 DEF TellsIds
<1> QED
  BY <1>3, <1>4 DEF Tells

(* So does what adds the ids.                                              *)
LEMMA ToldGrown ==
  ASSUME NEW e, NEW r, NEW source, TellsFailure(e, source), Grown(e, r)
  PROVE  TellsFailure(r, source)
<1>1. r.code = e.code /\ r.cause = e.cause
  BY DEF Grown
<1>2. "awsCommand" \notin Progress /\ "retryable" \notin Progress
  BY DEF Progress
<1>3. /\ "awsCommand" \in DOMAIN r.context <=> "awsCommand" \in DOMAIN e.context
      /\ "awsCommand" \in DOMAIN e.context => r.context["awsCommand"] = e.context["awsCommand"]
      /\ "retryable" \in DOMAIN r.context <=> "retryable" \in DOMAIN e.context
      /\ "retryable" \in DOMAIN e.context => r.context["retryable"] = e.context["retryable"]
  BY <1>2 DEF Grown
<1> QED
  BY <1>1, <1>3 DEF TellsFailure, Judged, SaidTransient

(* Adding progress to an error that has none keeps the rest of it.         *)
LEMMA Counted ==
  ASSUME NEW e, Fresh(e), NEW extra, DOMAIN extra \subseteq Progress
  PROVE  /\ Fresh(RebuildExtended(e, extra)) /\ Grown(e, RebuildExtended(e, extra))
         /\ TellsIds(RebuildExtended(e, extra), extra)
         /\ RebuildSpread(e, extra) = RebuildExtended(e, extra)
<1> DEFINE context == Merge(extra, e.context)
           r == Error(e.code, e.lead, context, {}, e.cause)
<1>1. Shaped(e) /\ e.hidden = {} /\ "instance" \notin DOMAIN e.context
  BY DEF Fresh
<1>2. e = Error(e.code, e.lead, e.context, {}, e.cause)
      /\ "operation" \in DOMAIN e.context /\ e.lead \in {"", e.context.operation}
  BY <1>1 DEF Shaped
<1>3. RebuildExtended(e, extra) = r
  BY <1>1, Extended
<1>4. RebuildSpread(e, extra) = r
  <2> DEFINE rest == [key \in DOMAIN e.context \ e.hidden |-> e.context[key]]
  <2>1. Merge(extra, rest) = context
    <3>1. DOMAIN rest = DOMAIN e.context /\ \A key \in DOMAIN rest : rest[key] = e.context[key]
      BY <1>1
    <3> HIDE DEF rest
    <3> QED
      BY <3>1 DEF Merge
  <2>2. RebuildSpread(e, extra) = [e EXCEPT !.context = context, !.hidden = {}]
    <3> HIDE DEF context
    <3> QED
      BY <2>1 DEF RebuildSpread
  <2> HIDE DEF context, rest
  <2> QED
    BY <1>2, <2>2 DEF Error
<1>5. /\ DOMAIN context = DOMAIN extra \cup DOMAIN e.context
      /\ \A key \in DOMAIN extra : context[key] = extra[key]
      /\ \A key \in DOMAIN e.context \ DOMAIN extra : context[key] = e.context[key]
  BY DEF Merge
<1>6. "operation" \notin DOMAIN extra /\ "instance" \notin DOMAIN extra
  BY DEF Progress
<1> HIDE DEF context
<1>7. r.code = e.code /\ r.lead = e.lead /\ r.context = context /\ r.hidden = {} /\ r.cause = e.cause
  BY ErrorParts
<1> HIDE DEF r
<1>8. r = Error(r.code, r.lead, r.context, r.hidden, r.cause)
  BY <1>7 DEF r
<1>9. "operation" \in DOMAIN context /\ context["operation"] = e.context["operation"]
  BY <1>2, <1>5, <1>6
<1>10. Fresh(r)
  BY <1>1, <1>2, <1>5, <1>6, <1>7, <1>8, <1>9 DEF Fresh, Shaped
<1>11. Grown(e, r)
  BY <1>5, <1>7 DEF Grown
<1>12. TellsIds(r, extra)
  BY <1>5, <1>7 DEF TellsIds
<1> QED
  BY <1>3, <1>4, <1>10, <1>11, <1>12

(* The fields of an error the package raises.                              *)
LEMMA OwnShape ==
  ASSUME NEW code, NEW context, NEW nothing, NEW lead, lead \in {"", context["operation"]},
         DOMAIN context = {"operation"}
  PROVE  Fresh(Error(code, lead, context, {}, nothing))
<1> DEFINE e == Error(code, lead, context, {}, nothing)
<1>1. /\ e.code = code /\ e.lead = lead /\ e.context = context /\ e.hidden = {}
      /\ e.cause = nothing
  BY DEF Error
<1> HIDE DEF e
<1>2. e = Error(e.code, e.lead, e.context, e.hidden, e.cause)
  BY <1>1 DEF e
<1>3. "operation" \in DOMAIN e.context
      /\ "instance" \notin DOMAIN e.context /\ e.lead \in {"", e.context["operation"]}
  <2>1. e.context = context /\ e.lead = lead
    BY <1>1
  <2>2. "operation" \in DOMAIN context /\ "instance" \notin DOMAIN context
    OBVIOUS
  <2> QED
    BY <2>1, <2>2
<1>4. Shaped(e)
  BY <1>1, <1>2, <1>3 DEF Shaped
<1>5. Fresh(e)
  BY <1>1, <1>3, <1>4 DEF Fresh
<1> QED
  BY <1>1, <1>5 DEF e

(* An error the package raises tells its own code.                         *)
LEMMA OwnError ==
  ASSUME NEW code, NEW lead, lead \in {"", Now.operation}
  PROVE  /\ Fresh(Own(code, lead))
         /\ Own(code, lead).code = code
         /\ Own(code, lead).context = [operation |-> Now.operation]
<1> DEFINE operation == Now.operation
           context == [operation |-> operation]
           nothing == NoError
           e == Own(code, lead)
<1>1. e = Error(code, lead, context, {}, nothing)
  BY DEF Own, S3VectorsError, Context, At, Error
<1>2. DOMAIN context = {"operation"} /\ lead \in {"", context["operation"]}
  OBVIOUS
<1> HIDE DEF operation, context, nothing, e
<1>3. Fresh(e)
  BY <1>1, <1>2, OwnShape
<1>4. e.code = code /\ e.context = context
  BY <1>1 DEF Error
<1> QED
  BY <1>3, <1>4 DEF e, context, operation

(* What the action that made a request adds is what it had confirmed.      *)
LEMMA IdsCounted ==
  ASSUME NEW batches
  PROVE  /\ DOMAIN PartialIds(batches) \subseteq Progress
         /\ Kind \notin {"write", "embedAndWrite", "delete", "fetch"} => DOMAIN PartialIds(batches) = {}
<1>1. CASE Kind \in {"write", "embedAndWrite"}
  <2>1. PartialIds(batches) = [writtenIds |-> batches]
    BY <1>1 DEF PartialIds
  <2> QED
    BY <1>1, <2>1 DEF Progress
<1>2. CASE Kind = "delete"
  <2>1. PartialIds(batches) = [deletedIds |-> batches]
    BY <1>2 DEF PartialIds
  <2> QED
    BY <1>2, <2>1 DEF Progress
<1>3. CASE Kind = "fetch"
  <2>1. PartialIds(batches) = [foundIds |-> batches]
    BY <1>3 DEF PartialIds
  <2> QED
    BY <1>3, <2>1 DEF Progress
<1>4. CASE Kind \notin {"write", "embedAndWrite", "delete", "fetch"}
  <2>1. PartialIds(batches) = <<>>
    BY <1>4 DEF PartialIds
  <2> QED
    BY <2>1
<1> QED
  BY <1>1, <1>2, <1>3, <1>4

(* An error that is left alone has kept everything.                        *)
LEMMA Unchanged ==
  ASSUME NEW e, Fresh(e)
  PROVE  Grown(e, e)
BY DEF Grown

(* Growing twice is growing.                                               *)
LEMMA GrownTwice ==
  ASSUME NEW e, NEW f, NEW g, Grown(e, f), Grown(f, g)
  PROVE  Grown(e, g)
BY DEF Grown

(* The stages that cost an embedding call or a request.                    *)
Spending == {"embed", "embedAndWrite", "write", "query", "fetch", "list", "delete",
             "deleteIndex", "score"}

(* What the action that made a request adds to its failure is progress,    *)
(* and the ids confirmed are in it.                                        *)
LEMMA ReportedFresh ==
  ASSUME NEW e, Fresh(e), NEW command, NEW batches, Kind \in Spending \ {"score"}
  PROVE  /\ Fresh(Reported(e, command, batches)) /\ Grown(e, Reported(e, command, batches))
         /\ TellsIds(Reported(e, command, batches), PartialIds(batches))
<1> DEFINE r == Reported(e, command, batches)
           ids == PartialIds(batches)
<1>1. DOMAIN ids \subseteq Progress
  BY IdsCounted
<1>2. CASE Kind \in {"write", "embedAndWrite", "delete"}
  <2> DEFINE f == PutFails(e, command)
  <2>1. Fresh(f) /\ Grown(e, f)
    <3> DEFINE size == [batchSize |-> 1]
    <3>1. DOMAIN size \subseteq Progress
      BY DEF Progress
    <3>2. f = IF command = "PutVectors" THEN RebuildExtended(e, size) ELSE e
      <4>1. NormalizeToS3VectorsError(e, Context) = e
        BY Normalized DEF Fresh
      <4> QED
        BY <4>1 DEF PutFails, AttachContext
    <3> HIDE DEF f, size
    <3> QED
      BY <3>1, <3>2, Counted, Unchanged
  <2>2. r = RebuildExtended(f, ids)
    <3>1. NormalizeToS3VectorsError(f, Context) = f
      BY <2>1, Normalized DEF Fresh
    <3>2. r = AttachPartialIds(f, Context, ids)
      BY <1>2 DEF Reported
    <3> HIDE DEF f, ids, r
    <3> QED
      BY <3>1, <3>2 DEF AttachPartialIds
  <2> HIDE DEF f, ids, r
  <2>3. Fresh(r) /\ Grown(f, r) /\ TellsIds(r, ids)
    BY <1>1, <2>1, <2>2, Counted
  <2>4. Grown(e, r)
    BY <2>1, <2>3, GrownTwice
  <2> QED
    BY <2>3, <2>4 DEF r, ids
<1>3. CASE Kind = "fetch"
  <2>1. r = RebuildSpread(e, ids)
    BY <1>3 DEF Reported, WithFoundIds
  <2> HIDE DEF ids, r
  <2>2. Fresh(r) /\ Grown(e, r) /\ TellsIds(r, ids)
    BY <1>1, <2>1, Counted
  <2> QED
    BY <2>2 DEF r, ids
<1>4. CASE Kind \in {"list", "query", "embed", "deleteIndex"}
  <2>1. DOMAIN ids = {}
    BY <1>4, IdsCounted
  <2>2. TellsIds(r, ids)
    <3> HIDE DEF ids, r
    <3> QED
      BY <2>1 DEF TellsIds
  <2>3. Fresh(r) /\ Grown(e, r)
    <3>1. CASE Kind = "list"
      <4> DEFINE extra == [pagesScanned |-> batches, yielded |-> batches]
      <4>1. DOMAIN extra \subseteq Progress
        BY DEF Progress
      <4>2. r = RebuildSpread(e, extra)
        BY <3>1 DEF Reported, ExplainListing
      <4> HIDE DEF extra, r
      <4> QED
        BY <4>1, <4>2, Counted
    <3>2. CASE Kind = "query"
      <4> DEFINE extra == [pagesScanned |-> batches, resultsCollected |-> batches]
      <4>1. DOMAIN extra \subseteq Progress
        BY DEF Progress
      <4>2. r = RebuildSpread(e, extra) \/ r = e
        BY <3>2 DEF Reported, ExplainPagination
      <4> HIDE DEF extra, r
      <4> QED
        BY <4>1, <4>2, Counted, Unchanged
    <3>3. CASE Kind \in {"embed", "deleteIndex"}
      <4>1. r = e
        BY <3>3 DEF Reported
      <4> HIDE DEF r
      <4> QED
        BY <4>1, Unchanged
    <3> QED
      BY <1>4, <3>1, <3>2, <3>3
  <2> QED
    BY <2>2, <2>3
<1> QED
  BY <1>2, <1>3, <1>4 DEF Spending

(* What a request, the model or a function of the caller's fails with is   *)
(* no error of this package; a verdict on it is the service's.             *)
LEMMA RawFailures ==
  ASSUME NEW raw \in RequestFailures \cup CallersFailures \cup {Plain(<<"TypeError">>)}
  PROVE  /\ "code" \notin DOMAIN raw
         /\ raw \in CallersFailures \cup {Plain(<<"TypeError">>)} =>
              (DOMAIN AwsDiagnostics(raw, FALSE) # {} <=> raw.metadata \/ raw.marked)
<1> DEFINE Shows == DOMAIN AwsDiagnostics(raw, FALSE) # {}
<1>0. Shows <=> raw.names # <<>> /\ (raw.metadata \/ IsException(NameOf(raw)) \/ (NameOf(raw) = "TimeoutError" /\ ~raw.dom))
  <2>1. (FALSE /\ IsTransientNetworkFailure(raw)) = FALSE
    OBVIOUS
  <2>2. DOMAIN AwsDiagnostics(raw, FALSE) \in {{}, Diagnosis}
    BY Diagnosed
  <2>3. Shows => raw.names # <<>> /\ AwsShaped(raw, FALSE /\ IsTransientNetworkFailure(raw), FALSE)
    BY Diagnosed
  <2>4. ~Shows => raw.names = <<>> \/ ~AwsShaped(raw, FALSE /\ IsTransientNetworkFailure(raw), FALSE)
    BY Diagnosed
  <2>5. AwsShaped(raw, FALSE, FALSE) <=> raw.metadata \/ IsException(NameOf(raw)) \/ (NameOf(raw) = "TimeoutError" /\ ~raw.dom)
    BY DEF AwsShaped
  <2> HIDE DEF Shows
  <2> QED
    BY <2>1, <2>3, <2>4, <2>5
<1>1. CASE raw \in Responses
  <2>1. PICK name, status : raw = Response(name, status)
    BY <1>1 DEF Responses
  <2>2. "code" \notin DOMAIN raw /\ raw.metadata = TRUE /\ raw.names = <<name>>
    BY <2>1 DEF Response, Plain
  <2>3. Shows /\ raw.metadata
    <3> HIDE DEF Shows
    <3> QED
      BY <1>0, <2>2
  <2> QED
    BY <2>2, <2>3
<1>2. CASE raw \in Unanswered
  <2>1. CASE raw = [Plain(<<"TimeoutError">>) EXCEPT !.marked = TRUE]
    <3>1. /\ "code" \notin DOMAIN raw /\ raw.marked = TRUE /\ raw.names = <<"TimeoutError">>
          /\ raw.dom = FALSE
      BY <2>1 DEF Plain
    <3>2. NameOf(raw) = "TimeoutError"
      BY <3>1 DEF NameOf
    <3>3. Shows /\ raw.marked
      <4> HIDE DEF Shows
      <4> QED
        BY <1>0, <3>1, <3>2
    <3> QED
      BY <3>1, <3>3
  <2>2. CASE raw = [Plain(<<"Error">>) EXCEPT !.network = TRUE]
    <3>1. /\ "code" \notin DOMAIN raw /\ raw.marked = FALSE /\ raw.metadata = FALSE
          /\ raw.names = <<"Error">>
      BY <2>2 DEF Plain
    <3>2. NameOf(raw) = "Error"
      BY <3>1 DEF NameOf
    <3>3. ~IsException("Error")
      BY DEF IsException, Declared, BY_NAME
    <3> QED
      BY <1>0, <3>1, <3>2, <3>3
  <2> QED
    BY <1>2, <2>1, <2>2 DEF Unanswered
<1>3. CASE raw \in Cancelled
  <2>1. "code" \notin DOMAIN raw
    BY <1>3 DEF Cancelled, Plain
  <2>2. ASSUME NEW names, raw = Plain(names), names = <<>> \/ Head(names) \in {"AbortError", "Error"}
        PROVE  ~Shows /\ ~raw.metadata /\ ~raw.marked
    <3>1. raw.names = names /\ raw.metadata = FALSE /\ raw.marked = FALSE
      BY <2>2 DEF Plain
    <3>2. NameOf(raw) \in {"none", "AbortError", "Error"}
      BY <2>2, <3>1 DEF NameOf
    <3>3. \A n \in {"none", "AbortError", "Error"} : ~IsException(n)
      BY DEF IsException, Declared, BY_NAME
    <3> QED
      BY <1>0, <3>1, <3>2, <3>3
  <2>3. Head(Nested(0)) = "AbortError" /\ Head(Nested(2)) = "Error"
    BY DEF Nested
  <2> QED
    BY <1>3, <2>1, <2>2, <2>3 DEF Cancelled
<1>4. CASE raw \in {Plain(<<>>), Plain(Nested(0)), Plain(<<"TypeError">>)}
  <2>1. PICK names \in {<<>>, Nested(0), <<"TypeError">>} : raw = Plain(names)
    BY <1>4
  <2>2. "code" \notin DOMAIN raw /\ raw.names = names /\ raw.metadata = FALSE /\ raw.marked = FALSE
    BY <2>1 DEF Plain
  <2>3. Head(Nested(0)) = "AbortError"
    BY DEF Nested
  <2>4. NameOf(raw) \in {"none", "AbortError", "TypeError"}
    BY <2>1, <2>2, <2>3 DEF NameOf
  <2>5. \A n \in {"none", "AbortError", "TypeError"} : ~IsException(n)
    BY DEF IsException, Declared, BY_NAME
  <2> QED
    BY <1>0, <2>2, <2>4, <2>5
<1>5. CASE raw = [Plain(<<"TimeoutError">>) EXCEPT !.dom = TRUE]
  <2>1. /\ "code" \notin DOMAIN raw /\ raw.marked = FALSE /\ raw.metadata = FALSE /\ raw.dom = TRUE
        /\ raw.names = <<"TimeoutError">>
    BY <1>5 DEF Plain
  <2>2. NameOf(raw) = "TimeoutError"
    BY <2>1 DEF NameOf
  <2>3. ~IsException("TimeoutError")
    BY DEF IsException, Declared, BY_NAME
  <2> QED
    BY <1>0, <2>1, <2>2, <2>3
<1> HIDE DEF Shows
<1>6. raw \in Responses \cup Unanswered \cup Cancelled
        \cup {Plain(<<>>), Plain(Nested(0)), Plain(<<"TypeError">>)}
        \cup {[Plain(<<"TimeoutError">>) EXCEPT !.dom = TRUE]}
  <2> DEFINE odd == [Plain(<<"TimeoutError">>) EXCEPT !.dom = TRUE]
  <2>1. raw \in Responses \cup Unanswered \cup Cancelled \cup {Plain(<<"TypeError">>)}
          \cup {Plain(<<>>), Plain(Nested(0)), odd}
    BY DEF RequestFailures, CallersFailures
  <2> HIDE DEF odd
  <2>2. raw \in Responses \cup Unanswered \cup Cancelled
        \cup {Plain(<<>>), Plain(Nested(0)), Plain(<<"TypeError">>)} \cup {odd}
    BY <2>1
  <2> QED
    BY <2>2 DEF odd
<1> QED
  BY <1>1, <1>2, <1>3, <1>4, <1>5, <1>6 DEF Shows

(* A failed request is told with its class, its cause and its name.        *)
LEMMA AwsTold ==
  ASSUME NEW raw \in RequestFailures, NEW command, NEW source,
         source.from = "aws", source.raw = raw, source.command = command
  PROVE  /\ Fresh(AwsFailure(raw, command, Context))
         /\ TellsFailure(AwsFailure(raw, command, Context), source)
<1> DEFINE operation == Now.operation
           code == ClassifyAwsError(raw)
           request == [awsCommand |-> command]
           r == Wrapped(raw, code, At(operation), request)
           d == AwsDiagnostics(raw, DOMAIN request # {})
<1>1. "code" \notin DOMAIN raw
  BY RawFailures
<1>2. AwsFailure(raw, command, Context) = r
  BY <1>1 DEF AwsFailure, IsS3VectorsError, Context
<1>3. DOMAIN request = {"awsCommand"} /\ request["awsCommand"] = command
  OBVIOUS
<1>4. d = AwsDiagnostics(raw, TRUE)
  <2>1. (DOMAIN request # {}) = TRUE
    BY <1>3
  <2> QED
    BY <2>1
<1>5. code \in Transient => "retryable" \in DOMAIN d /\ d["retryable"]
  <2>1. SUFFICES ASSUME code \in Transient PROVE "retryable" \in DOMAIN d /\ d["retryable"]
    OBVIOUS
  <2>2. ClassifyAwsError(raw) \in {"THROTTLED", "SERVICE_UNAVAILABLE"}
    BY <2>1 DEF Transient
  <2> HIDE DEF d
  <2> QED
    BY <1>4, <2>2, TransientClassesSaySo
<1> HIDE DEF operation, code, request
<1>6. /\ Fresh(r)
      /\ r.code = code /\ r.cause = raw /\ r.context.operation = operation
      /\ DOMAIN r.context = {"operation"} \cup DOMAIN request \cup DOMAIN d
      /\ \A key \in DOMAIN request : r.context[key] = request[key]
      /\ \A key \in DOMAIN d : r.context[key] = d[key]
  BY <1>1, <1>3, Wraps
<1> HIDE DEF r, d
<1>7. TellsFailure(r, source)
  <2>1. r.code = ClassifyAwsError(source.raw) /\ r.cause = source.raw
    BY <1>6 DEF code
  <2>2. "awsCommand" \in DOMAIN r.context /\ r.context["awsCommand"] = source.command
    BY <1>3, <1>6
  <2>3. SaidTransient(r)
    BY <1>5, <1>6 DEF SaidTransient
  <2> QED
    BY <2>1, <2>2, <2>3 DEF TellsFailure
<1> QED
  BY <1>2, <1>6, <1>7

(* A failure of the caller's own code is told with its cause; a verdict is *)
(* given where the service has answered.                                   *)
LEMMA CallersTold ==
  ASSUME NEW raw \in CallersFailures \cup {Plain(<<"TypeError">>)}, NEW operation,
         NEW code, code \notin Transient
  PROVE  LET r == Wrapped(raw, code, At(operation), <<>>)
         IN /\ Fresh(r)
            /\ r.code = code
            /\ r.context.operation = operation
            /\ SaidTransient(r)
            /\ \A source : source.raw = raw => Judged(r, source)
<1> DEFINE none == <<>>
           r == Wrapped(raw, code, At(operation), none)
           d == AwsDiagnostics(raw, DOMAIN none # {})
<1>1. "code" \notin DOMAIN raw /\ (DOMAIN AwsDiagnostics(raw, FALSE) # {} <=> raw.metadata \/ raw.marked)
  BY RawFailures
<1>2. DOMAIN none = {}
  OBVIOUS
<1>3. d = AwsDiagnostics(raw, FALSE)
  <2>1. (DOMAIN none # {}) = FALSE
    BY <1>2
  <2> QED
    BY <2>1
<1>4. DOMAIN d \in {{}, Diagnosis}
  BY <1>3, Diagnosed
<1> HIDE DEF none
<1>5. /\ Fresh(r)
      /\ r.code = code /\ r.cause = raw /\ r.context.operation = operation
      /\ DOMAIN r.context = {"operation"} \cup DOMAIN none \cup DOMAIN d
  BY <1>1, <1>2, Wraps
<1>6. DOMAIN d # {} <=> raw.metadata \/ raw.marked
  BY <1>1, <1>3
<1> HIDE DEF r, d
<1>7. ASSUME NEW source, source.raw = raw PROVE Judged(r, source)
  <2>1. "awsCommand" \notin DOMAIN r.context
    BY <1>2, <1>4, <1>5 DEF Diagnosis
  <2>2. "retryable" \in DOMAIN r.context <=> DOMAIN d # {}
    BY <1>2, <1>4, <1>5 DEF Diagnosis
  <2> QED
    BY <1>5, <1>6, <1>7, <2>1, <2>2 DEF Judged
<1>8. SaidTransient(r)
  BY <1>5 DEF SaidTransient
<1> QED
  BY <1>5, <1>7, <1>8 DEF r, none

(* A failure of the package's own store behind the model passes as it is.  *)
LEMMA ForeignTold ==
  ASSUME NEW source, source.from = "foreign", source.raw = ForeignError
  PROVE  /\ Fresh(WrapEmbeddingsError(ForeignError, Context))
         /\ TellsFailure(WrapEmbeddingsError(ForeignError, Context), source)
<1> DEFINE e == ForeignError
           context == [operation |-> "similaritySearch", awsCommand |-> "QueryVectors", retryable |-> TRUE]
           raw == Response("TooManyRequestsException", 429)
<1>1. e = Error("THROTTLED", "similaritySearch", context, {}, raw)
  BY DEF ForeignError, S3VectorsError, Error
<1>2. /\ DOMAIN context = {"operation", "awsCommand", "retryable"}
      /\ context["operation"] = "similaritySearch" /\ context["retryable"] = TRUE
  OBVIOUS
<1>3. "code" \in DOMAIN e
  BY <1>1 DEF Error
<1>4. WrapEmbeddingsError(e, Context) = e
  BY <1>3 DEF WrapEmbeddingsError, Wrapped, IsS3VectorsError
<1> HIDE DEF context, raw, e
<1>5. /\ e.code = "THROTTLED" /\ e.lead = "similaritySearch" /\ e.context = context /\ e.hidden = {}
      /\ e.cause = raw
  BY <1>1 DEF Error
<1>6. e = Error(e.code, e.lead, e.context, e.hidden, e.cause)
  BY <1>1, <1>5
<1>7. Shaped(e)
  BY <1>2, <1>5, <1>6 DEF Shaped
<1>8. Fresh(e)
  BY <1>2, <1>5, <1>7 DEF Fresh
<1>9. TellsFailure(e, source)
  <2>1. SaidTransient(e)
    BY <1>2, <1>5 DEF SaidTransient
  <2>2. e.code = source.raw.code /\ e.cause = source.raw.cause
    BY DEF e
  <2> QED
    BY <2>1, <2>2 DEF TellsFailure
<1> QED
  BY <1>4, <1>8, <1>9 DEF e

(* An error the package raises once it has begun to spend.                 *)
LEMMA OwnTold ==
  ASSUME NEW e, Fresh(e), NEW source, source.from = "package", source.code = e.code,
         e.code \notin Transient
  PROVE  TellsFailure(e, source)
BY DEF TellsFailure, SaidTransient
-----------------------------------------------------------------------------
(* A call on its course                                                    *)

(* A stage the call was not stopped at.                                    *)
Went(x) ==
  /\ ~Refuses(x) /\ ~NothingToDo(x) /\ ~NoModel(x)
  /\ x.kind = "signal" => Value("signal") \notin NotASignal /\ Value("signal") # "fired"
  /\ x.kind = "race" => Value("runSignal") # "fired"

(* What stops a call that has spent nothing, and what it then fails with.  *)
StoppedBy(x, source) ==
  \/ Refuses(x) /\ source.from = "caller"
  \/ source.from = "package" /\
       \/ Refuses(x) /\ source.code \in {"VALIDATION", "INDEX_CONFIG_MISMATCH"}
       \/ x.kind = "signal" /\ Value("signal") \in NotASignal /\ source.code = "VALIDATION"
       \/ x.kind = "signal" /\ Value("signal") = "fired" /\ source.code = "ABORTED"
       \/ x.kind = "race" /\ Value("runSignal") = "fired" /\ source.code = "ABORTED"
       \/ NoModel(x) /\ source.code = "EMBEDDINGS_MISSING"

(* A thrown value that is no error of the package: an argument's own.      *)
Raw == Plain(<<"TypeError">>)

(* A failure with the layers it has still to pass.                         *)
Sound(e, layers, source, operation) ==
  /\ layers # <<>> => Way(layers)
  /\ \/ /\ e = Raw /\ layers # <<>>
        /\ source.from = "caller" /\ source.raw = Raw /\ "partial" \notin DOMAIN source
        /\ Instances(layers) <=> OfFactory(operation)
     \/ /\ Shaped(e) /\ Tells(e, source)
        /\ layers = <<>> => e.context["operation"] = call.name
        /\ Instances(layers) \/ "instance" \in DOMAIN e.context <=> OfFactory(operation)

(* What an invocation that lost its race is answered.                      *)
RaceError == S3VectorsError("ABORTED", call.name, At(call.name), NoError)

(* The race of an invocation with its run signal is lost.                  *)
Lost == Racing /\ runFired /\ outcome = RaceError

(* The last stage is done, or there was nothing to do.                     *)
Ended ==
  \/ NothingToDo(Code[at].stage)
  \/ at = Len(Code) /\ Went(Code[at].stage)

(* No stage before the one a call is at has stopped it.                    *)
OnCourse ==
  /\ call \in Calls /\ at \in DOMAIN Code
  /\ \A k \in 1..(at - 1) : Went(Code[k].stage)

(* Something was spent only at a stage that spends, and a signal fires     *)
(* only after that or on the way out.                                      *)
Spends ==
  /\ pc \in {"running", "awaiting", "unwinding", "over"} /\ spent \in BOOLEAN
  /\ pc = "awaiting" => spent /\ Code[at].stage.kind \in Spending
  /\ spent => \E k \in 1..at : Code[k].stage.kind \in Spending
  /\ fired => spent \/ pc \in {"unwinding", "over"}

(* The failure under way is sound, and something was spent or the stage    *)
(* the call is at refuses it.                                              *)
Failing ==
  /\ Sound(thrown, ahead, origin, Code[at].operation)
  /\ spent \/ StoppedBy(Code[at].stage, origin)

(* What a call that is over has been answered.                             *)
Replied ==
  \/ (outcome = Resolved \/ Lost) /\ (spent \/ Ended)
  \/ (outcome = thrown \/ Lost) /\ ahead = <<>> /\ Failing

(* The inductive invariant of a call.                                      *)
CallInv ==
  /\ OnCourse
  /\ Spends
  /\ pc # "over" => outcome = Pending \/ Lost
  /\ pc = "unwinding" => Failing
  /\ pc = "over" => Replied

(* What only depends on the call stays while the call does.                *)
LEMMA CallKept ==
  ASSUME call' = call
  PROVE  /\ Code' = Code
         /\ RaceError' = RaceError
         /\ \A x : Went(x)' <=> Went(x)
         /\ \A x : NothingToDo(x)' <=> NothingToDo(x)
         /\ \A x, source : StoppedBy(x, source)' <=> StoppedBy(x, source)
         /\ \A e, layers, source, operation :
              Sound(e, layers, source, operation)' <=> Sound(e, layers, source, operation)
<1>1. Code' = Code
  BY DEF Code, Codes
<1>2. RaceError' = RaceError
  BY DEF RaceError, S3VectorsError, At
<1>3. \A field : Value(field)' = Value(field)
  BY DEF Value
<1>4. \A x : (Refuses(x)' <=> Refuses(x)) /\ (NothingToDo(x)' <=> NothingToDo(x)) /\ (NoModel(x)' <=> NoModel(x))
  BY <1>3 DEF Refuses, NothingToDo, NoModel
<1>5. \A x : Went(x)' <=> Went(x)
  BY <1>3, <1>4 DEF Went
<1>6. \A x, source : StoppedBy(x, source)' <=> StoppedBy(x, source)
  BY <1>3, <1>4 DEF StoppedBy
<1>7. \A e, layers, source, operation :
        Sound(e, layers, source, operation)' <=> Sound(e, layers, source, operation)
  BY DEF Sound, Way, OfFactory
<1> QED
  BY <1>1, <1>2, <1>4, <1>5, <1>6, <1>7

(* A race that was lost stays lost.                                        *)
LEMMA LostKept ==
  ASSUME call' = call, at \in Nat, at' \in {at, at + 1}, runFired => runFired', outcome' = outcome,
         Lost
  PROVE  Lost'
<1>1. Code' = Code /\ RaceError' = RaceError
  BY CallKept
<1>2. PICK i \in 1..(at - 1) : Code[i].stage.kind = "race"
  BY DEF Lost, Racing
<1>3. i \in 1..(at' - 1)
  <2>1. i \in Int /\ 1 <= i /\ i <= at - 1
    BY <1>2
  <2>2. CASE at' = at
    BY <2>1, <2>2
  <2>3. CASE at' = at + 1
    BY <2>1, <2>3
  <2> QED
    BY <2>2, <2>3
<1>4. Racing'
  BY <1>1, <1>2, <1>3 DEF Racing
<1> QED
  BY <1>1, <1>4 DEF Lost

(* The stages of a program are numbered from one.                          *)
LEMMA CodeCounted ==
  ASSUME CallsAssumption, call \in Calls
  PROVE  Len(Code) \in Nat /\ DOMAIN Code = 1..Len(Code)
BY CodeInOrder, Joined

(* A call that ends well.                                                  *)
LEMMA Resolves ==
  ASSUME CallsAssumption, CallInv, pc \in {"running", "awaiting"}, Resolve, spent \/ Ended,
         UNCHANGED <<call, fired, runFired, spent>>
  PROVE  CallInv'
<1>1. call' = call /\ at' = at /\ spent' = spent /\ fired' = fired /\ pc' = "over"
  BY DEF Resolve
<1>2. Code' = Code /\ (\A x : Went(x)' <=> Went(x)) /\ \A x : NothingToDo(x)' <=> NothingToDo(x)
  BY <1>1, CallKept
<1>3. at \in Nat
  BY CodeCounted DEF CallInv, OnCourse
<1>4. outcome' = Resolved \/ Lost'
  <2>1. CASE outcome = Pending
    BY <2>1 DEF Resolve
  <2>2. CASE outcome # Pending
    <3>1. Lost /\ outcome' = outcome
      BY <2>2 DEF CallInv, Resolve
    <3> QED
      BY <1>1, <1>3, <3>1, LostKept
  <2> QED
    BY <2>1, <2>2
<1>5. Resolved' = Resolved
  BY DEF Resolved
<1>6. Ended' <=> Ended
  BY <1>1, <1>2 DEF Ended
<1>7. OnCourse'
  BY <1>1, <1>2 DEF CallInv, OnCourse
<1>8. Spends'
  BY <1>1, <1>2 DEF CallInv, Spends
<1>9. Replied'
  BY <1>1, <1>4, <1>5, <1>6 DEF Replied
<1> QED
  BY <1>1, <1>7, <1>8, <1>9 DEF CallInv

(* A call that is past a stage.                                            *)
LEMMA Advances ==
  ASSUME CallsAssumption, CallInv, pc \in {"running", "awaiting"}, Advance,
         Went(Code[at].stage), UNCHANGED <<call, fired, runFired, spent>>
  PROVE  CallInv'
<1>1. Len(Code) \in Nat /\ DOMAIN Code = 1..Len(Code) /\ at \in 1..Len(Code)
  BY CodeCounted DEF CallInv, OnCourse
<1>2. CASE at = Len(Code)
  BY <1>2, Resolves DEF Advance, Ended
<1>3. CASE at # Len(Code)
  <2>1. /\ at' = at + 1 /\ pc' = "running" /\ outcome' = outcome
        /\ call' = call /\ spent' = spent /\ fired' = fired
    BY <1>3 DEF Advance
  <2>2. Code' = Code /\ \A x : Went(x)' <=> Went(x)
    BY <2>1, CallKept
  <2>3. OnCourse'
    <3>1. at' \in DOMAIN Code
      <4>1. at + 1 \in 1..Len(Code)
        <5>1. at \in Nat /\ at >= 1 /\ at <= Len(Code) /\ Len(Code) \in Nat
          BY <1>1
        <5> QED
          BY <1>3, <5>1
      <4> QED
        BY <1>1, <2>1, <4>1
    <3>2. ASSUME NEW k \in 1..(at' - 1) PROVE Went(Code[k].stage)
      <4>1. k \in 1..(at - 1) \/ k = at
        BY <1>1, <2>1
      <4> QED
        BY <4>1 DEF CallInv, OnCourse
    <3>3. call \in Calls
      BY DEF CallInv, OnCourse
    <3> QED
      BY <2>1, <2>2, <3>1, <3>2, <3>3 DEF OnCourse
  <2>4. Spends'
    <3>1. /\ spent \in BOOLEAN
          /\ spent => \E k \in 1..at : Code[k].stage.kind \in Spending
          /\ fired => spent
      BY DEF CallInv, Spends
    <3>2. spent => \E k \in 1..(at + 1) : Code[k].stage.kind \in Spending
      BY <1>1, <3>1
    <3> QED
      BY <2>1, <2>2, <3>1, <3>2 DEF Spends
  <2>5. outcome' = Pending' \/ Lost'
    <3>1. outcome = Pending \/ Lost
      BY DEF CallInv
    <3>2. CASE outcome = Pending
      BY <2>1, <3>2 DEF Pending
    <3>3. CASE Lost
      <4>1. runFired' = runFired
        OBVIOUS
      <4> QED
        BY <1>1, <2>1, <3>3, <4>1, LostKept
    <3> QED
      BY <3>1, <3>2, <3>3
  <2> QED
    BY <2>1, <2>3, <2>4, <2>5 DEF CallInv
<1> QED
  BY <1>2, <1>3

(* A call that fails.                                                      *)
LEMMA Throws ==
  ASSUME CallsAssumption, CallInv, pc \in {"running", "awaiting"},
         NEW e, NEW source, Throw(e, source),
         Sound(e, Code[at].layers, source, Code[at].operation),
         spent \/ StoppedBy(Code[at].stage, source),
         UNCHANGED <<call, fired, runFired, spent>>
  PROVE  CallInv'
<1>1. /\ at' = at /\ pc' = "unwinding" /\ outcome' = outcome /\ call' = call /\ spent' = spent
      /\ fired' = fired /\ runFired' = runFired
      /\ thrown' = e /\ ahead' = Code[at].layers /\ origin' = source
  BY DEF Throw, Now
<1>2. /\ Code' = Code
      /\ \A x : Went(x)' <=> Went(x)
      /\ \A x, s : StoppedBy(x, s)' <=> StoppedBy(x, s)
      /\ \A f, layers, s, operation : Sound(f, layers, s, operation)' <=> Sound(f, layers, s, operation)
  BY <1>1, CallKept
<1>3. at \in Nat
  BY CodeCounted DEF CallInv, OnCourse
<1>4. OnCourse'
  BY <1>1, <1>2 DEF CallInv, OnCourse
<1>5. Spends'
  BY <1>1, <1>2 DEF CallInv, Spends
<1>6. outcome' = Pending' \/ Lost'
  <2>1. outcome = Pending \/ Lost
    BY DEF CallInv
  <2>2. CASE outcome = Pending
    BY <1>1, <2>2 DEF Pending
  <2>3. CASE Lost
    BY <1>1, <1>3, <2>3, LostKept
  <2> QED
    BY <2>1, <2>2, <2>3
<1>7. Failing'
  BY <1>1, <1>2 DEF Failing
<1> QED
  BY <1>1, <1>4, <1>5, <1>6, <1>7 DEF CallInv

(* The stage a call is at.                                                 *)
LEMMA StageNow ==
  /\ Kind = Code[at].stage.kind
  /\ Now.operation = Code[at].operation
  /\ Now.stage = Code[at].stage
  /\ Now = Code[at]
BY DEF Kind, Now

(* A call at a stage that spends was stopped nowhere.                      *)
LEMMA Begun ==
  ASSUME CallsAssumption, OnCourse, NEW e, Fresh(e), NEW source, Tells(e, source),
         Code[at].stage.kind = "check" => e.context["operation"] = Code[at].operation
  PROVE  Sound(e, Code[at].layers, source, Code[at].operation)
<1> DEFINE entry == Code[at]
<1>1. Placed(entry)
  BY CodePlaced DEF OnCourse, AllPlaced
<1> HIDE DEF entry
<1>2. /\ entry.layers = <<>> =>
           /\ entry.operation = call.name
           /\ entry.stage.kind = "check"
      /\ entry.layers # <<>> => Way(entry.layers)
      /\ Instances(entry.layers) <=> OfFactory(entry.operation)
  BY <1>1 DEF Placed
<1>3. Shaped(e) /\ "instance" \notin DOMAIN e.context
  BY DEF Fresh
<1>4. entry.stage.kind = "check" => e.context["operation"] = entry.operation
  BY DEF entry
<1>5. Sound(e, entry.layers, source, entry.operation)
  BY <1>2, <1>3, <1>4 DEF Sound
<1> QED
  BY <1>5 DEF entry

(* A call stopped before it spends.                                        *)
LEMMA Raised ==
  ASSUME CallsAssumption, CallInv, pc = "running", NEW code, code \notin Transient, NEW lead,
         lead \in {"", Now.operation}, Raise(code, lead),
         spent \/ \A source : source.from = "package" /\ source.code = code =>
                    StoppedBy(Code[at].stage, source),
         UNCHANGED <<call, fired, runFired, spent>>
  PROVE  CallInv'
<1> DEFINE e == Own(code, lead)
           source == [from |-> "package", code |-> code]
           operation == Now.operation
<1>1. /\ Fresh(e)
      /\ e.code = code
      /\ e.context = [operation |-> operation]
  BY OwnError
<1>2. source.from = "package" /\ source.code = code /\ "partial" \notin DOMAIN source
  OBVIOUS
<1>3. Throw(e, source)
  BY DEF Raise
<1>4. operation = Code[at].operation
  BY StageNow
<1> HIDE DEF e, source, operation
<1>5. TellsFailure(e, source)
  BY <1>1, <1>2, OwnTold
<1>6. Tells(e, source)
  BY <1>2, <1>5 DEF Tells
<1>7. e.context["operation"] = Code[at].operation
  <2>1. [operation |-> operation]["operation"] = operation
    OBVIOUS
  <2> QED
    BY <1>1, <1>4, <2>1
<1>8. Sound(e, Code[at].layers, source, Code[at].operation)
  BY <1>1, <1>6, <1>7, Begun DEF CallInv
<1>9. spent \/ StoppedBy(Code[at].stage, source)
  BY <1>2
<1> QED
  BY <1>3, <1>8, <1>9, Throws

(* The synchronous stages keep the invariant.                              *)
LEMMA RunKeeps ==
  ASSUME CallsAssumption, CallInv, Run
  PROVE  CallInv'
<1> DEFINE x == Code[at].stage
<1>1. /\ pc = "running" /\ spent' = (spent \/ pc' = "awaiting") /\ spent \in BOOLEAN
      /\ call' = call /\ fired' = fired /\ runFired' = runFired
  BY DEF Run, CallInv, Spends
<1>2. Kind = x.kind /\ Now.stage = x
  BY StageNow
<1>3. ASSUME Advance PROVE spent' = spent
  BY <1>1, <1>3 DEF Advance, Resolve
<1>4. ASSUME Resolve PROVE spent' = spent
  BY <1>1, <1>4 DEF Resolve
<1>5. ASSUME NEW e, NEW source, Throw(e, source) PROVE spent' = spent
  BY <1>1, <1>5 DEF Throw
<1>6. ASSUME NEW code, NEW lead, Raise(code, lead) PROVE spent' = spent
  BY <1>5, <1>6 DEF Raise
<1>7. CASE CheckArgument
  <2> DEFINE value == Value(Now.stage.field)
  <2>1. x.kind = "check"
    BY <1>2, <1>7 DEF CheckArgument
  <2>2. CASE value \notin Now.stage.refuses
    <3>1. Advance
      BY <1>7, <2>2 DEF CheckArgument
    <3>2. Went(x)
      BY <1>2, <2>1, <2>2 DEF Went, Refuses, NothingToDo, NoModel
    <3> QED
      BY <1>1, <1>3, <3>1, <3>2, Advances
  <2>3. CASE value \in Now.stage.refuses /\ value = "throwing"
    <3> DEFINE source == [from |-> "caller", raw |-> Plain(<<"TypeError">>)]
    <3>1. Throw(Plain(<<"TypeError">>), source)
      BY <1>7, <2>3 DEF CheckArgument
    <3>2. Refuses(x)
      BY <1>2, <2>1, <2>3 DEF Refuses
    <3>3. source.from = "caller" /\ source.raw = Raw /\ "partial" \notin DOMAIN source
      BY DEF Raw
    <3>4. Sound(Raw, Code[at].layers, source, Code[at].operation)
      <4> DEFINE entry == Code[at]
      <4>1. Placed(entry)
        BY CodePlaced DEF CallInv, OnCourse, AllPlaced
      <4>2. "throwing" \in entry.stage.refuses
        BY <1>2, <2>3
      <4> HIDE DEF entry, source
      <4>3. /\ entry.layers # <<>> /\ Way(entry.layers)
            /\ Instances(entry.layers) <=> OfFactory(entry.operation)
        BY <4>1, <4>2 DEF Placed
      <4>4. Sound(Raw, entry.layers, source, entry.operation)
        BY <3>3, <4>3 DEF Sound
      <4> QED
        BY <4>4 DEF entry
    <3>5. StoppedBy(x, source)
      BY <3>2, <3>3 DEF StoppedBy
    <3>6. Throw(Raw, source)
      BY <3>1 DEF Raw
    <3>7. spent' = spent
      BY <1>5, <3>1
    <3> HIDE DEF source
    <3> QED
      BY <1>1, <3>4, <3>5, <3>6, <3>7, Throws
  <2>4. CASE value \in Now.stage.refuses /\ value # "throwing"
    <3>1. PICK code \in {"VALIDATION", "INDEX_CONFIG_MISMATCH"} : Raise(code, "")
      BY <1>7, <2>4 DEF CheckArgument
    <3>2. Refuses(x)
      BY <1>2, <2>1, <2>4 DEF Refuses
    <3>3. \A source : source.from = "package" /\ source.code = code => StoppedBy(x, source)
      BY <3>2 DEF StoppedBy
    <3>4. code \notin Transient
      BY DEF Transient
    <3>5. spent' = spent
      BY <1>6, <3>1
    <3> HIDE DEF x, value
    <3> QED
      BY <1>1, <3>1, <3>3, <3>4, <3>5, Raised DEF x
  <2> QED
    BY <2>2, <2>3, <2>4
<1>8. CASE CheckAborted
  <2>1. x.kind = "signal"
    BY <1>2, <1>8 DEF CheckAborted
  <2>2. CASE Value("signal") \in NotASignal
    <3>1. Raise("VALIDATION", Now.operation)
      BY <1>8, <2>2 DEF CheckAborted
    <3>2. \A source : source.from = "package" /\ source.code = "VALIDATION" => StoppedBy(x, source)
      BY <2>1, <2>2 DEF StoppedBy
    <3>3. spent' = spent
      BY <1>6, <3>1
    <3>4. "VALIDATION" \notin Transient
      BY DEF Transient
    <3> QED
      BY <1>1, <3>1, <3>2, <3>3, <3>4, Raised
  <2>3. CASE Value("signal") \notin NotASignal /\ SignalFired
    <3>1. Raise("ABORTED", Now.operation)
      BY <1>8, <2>3 DEF CheckAborted
    <3>2. spent \/ Value("signal") = "fired"
      BY <1>1, <2>3 DEF SignalFired, CallInv, Spends
    <3>3. spent \/ \A source : source.from = "package" /\ source.code = "ABORTED" => StoppedBy(x, source)
      BY <2>1, <3>2 DEF StoppedBy
    <3>4. spent' = spent
      BY <1>6, <3>1
    <3>5. "ABORTED" \notin Transient
      BY DEF Transient
    <3> QED
      BY <1>1, <3>1, <3>3, <3>4, <3>5, Raised
  <2>4. CASE Value("signal") \notin NotASignal /\ ~SignalFired
    <3>1. Advance
      BY <1>8, <2>4 DEF CheckAborted
    <3>2. Went(x)
      BY <2>1, <2>4 DEF Went, Refuses, NothingToDo, NoModel, SignalFired
    <3> QED
      BY <1>1, <1>3, <3>1, <3>2, Advances
  <2> QED
    BY <2>2, <2>3, <2>4
<1>9. CASE ReturnEmpty
  <2>1. x.kind = "empty"
    BY <1>2, <1>9 DEF ReturnEmpty
  <2>2. CASE Value("items") = "none"
    <3>1. Resolve
      BY <1>9, <2>2 DEF ReturnEmpty
    <3>2. Ended
      BY <2>1, <2>2 DEF Ended, NothingToDo
    <3> QED
      BY <1>1, <1>4, <3>1, <3>2, Resolves
  <2>3. CASE Value("items") # "none"
    <3>1. Advance
      BY <1>9, <2>3 DEF ReturnEmpty
    <3>2. Went(x)
      BY <2>1, <2>3 DEF Went, Refuses, NothingToDo, NoModel
    <3> QED
      BY <1>1, <1>3, <3>1, <3>2, Advances
  <2> QED
    BY <2>2, <2>3
<1>10. CASE NeedModel
  <2>1. x.kind = "model"
    BY <1>2, <1>10 DEF NeedModel
  <2>2. CASE Value("model") = "stub"
    <3>1. Raise("EMBEDDINGS_MISSING", "")
      BY <1>10, <2>2 DEF NeedModel
    <3>2. \A source : source.from = "package" /\ source.code = "EMBEDDINGS_MISSING" => StoppedBy(x, source)
      BY <2>1, <2>2 DEF StoppedBy, NoModel
    <3>3. spent' = spent
      BY <1>6, <3>1
    <3>4. "EMBEDDINGS_MISSING" \notin Transient
      BY DEF Transient
    <3> QED
      BY <1>1, <3>1, <3>2, <3>3, <3>4, Raised
  <2>3. CASE Value("model") # "stub"
    <3>1. Advance
      BY <1>10, <2>3 DEF NeedModel
    <3>2. Went(x)
      BY <2>1, <2>3 DEF Went, Refuses, NothingToDo, NoModel
    <3> QED
      BY <1>1, <1>3, <3>1, <3>2, Advances
  <2> QED
    BY <2>2, <2>3
<1>11. CASE BeginRace
  <2>1. x.kind = "race"
    BY <1>2, <1>11 DEF BeginRace
  <2>2. CASE Value("runSignal") = "fired"
    <3>1. Raise("ABORTED", Now.operation)
      BY <1>11, <2>2 DEF BeginRace
    <3>2. \A source : source.from = "package" /\ source.code = "ABORTED" => StoppedBy(x, source)
      BY <2>1, <2>2 DEF StoppedBy
    <3>3. spent' = spent
      BY <1>6, <3>1
    <3>4. "ABORTED" \notin Transient
      BY DEF Transient
    <3> QED
      BY <1>1, <3>1, <3>2, <3>3, <3>4, Raised
  <2>3. CASE Value("runSignal") # "fired"
    <3>1. Advance
      BY <1>11, <2>3 DEF BeginRace
    <3>2. Went(x)
      BY <2>1, <2>3 DEF Went, Refuses, NothingToDo, NoModel
    <3> QED
      BY <1>1, <1>3, <3>1, <3>2, Advances
  <2> QED
    BY <2>2, <2>3
<1>12. CASE Spend
  <2>1. x.kind \in Spending /\ pc' = "awaiting" /\ at' = at /\ outcome' = outcome
    BY <1>2, <1>12 DEF Spend, Spending
  <2>2. Code' = Code /\ \A y : Went(y)' <=> Went(y)
    BY <1>1, CallKept
  <2>3. at \in Nat
    BY CodeCounted DEF CallInv, OnCourse
  <2>4. OnCourse'
    BY <1>1, <2>1, <2>2 DEF CallInv, OnCourse
  <2>5. Spends'
    <3>1. at \in 1..at
      BY CodeCounted DEF CallInv, OnCourse
    <3> QED
      BY <1>1, <2>1, <2>2, <3>1 DEF Spends
  <2>6. outcome' = Pending' \/ Lost'
    <3>1. outcome = Pending \/ Lost
      BY <1>1 DEF CallInv
    <3>2. CASE outcome = Pending
      BY <2>1, <3>2 DEF Pending
    <3>3. CASE Lost
      BY <1>1, <2>1, <2>3, <3>3, LostKept
    <3> QED
      BY <3>1, <3>2, <3>3
  <2> QED
    BY <2>1, <2>4, <2>5, <2>6 DEF CallInv
<1> QED
  BY <1>7, <1>8, <1>9, <1>10, <1>11, <1>12 DEF Run

(* A repeated page token is told like an error of the package, with the    *)
(* request that gave it.                                                   *)
LEMMA RepeatedTokenFresh ==
  ASSUME NEW command
  PROVE  /\ Fresh(RepeatedToken(command))
         /\ RepeatedToken(command).code = "PAGE_LIMIT_EXCEEDED"
<1> DEFINE e == Own("PAGE_LIMIT_EXCEEDED", "")
           request == [awsCommand |-> command]
           context == Merge(e.context, request)
           r == RepeatedToken(command)
<1>1. /\ Fresh(e)
      /\ e.code = "PAGE_LIMIT_EXCEEDED"
  BY OwnError
<1>2. r = [e EXCEPT !.context = context]
  BY DEF RepeatedToken
<1>3. DOMAIN request = {"awsCommand"}
  OBVIOUS
<1> HIDE DEF e, request
<1>4. /\ DOMAIN context = {"awsCommand"} \cup DOMAIN e.context
      /\ \A key \in DOMAIN e.context : context[key] = e.context[key]
  BY <1>3 DEF Merge
<1> HIDE DEF context, r
<1>5. Shaped(e) /\ e.hidden = {} /\ "instance" \notin DOMAIN e.context
  BY <1>1 DEF Fresh
<1>6. e = Error(e.code, e.lead, e.context, {}, e.cause)
      /\ "operation" \in DOMAIN e.context /\ e.lead \in {"", e.context.operation}
  BY <1>5 DEF Shaped
<1>7. r = Error(e.code, e.lead, context, {}, e.cause)
  <2>1. PICK code, lead, fields, hidden, cause : e = Error(code, lead, fields, hidden, cause)
    BY <1>6
  <2>2. e.code = code /\ e.lead = lead /\ e.hidden = hidden /\ e.cause = cause
    BY <2>1 DEF Error
  <2>3. [Error(code, lead, fields, hidden, cause) EXCEPT !.context = context]
          = Error(code, lead, context, hidden, cause)
    BY DEF Error
  <2> QED
    BY <1>2, <1>5, <2>1, <2>2, <2>3
<1>8. r.code = e.code /\ r.lead = e.lead /\ r.context = context /\ r.hidden = {} /\ r.cause = e.cause
  BY <1>7 DEF Error
<1>9. r = Error(r.code, r.lead, r.context, r.hidden, r.cause)
  BY <1>7, <1>8
<1>10. Shaped(r)
  BY <1>4, <1>5, <1>6, <1>8, <1>9 DEF Shaped
<1>11. Fresh(r)
  BY <1>4, <1>5, <1>8, <1>10 DEF Fresh
<1> QED
  BY <1>1, <1>8, <1>11 DEF r

(* So is every error the package raises after it has begun to spend.       *)
LEMMA OwnErrorsFresh ==
  ASSUME NEW own \in OwnErrors, Kind \in Spending
  PROVE  Fresh(own) /\ own.code \notin Transient
<1>1. ASSUME NEW code \in {"INDEX_CONFIG_MISMATCH", "VALIDATION", "AWS_INVALID_RESPONSE",
                           "PAGE_LIMIT_EXCEEDED", "ABORTED"},
             NEW lead, lead \in {"", Now.operation}, own = Own(code, lead)
      PROVE  Fresh(own) /\ own.code \notin Transient
  <2>1. Fresh(own)
    BY <1>1, OwnError
  <2>2. own.code = code
    BY <1>1, OwnError
  <2> QED
    BY <2>1, <2>2 DEF Transient
<1>2. ASSUME NEW command, own = RepeatedToken(command)
      PROVE  Fresh(own) /\ own.code \notin Transient
  <2>1. Fresh(own)
    BY <1>2, RepeatedTokenFresh
  <2>2. own.code = "PAGE_LIMIT_EXCEEDED"
    BY <1>2, RepeatedTokenFresh
  <2> QED
    BY <2>1, <2>2 DEF Transient
<1>3. own \in {Mismatch, InvalidResponse, Own("VALIDATION", ""), Own("PAGE_LIMIT_EXCEEDED", ""),
               RepeatedToken("QueryVectors"), RepeatedToken("ListVectors")} \cup AbortSeen
  <2>1. OwnErrors \subseteq {Mismatch, InvalidResponse, Own("VALIDATION", ""), Own("PAGE_LIMIT_EXCEEDED", ""),
               RepeatedToken("QueryVectors"), RepeatedToken("ListVectors")} \cup AbortSeen
    <3> DEFINE m == Mismatch
               i == InvalidResponse
               v == Own("VALIDATION", "")
               p == Own("PAGE_LIMIT_EXCEEDED", "")
               q == RepeatedToken("QueryVectors")
               l == RepeatedToken("ListVectors")
               a == AbortSeen
    <3>1. OwnErrors = CASE Kind = "write" -> {m} \cup a
                          [] Kind = "embedAndWrite" -> {m, v} \cup a
                          [] Kind \in {"delete", "deleteIndex"} -> a
                          [] Kind = "query" -> {m, i, p, q}
                          [] Kind = "fetch" -> {i}
                          [] Kind = "list" -> {i, l} \cup a
                          [] Kind = "embed" -> {v}
                          [] Kind = "score" -> {}
      BY DEF OwnErrors
    <3> HIDE DEF m, i, v, p, q, l, a
    <3>2. OwnErrors \subseteq {m, i, v, p, q, l} \cup a
      BY <3>1 DEF Spending
    <3> QED
      BY <3>2 DEF m, i, v, p, q, l, a
  <2> QED
    BY <2>1
<1>4. CASE own \in {Mismatch, InvalidResponse, Own("VALIDATION", ""), Own("PAGE_LIMIT_EXCEEDED", "")}
  BY <1>1, <1>4 DEF Mismatch, InvalidResponse
<1>5. CASE own \in {RepeatedToken("QueryVectors"), RepeatedToken("ListVectors")}
  BY <1>2, <1>5
<1>6. CASE own \in AbortSeen
  BY <1>1, <1>6 DEF AbortSeen
<1> QED
  BY <1>3, <1>4, <1>5, <1>6

(* A failure that tells its source is sound in the layers of its stage.    *)
LEMMA Thrown ==
  ASSUME CallsAssumption, CallInv, pc = "awaiting", Kind \in Spending,
         NEW e, Fresh(e), NEW source, Tells(e, source), Throw(e, source),
         UNCHANGED <<call, fired, runFired, spent>>
  PROVE  CallInv'
<1>1. spent /\ Code[at].stage.kind # "check"
  BY DEF CallInv, Spends, Spending
<1>2. Sound(e, Code[at].layers, source, Code[at].operation)
  BY <1>1, Begun DEF CallInv
<1> QED
  BY <1>1, <1>2, Throws

(* So it is with what the action adds to it.                               *)
LEMMA ThrownReported ==
  ASSUME CallsAssumption, CallInv, pc = "awaiting", Kind \in Spending \ {"score"},
         NEW e, Fresh(e), NEW source, TellsFailure(e, source), NEW command, NEW batches,
         source.partial = PartialIds(batches), Throw(Reported(e, command, batches), source),
         UNCHANGED <<call, fired, runFired, spent>>
  PROVE  CallInv'
<1> DEFINE r == Reported(e, command, batches)
           ids == PartialIds(batches)
<1>1. /\ Fresh(r)
      /\ Grown(e, r)
      /\ TellsIds(r, ids)
  BY ReportedFresh
<1> HIDE DEF r, ids
<1>2. TellsFailure(r, source)
  BY <1>1, ToldGrown
<1>3. Tells(r, source)
  BY <1>1, <1>2 DEF Tells, ids
<1>4. Throw(r, source)
  BY DEF r
<1> QED
  BY <1>1, <1>3, <1>4, Thrown

(* Whatever the model, the service and the caller's functions answer keeps *)
(* the invariant.                                                          *)
LEMMA AnswerKeeps ==
  ASSUME CallsAssumption, CallInv, Answer
  PROVE  CallInv'
<1>1. /\ pc = "awaiting" /\ spent /\ Kind \in Spending /\ Kind = Code[at].stage.kind
      /\ call' = call /\ fired' = fired /\ runFired' = runFired /\ spent' = spent
  BY StageNow DEF Answer, CallInv, Spends
<1>2. CASE Answers
  <2>1. CASE Advance
    <3>1. Went(Code[at].stage)
      BY <1>1 DEF Went, Refuses, NothingToDo, NoModel, Spending
    <3> QED
      BY <1>1, <2>1, <3>1, Advances
  <2>2. CASE Resolve
    BY <1>1, <2>2, Resolves
  <2> QED
    BY <1>2, <2>1, <2>2 DEF Answers
<1>3. CASE RequestFails
  <2>1. Kind \in Spending \ {"score"}
    BY <1>3 DEF RequestFails, Requests, Spending
  <2>2. PICK raw \in RequestFailures, command \in Requests[Kind], batches \in 0..1 :
          Throw(Reported(AwsFailure(raw, command, Context), command, batches),
                  [from |-> "aws", raw |-> raw, command |-> command, partial |-> PartialIds(batches)])
    BY <1>3 DEF RequestFails
  <2> DEFINE source == [from |-> "aws", raw |-> raw, command |-> command, partial |-> PartialIds(batches)]
             e == AwsFailure(raw, command, Context)
  <2>3. /\ source.from = "aws" /\ source.raw = raw /\ source.command = command
        /\ source.partial = PartialIds(batches)
    OBVIOUS
  <2>4. Throw(Reported(e, command, batches), source)
    BY <2>2
  <2> HIDE DEF source
  <2>5. /\ Fresh(e)
        /\ TellsFailure(e, source)
    BY <2>3, AwsTold
  <2> HIDE DEF e
  <2> QED
    BY <1>1, <2>1, <2>3, <2>4, <2>5, ThrownReported
<1>4. CASE AnswerRefused
  <2>1. PICK own \in OwnErrors, batches \in 0..1 :
          Throw(IF Kind \in {"query", "list"} THEN own ELSE Reported(own, "none", batches),
                  [from |-> "package", code |-> own.code, partial |-> PartialIds(batches)])
    BY <1>4 DEF AnswerRefused
  <2> DEFINE source == [from |-> "package", code |-> own.code, partial |-> PartialIds(batches)]
  <2>2. source.from = "package" /\ source.code = own.code /\ source.partial = PartialIds(batches)
    OBVIOUS
  <2>3. Fresh(own) /\ own.code \notin Transient
    BY <1>1, OwnErrorsFresh
  <2>4. Throw(IF Kind \in {"query", "list"} THEN own ELSE Reported(own, "none", batches), source)
    BY <2>1
  <2> HIDE DEF source
  <2>5. TellsFailure(own, source)
    BY <2>2, <2>3, OwnTold
  <2>6. CASE Kind \in {"query", "list"}
    <3>1. Throw(own, source)
      BY <2>4, <2>6
    <3>2. DOMAIN PartialIds(batches) = {}
      BY <2>6, IdsCounted
    <3>3. TellsIds(own, source.partial)
      BY <2>2, <3>2 DEF TellsIds
    <3>4. Tells(own, source)
      BY <2>5, <3>3 DEF Tells
    <3> QED
      BY <1>1, <2>3, <3>1, <3>4, Thrown
  <2>7. CASE Kind \notin {"query", "list"}
    <3>1. Throw(Reported(own, "none", batches), source)
      BY <2>4, <2>7
    <3>2. Kind # "score"
      BY <2>1 DEF OwnErrors
    <3> QED
      BY <1>1, <2>2, <2>3, <2>5, <3>1, <3>2, ThrownReported
  <2> QED
    BY <2>6, <2>7
<1>5. CASE ModelFails
  <2>1. Kind \in Spending \ {"score"}
    BY <1>5 DEF ModelFails, Spending
  <2>2. PICK raw \in CallersFailures \cup {ForeignError}, batches \in 0..1 :
          Throw(Reported(WrapEmbeddingsError(raw, Context), "none", batches),
                  [from |-> IF raw = ForeignError THEN "foreign" ELSE "model", raw |-> raw,
                   partial |-> PartialIds(batches)])
    BY <1>5 DEF ModelFails
  <2> DEFINE source == [from |-> IF raw = ForeignError THEN "foreign" ELSE "model", raw |-> raw,
                        partial |-> PartialIds(batches)]
             e == WrapEmbeddingsError(raw, Context)
  <2>3. /\ source.raw = raw /\ source.partial = PartialIds(batches)
        /\ raw = ForeignError => source.from = "foreign"
        /\ raw # ForeignError => source.from = "model"
    OBVIOUS
  <2>4. Throw(Reported(e, "none", batches), source)
    BY <2>2
  <2> HIDE DEF source
  <2>5. Fresh(e) /\ TellsFailure(e, source)
    <3>1. CASE raw = ForeignError
      <4>1. /\ Fresh(WrapEmbeddingsError(ForeignError, Context))
            /\ TellsFailure(WrapEmbeddingsError(ForeignError, Context), source)
        BY <2>3, <3>1, ForeignTold
      <4> QED
        BY <3>1, <4>1
    <3>2. CASE raw # ForeignError
      <4> DEFINE operation == Now.operation
                 r == Wrapped(raw, "EMBEDDINGS_FAILED", At(operation), <<>>)
      <4>1. e = r
        BY DEF WrapEmbeddingsError, Context
      <4>2. "EMBEDDINGS_FAILED" \notin Transient /\ raw \in CallersFailures \cup {Plain(<<"TypeError">>)}
        BY <3>2 DEF Transient
      <4>3. /\ Fresh(r)
            /\ r.code = "EMBEDDINGS_FAILED"
            /\ SaidTransient(r)
            /\ \A s : s.raw = raw => Judged(r, s)
        BY <4>2, CallersTold
      <4> HIDE DEF e, r
      <4>4. Judged(r, source)
        BY <2>3, <4>3
      <4>5. TellsFailure(r, source)
        BY <2>3, <3>2, <4>3, <4>4 DEF TellsFailure
      <4> QED
        BY <4>1, <4>3, <4>5
    <3> QED
      BY <3>1, <3>2
  <2> HIDE DEF e
  <2> QED
    BY <1>1, <2>1, <2>3, <2>4, <2>5, ThrownReported
<1>6. CASE ScoreFails
  <2>1. PICK raw \in CallersFailures :
          Throw(WrapCallerError(raw, Context), [from |-> "caller", raw |-> raw])
    BY <1>6 DEF ScoreFails
  <2> DEFINE source == [from |-> "caller", raw |-> raw]
             operation == Now.operation
             r == Wrapped(raw, "UNEXPECTED_ERROR", At(operation), <<>>)
  <2>2. source.from = "caller" /\ source.raw = raw /\ "partial" \notin DOMAIN source
    OBVIOUS
  <2>3. WrapCallerError(raw, Context) = r
    BY DEF WrapCallerError, Context
  <2>4. Throw(r, source)
    BY <2>1, <2>3
  <2>5. "UNEXPECTED_ERROR" \notin Transient /\ raw \in CallersFailures \cup {Plain(<<"TypeError">>)}
    BY DEF Transient
  <2>6. /\ Fresh(r)
        /\ r.code = "UNEXPECTED_ERROR"
        /\ SaidTransient(r)
        /\ \A s : s.raw = raw => Judged(r, s)
    BY <2>5, CallersTold
  <2> HIDE DEF source, r
  <2>7. Judged(r, source)
    BY <2>2, <2>6
  <2>8. Tells(r, source)
    BY <2>2, <2>6, <2>7 DEF Tells, TellsFailure
  <2> QED
    BY <1>1, <2>4, <2>6, <2>8, Thrown
<1> QED
  BY <1>2, <1>3, <1>4, <1>5, <1>6 DEF Answer

(* The layers after the innermost.                                         *)
LEMMA OneLayerLess ==
  ASSUME NEW layers, Way(layers)
  PROVE  /\ Tail(layers) = <<>> => Head(layers).name = call.name
         /\ Tail(layers) # <<>> => Way(Tail(layers))
         /\ Instances(layers) <=> (Head(layers).kind = "instance" \/ Instances(Tail(layers)))
<1> DEFINE S == {layers[i] : i \in DOMAIN layers}
           rest == Tail(layers)
<1>1. layers \in Seq(S) /\ layers # <<>> /\ layers[Len(layers)].name = call.name
  BY DEF Way, List
<1> HIDE DEF S
<1>2. /\ Head(layers) = layers[1] /\ Len(layers) \in Nat /\ Len(layers) > 0 /\ DOMAIN layers = 1..Len(layers)
      /\ rest \in Seq(S) /\ Len(rest) = Len(layers) - 1
      /\ \A i \in 1..Len(rest) : rest[i] = layers[i + 1]
  BY <1>1, HeadTailProperties
<1> HIDE DEF rest
<1>3. List(rest) /\ DOMAIN rest = 1..Len(rest) /\ Len(rest) \in Nat
  BY <1>2, Lists
<1>4. ASSUME rest = <<>> PROVE Head(layers).name = call.name
  <2>1. Len(rest) = 0
    BY <1>4
  <2>2. Len(layers) = 1
    <3>1. Len(rest) = Len(layers) - 1 /\ Len(layers) \in Nat
      BY <1>2
    <3> QED
      BY <2>1, <3>1
  <2> QED
    BY <1>1, <1>2, <2>2
<1>5. ASSUME rest # <<>> PROVE Way(rest)
  <2>1. Len(rest) # 0
    BY <1>2, <1>5
  <2>2. rest[Len(rest)] = layers[Len(layers)]
    BY <1>2, <1>3, <2>1
  <2> QED
    BY <1>1, <1>3, <1>5, <2>2 DEF Way
<1>6. ASSUME Instances(layers) PROVE Head(layers).kind = "instance" \/ Instances(rest)
  <2>1. PICK i \in 1..Len(layers) : layers[i].kind = "instance"
    BY <1>2, <1>6 DEF Instances
  <2>2. CASE i = 1
    BY <1>2, <2>1, <2>2
  <2>3. CASE i # 1
    <3>1. i - 1 \in 1..Len(rest)
      BY <1>2, <2>3
    <3>2. rest[i - 1] = layers[i]
      BY <1>2, <3>1
    <3> QED
      BY <1>3, <2>1, <3>1, <3>2 DEF Instances
  <2> QED
    BY <2>2, <2>3
<1>7. ASSUME Head(layers).kind = "instance" \/ Instances(rest) PROVE Instances(layers)
  <2>1. CASE Head(layers).kind = "instance"
    <3>1. 1 \in DOMAIN layers /\ layers[1].kind = "instance"
      BY <1>2, <2>1
    <3> QED
      BY <3>1 DEF Instances
  <2>2. CASE Instances(rest)
    <3>1. PICK i \in 1..Len(rest) : rest[i].kind = "instance"
      BY <1>3, <2>2 DEF Instances
    <3>2. i + 1 \in DOMAIN layers /\ layers[i + 1].kind = "instance"
      BY <1>2, <3>1
    <3> QED
      BY <3>2 DEF Instances
  <2> QED
    BY <1>7, <2>1, <2>2
<1> QED
  BY <1>4, <1>5, <1>6, <1>7 DEF rest

(* A value that is no error of the package becomes one in the first layer. *)
LEMMA RawPassed ==
  ASSUME NEW layer
  PROVE  LET e == Wrapped(Raw, "UNEXPECTED_ERROR", At(layer.name), <<>>)
         IN Passed(Raw, layer) = Passed(e, layer)
<1> DEFINE e == Wrapped(Raw, "UNEXPECTED_ERROR", At(layer.name), <<>>)
           name == layer.name
<1>1. "UNEXPECTED_ERROR" \notin Transient /\ Raw \in CallersFailures \cup {Plain(<<"TypeError">>)}
  BY DEF Transient, Raw
<1>2. /\ Fresh(e)
      /\ e.context.operation = layer.name
  BY <1>1, CallersTold
<1>3. NormalizeToS3VectorsError(Raw, At(name)) = e
  BY DEF NormalizeToS3VectorsError, WrapCallerError
<1> HIDE DEF e
<1>4. NormalizeToS3VectorsError(e, At(name)) = e
  BY <1>2, Normalized DEF Fresh
<1>5. AttachOperation(Raw, name) = e
  BY <1>2, <1>3 DEF AttachOperation
<1>6. AttachOperation(e, name) = e
  BY <1>2, <1>4 DEF AttachOperation
<1>7. AttachInstance(Raw, name) = AttachInstance(e, name)
  BY <1>5, <1>6 DEF AttachInstance
<1> QED
  BY <1>5, <1>6, <1>7 DEF Passed, e

(* A sound failure that passes through a layer is sound.                   *)
LEMMA OnePassed ==
  ASSUME NEW e, NEW layers, NEW source, NEW operation, layers # <<>>,
         Sound(e, layers, source, operation)
  PROVE  Sound(Passed(e, Head(layers)), Tail(layers), source, operation)
<1> DEFINE layer == Head(layers)
           rest == Tail(layers)
           r == Passed(e, layer)
<1>1. Way(layers)
  BY DEF Sound
<1>2. /\ rest = <<>> => layer.name = call.name
      /\ rest # <<>> => Way(rest)
      /\ Instances(layers) <=> (layer.kind = "instance" \/ Instances(rest))
  BY <1>1, OneLayerLess
<1>3. ASSUME NEW f, Shaped(f), Tells(f, source), r = Passed(f, layer),
             Instances(layers) \/ "instance" \in DOMAIN f.context <=> OfFactory(operation)
      PROVE  Sound(r, rest, source, operation)
  <2> DEFINE g == Passed(f, layer)
  <2>1. /\ Shaped(g)
        /\ SameNews(f, g)
        /\ g.context.operation = layer.name
        /\ "instance" \in DOMAIN g.context <=>
             "instance" \in DOMAIN f.context \/ layer.kind = "instance"
    BY <1>3, LayerPassed
  <2> HIDE DEF g, layer, rest, r
  <2>2. Tells(g, source)
    BY <1>3, <2>1, ToldOn
  <2>3. Sound(g, rest, source, operation)
    BY <1>2, <1>3, <2>1, <2>2 DEF Sound
  <2> QED
    BY <1>3, <2>3 DEF g
<1>4. CASE Shaped(e) /\ Tells(e, source)
           /\ (Instances(layers) \/ "instance" \in DOMAIN e.context <=> OfFactory(operation))
  BY <1>3, <1>4
<1>5. CASE /\ e = Raw
           /\ source.from = "caller" /\ source.raw = Raw /\ "partial" \notin DOMAIN source
           /\ Instances(layers) <=> OfFactory(operation)
  <2> DEFINE f == Wrapped(Raw, "UNEXPECTED_ERROR", At(layer.name), <<>>)
  <2>1. "UNEXPECTED_ERROR" \notin Transient /\ Raw \in CallersFailures \cup {Plain(<<"TypeError">>)}
    BY DEF Transient, Raw
  <2>2. /\ Fresh(f)
        /\ f.code = "UNEXPECTED_ERROR"
        /\ SaidTransient(f)
        /\ \A s : s.raw = Raw => Judged(f, s)
    BY <2>1, CallersTold
  <2>3. r = Passed(f, layer)
    BY <1>5, RawPassed
  <2> HIDE DEF f
  <2>4. Judged(f, source)
    BY <1>5, <2>2
  <2>5. Tells(f, source)
    BY <1>5, <2>2, <2>4 DEF Tells, TellsFailure
  <2>6. Shaped(f) /\ "instance" \notin DOMAIN f.context
    BY <2>2 DEF Fresh
  <2> QED
    BY <1>3, <1>5, <2>3, <2>5, <2>6
<1> QED
  BY <1>4, <1>5 DEF Sound

(* Passing a layer keeps the invariant.                                    *)
LEMMA PassLayerKeeps ==
  ASSUME CallsAssumption, CallInv, PassLayer
  PROVE  CallInv'
<1>1. /\ pc = "unwinding" /\ pc' = pc /\ ahead # <<>>
      /\ thrown' = Passed(thrown, Head(ahead)) /\ ahead' = Tail(ahead) /\ origin' = origin
      /\ call' = call /\ at' = at /\ spent' = spent /\ fired' = fired
      /\ runFired' = runFired /\ outcome' = outcome
  BY DEF PassLayer
<1>2. /\ Code' = Code
      /\ \A x : Went(x)' <=> Went(x)
      /\ \A x, s : StoppedBy(x, s)' <=> StoppedBy(x, s)
      /\ \A f, layers, s, operation : Sound(f, layers, s, operation)' <=> Sound(f, layers, s, operation)
  BY <1>1, CallKept
<1>3. at \in Nat
  BY CodeCounted DEF CallInv, OnCourse
<1>4. OnCourse'
  BY <1>1, <1>2 DEF CallInv, OnCourse
<1>5. Spends'
  BY <1>1, <1>2 DEF CallInv, Spends
<1>6. outcome' = Pending' \/ Lost'
  <2>1. outcome = Pending \/ Lost
    BY <1>1 DEF CallInv
  <2>2. CASE outcome = Pending
    BY <1>1, <2>2 DEF Pending
  <2>3. CASE Lost
    BY <1>1, <1>3, <2>3, LostKept
  <2> QED
    BY <2>1, <2>2, <2>3
<1>7. Failing'
  <2> DEFINE operation == Code[at].operation
             e == Passed(thrown, Head(ahead))
  <2>1. Sound(thrown, ahead, origin, operation) /\ (spent \/ StoppedBy(Code[at].stage, origin))
    BY <1>1 DEF CallInv, Failing
  <2>2. Sound(e, Tail(ahead), origin, operation)
    BY <1>1, <2>1, OnePassed
  <2> HIDE DEF e
  <2>3. thrown' = e
    BY <1>1 DEF e
  <2> QED
    BY <1>1, <1>2, <2>1, <2>2, <2>3 DEF Failing
<1> QED
  BY <1>1, <1>4, <1>5, <1>6, <1>7 DEF CallInv

(* So does rejecting the call.                                             *)
LEMMA RejectKeeps ==
  ASSUME CallsAssumption, CallInv, Reject
  PROVE  CallInv'
<1>1. /\ pc = "unwinding" /\ pc' = "over" /\ ahead = <<>>
      /\ outcome' = (IF outcome = Pending THEN thrown ELSE outcome)
      /\ thrown' = thrown /\ ahead' = ahead /\ origin' = origin
      /\ call' = call /\ at' = at /\ spent' = spent /\ fired' = fired
      /\ runFired' = runFired
  BY DEF Reject, failure
<1>2. /\ Code' = Code
      /\ \A x : Went(x)' <=> Went(x)
      /\ \A x, s : StoppedBy(x, s)' <=> StoppedBy(x, s)
      /\ \A f, layers, s, operation : Sound(f, layers, s, operation)' <=> Sound(f, layers, s, operation)
  BY <1>1, CallKept
<1>3. at \in Nat
  BY CodeCounted DEF CallInv, OnCourse
<1>4. OnCourse'
  BY <1>1, <1>2 DEF CallInv, OnCourse
<1>5. Spends'
  BY <1>1, <1>2 DEF CallInv, Spends
<1>6. outcome' = thrown' \/ Lost'
  <2>1. CASE outcome = Pending
    BY <1>1, <2>1
  <2>2. CASE outcome # Pending
    <3>1. Lost /\ outcome' = outcome
      BY <1>1, <2>2 DEF CallInv
    <3> QED
      BY <1>1, <1>3, <3>1, LostKept
  <2> QED
    BY <2>1, <2>2
<1>7. Failing'
  BY <1>1, <1>2 DEF CallInv, Failing
<1>8. Replied'
  BY <1>1, <1>6, <1>7 DEF Replied
<1> QED
  BY <1>1, <1>4, <1>5, <1>8 DEF CallInv

(* So does losing the race.                                                *)
LEMMA RaceKeeps ==
  ASSUME CallsAssumption, CallInv, RaceAborts
  PROVE  CallInv'
<1>1. /\ Racing /\ runFired /\ outcome = Pending
      /\ outcome' = S3VectorsError("ABORTED", call.name, At(call.name), NoError)
      /\ thrown' = thrown /\ ahead' = ahead /\ origin' = origin /\ pc' = pc
      /\ call' = call /\ at' = at /\ spent' = spent /\ fired' = fired
      /\ runFired' = runFired
  BY DEF RaceAborts, failure
<1>2. /\ Code' = Code
      /\ RaceError' = RaceError
      /\ \A x : Went(x)' <=> Went(x)
      /\ \A x : NothingToDo(x)' <=> NothingToDo(x)
      /\ \A x, s : StoppedBy(x, s)' <=> StoppedBy(x, s)
      /\ \A f, layers, s, operation : Sound(f, layers, s, operation)' <=> Sound(f, layers, s, operation)
  BY <1>1, CallKept
<1>3. Lost'
  <2>1. Racing'
    BY <1>1, <1>2 DEF Racing
  <2>2. outcome' = RaceError
    BY <1>1 DEF RaceError
  <2> QED
    BY <1>1, <1>2, <2>1, <2>2 DEF Lost
<1>4. OnCourse'
  BY <1>1, <1>2 DEF CallInv, OnCourse
<1>5. Spends'
  BY <1>1, <1>2 DEF CallInv, Spends
<1>6. pc = "unwinding" => Failing'
  BY <1>1, <1>2 DEF CallInv, Failing
<1>7. pc = "over" => Replied'
  <2>1. Ended => Ended'
    BY <1>1, <1>2 DEF Ended
  <2>2. Failing => Failing'
    BY <1>1, <1>2 DEF Failing
  <2>3. pc = "over" => Replied
    BY DEF CallInv
  <2>4. Replied => Replied'
    BY <1>1, <1>3, <2>1, <2>2 DEF Replied
  <2> QED
    BY <2>3, <2>4
<1> QED
  BY <1>1, <1>3, <1>4, <1>5, <1>6, <1>7 DEF CallInv

(* A signal fires while something is awaited or a failure is on its way.   *)
LEMMA SignalsKeep ==
  ASSUME CallsAssumption, CallInv,
         UNCHANGED <<call, pc, at, spent, thrown, ahead, origin, outcome>>,
         runFired => runFired', fired' => fired \/ pc \in {"awaiting", "unwinding"}
  PROVE  CallInv'
<1>1. /\ outcome' = outcome
      /\ thrown' = thrown /\ ahead' = ahead /\ origin' = origin /\ pc' = pc
      /\ call' = call /\ at' = at /\ spent' = spent
  OBVIOUS
<1>2. /\ Code' = Code
      /\ \A x : Went(x)' <=> Went(x)
      /\ \A x : NothingToDo(x)' <=> NothingToDo(x)
      /\ \A x, s : StoppedBy(x, s)' <=> StoppedBy(x, s)
      /\ \A f, layers, s, operation : Sound(f, layers, s, operation)' <=> Sound(f, layers, s, operation)
  BY <1>1, CallKept
<1>3. at \in Nat
  BY CodeCounted DEF CallInv, OnCourse
<1>4. Lost => Lost'
  BY <1>1, <1>3, LostKept
<1>5. OnCourse'
  BY <1>1, <1>2 DEF CallInv, OnCourse
<1>6. Spends'
  BY <1>1, <1>2 DEF CallInv, Spends
<1>7. Failing => Failing'
  BY <1>1, <1>2 DEF Failing
<1>8. Ended => Ended'
  BY <1>1, <1>2 DEF Ended
<1>9. Pending' = Pending /\ Resolved' = Resolved
  BY DEF Pending, Resolved
<1>10. Replied => Replied'
  BY <1>1, <1>4, <1>7, <1>8, <1>9 DEF Replied
<1> QED
  BY <1>1, <1>4, <1>5, <1>6, <1>7, <1>9, <1>10 DEF CallInv

(* A call begins on its course.                                            *)
LEMMA CallInvInit == CallsAssumption /\ Init => CallInv
<1> SUFFICES ASSUME CallsAssumption, Init PROVE CallInv
  OBVIOUS
<1>1. call \in Calls /\ fired = FALSE /\ pc = "running" /\ at = 1 /\ spent = FALSE
      /\ outcome = Pending
  BY DEF Init
<1>2. 1 \in DOMAIN Code
  <2>1. List(Code) /\ Ordered(StagesOf(Code))
    BY <1>1, CodeInOrder
  <2>2. DOMAIN StagesOf(Code) = DOMAIN Code
    BY <2>1, StagesList
  <2> QED
    BY <2>1, <2>2 DEF Ordered
<1>3. OnCourse
  BY <1>1, <1>2 DEF OnCourse
<1>4. Spends
  BY <1>1 DEF Spends
<1> QED
  BY <1>1, <1>3, <1>4 DEF CallInv

(* Every step keeps it there.                                              *)
LEMMA CallInvNext == CallsAssumption /\ CallInv /\ [Next]_vars => CallInv'
<1> SUFFICES ASSUME CallsAssumption, CallInv, [Next]_vars PROVE CallInv'
  OBVIOUS
<1>1. CASE EventLoop
  BY <1>1, RunKeeps, PassLayerKeeps, RejectKeeps, RaceKeeps DEF EventLoop
<1>2. CASE Answer
  BY <1>2, AnswerKeeps
<1>3. CASE Fire
  BY <1>3, SignalsKeep DEF Fire, failure
<1>4. CASE RunFires
  BY <1>4, SignalsKeep DEF RunFires, failure
<1>5. CASE UNCHANGED vars
  BY <1>5, SignalsKeep DEF vars, failure
<1> QED
  BY <1>1, <1>2, <1>3, <1>4, <1>5 DEF Next

-----------------------------------------------------------------------------
(* What the caller is given                                                *)

(* Every stage of the call's program is one it is not stopped at.          *)
NothingWrong == \A i \in DOMAIN Code : Went(Code[i].stage)

(* The order of the stages, by their numbers.                              *)
LEMMA InOrder ==
  ASSUME CallsAssumption, OnCourse
  PROVE  /\ DOMAIN Code = 1..Len(Code) /\ Len(Code) \in Nat /\ at \in Nat
         /\ \A i, j \in DOMAIN Code : i < j => Precedes(Code[i].stage, Code[j].stage)
         /\ \A i \in DOMAIN Code : Code[i].stage.kind \notin {"check", "race", "signal"} =>
              \E k \in 1..(i - 1) : Code[k].stage.kind = "signal"
         /\ \A i \in DOMAIN Code :
              Code[i].stage.kind = "race" => Value("signal") \notin NotASignal
<1> DEFINE s == StagesOf(Code)
<1>1. List(Code) /\ Ordered(s)
  BY CodeInOrder DEF OnCourse
<1>2. DOMAIN s = DOMAIN Code /\ \A i \in DOMAIN Code : s[i] = Code[i].stage
  BY DEF StagesOf
<1>3. DOMAIN Code = 1..Len(Code) /\ Len(Code) \in Nat
  BY <1>1, Joined
<1>4. at \in Nat
  BY <1>3 DEF OnCourse
<1> HIDE DEF s
<1>5. \A i \in DOMAIN s : s[i].kind \notin {"check", "race", "signal"} =>
         \E k \in 1..(i - 1) : s[k].kind = "signal"
  BY <1>1 DEF Ordered
<1>6. \A i \in DOMAIN Code : \A k \in 1..(i - 1) : s[k] = Code[k].stage
  BY <1>2, <1>3
<1>7. \A i \in DOMAIN Code : Code[i].stage.kind \notin {"check", "race", "signal"} =>
         \E k \in 1..(i - 1) : Code[k].stage.kind = "signal"
  BY <1>2, <1>5, <1>6
<1>8. \A i, j \in DOMAIN s : i < j => Precedes(s[i], s[j])
  BY <1>1 DEF Ordered
<1>9. \A i \in DOMAIN s : s[i].kind = "race" => Value("signal") \notin NotASignal
  BY <1>1 DEF Ordered
<1> QED
  BY <1>2, <1>3, <1>4, <1>7, <1>8, <1>9

(* A call that is past its checks had a signal it could use.               *)
LEMMA PastTheSignal ==
  ASSUME CallsAssumption, OnCourse, NEW i \in 1..at,
         Code[i].stage.kind \notin {"check", "race", "signal"}
  PROVE  /\ Value("signal") \notin NotASignal /\ Value("signal") # "fired"
         /\ \A j \in DOMAIN Code : ~Refuses(Code[j].stage)
         /\ \A j \in DOMAIN Code :
              Code[j].stage.kind = "race" => Value("runSignal") # "fired"
<1>1. i \in DOMAIN Code /\ at \in DOMAIN Code
  BY InOrder DEF OnCourse
<1>2. PICK k \in 1..(i - 1) : Code[k].stage.kind = "signal"
  BY <1>1, InOrder
<1>3. k \in 1..(at - 1)
  BY InOrder
<1>4. Went(Code[k].stage)
  BY <1>3 DEF OnCourse
<1>5. Value("signal") \notin NotASignal /\ Value("signal") # "fired"
  BY <1>2, <1>4 DEF Went
<1>6. ~Refuses(Code[i].stage)
  BY DEF Refuses
<1>7. ASSUME NEW j \in DOMAIN Code, j > i
      PROVE  ~Refuses(Code[j].stage) /\ Code[j].stage.kind # "race"
  <2>1. Precedes(Code[i].stage, Code[j].stage)
    BY <1>1, <1>7, InOrder
  <2> QED
    BY <2>1 DEF Precedes
<1>8. ASSUME NEW j \in DOMAIN Code, j < i
      PROVE  Went(Code[j].stage)
  <2>1. j \in 1..(at - 1)
    BY <1>8, InOrder
  <2> QED
    BY <2>1 DEF OnCourse
<1>9. ASSUME NEW j \in DOMAIN Code
      PROVE  /\ ~Refuses(Code[j].stage)
             /\ Code[j].stage.kind = "race" => Value("runSignal") # "fired"
  <2>1. j < i \/ j = i \/ j > i
    <3>1. j \in Nat /\ i \in Nat
      BY InOrder
    <3> QED
      BY <3>1
  <2>2. CASE j < i
    BY <1>8, <2>2 DEF Went
  <2>3. CASE j = i
    BY <1>6, <2>3
  <2>4. CASE j > i
    BY <1>7, <2>4
  <2> QED
    BY <2>1, <2>2, <2>3, <2>4
<1> QED
  BY <1>5, <1>6, <1>9

(* A call that has spent something was wrong nowhere.                      *)
LEMMA SpentWell ==
  ASSUME CallsAssumption, OnCourse, Spends, spent
  PROVE  NothingWrong
<1>1. PICK i \in 1..at : Code[i].stage.kind \in Spending
  BY DEF Spends
<1>2. Code[i].stage.kind \notin {"check", "race", "signal", "empty", "model"}
  BY <1>1 DEF Spending
<1>3. i \in DOMAIN Code /\ at \in DOMAIN Code /\ i \in Nat
  BY InOrder DEF OnCourse
<1>4. /\ Value("signal") \notin NotASignal /\ Value("signal") # "fired"
      /\ \A j \in DOMAIN Code : ~Refuses(Code[j].stage)
      /\ \A j \in DOMAIN Code :
           Code[j].stage.kind = "race" => Value("runSignal") # "fired"
  BY <1>2, PastTheSignal
<1>5. ASSUME NEW j \in DOMAIN Code
      PROVE  Went(Code[j].stage)
  <2>1. j \in Nat
    BY InOrder
  <2>2. CASE j < i
    <3>1. j \in 1..(at - 1)
      BY <2>1, <2>2, InOrder
    <3> QED
      BY <3>1 DEF OnCourse
  <2>3. CASE j = i
    <3>1. ~NothingToDo(Code[j].stage) /\ ~NoModel(Code[j].stage)
      BY <1>2, <2>3 DEF NothingToDo, NoModel
    <3> QED
      BY <1>4, <3>1 DEF Went
  <2>4. CASE j > i
    <3>1. Precedes(Code[i].stage, Code[j].stage)
      BY <1>3, <2>4, InOrder
    <3>2. ~NothingToDo(Code[j].stage) /\ ~NoModel(Code[j].stage)
      BY <1>2, <3>1 DEF Precedes
    <3> QED
      BY <1>4, <3>2 DEF Went
  <2> QED
    BY <1>3, <2>1, <2>2, <2>3, <2>4
<1> QED
  BY <1>5 DEF NothingWrong

(* A call that ended well was wrong nowhere, or had nothing to do and was  *)
(* in no race.                                                             *)
LEMMA EndedWell ==
  ASSUME CallsAssumption, OnCourse, Ended
  PROVE  \/ NothingWrong
         \/ /\ ~Racing
            /\ Has("empty") /\ Value("items") = "none"
            /\ ~Unusable /\ ~AlreadyFired
<1>1. at \in DOMAIN Code /\ at \in Nat /\ at >= 1
  BY InOrder DEF OnCourse
<1>2. CASE at = Len(Code) /\ Went(Code[at].stage)
  <2>1. ASSUME NEW j \in DOMAIN Code
        PROVE  Went(Code[j].stage)
    <3>1. j \in 1..(at - 1) \/ j = at
      BY <1>1, <1>2, InOrder
    <3> QED
      BY <1>2, <3>1 DEF OnCourse
  <2> QED
    BY <2>1 DEF NothingWrong
<1>3. CASE NothingToDo(Code[at].stage)
  <2>1. Code[at].stage.kind = "empty" /\ Value("items") = "none"
    BY <1>3 DEF NothingToDo
  <2>2. at \in 1..at /\ Code[at].stage.kind \notin {"check", "race", "signal"}
    BY <1>1, <2>1
  <2>3. /\ Value("signal") \notin NotASignal /\ Value("signal") # "fired"
        /\ \A j \in DOMAIN Code : ~Refuses(Code[j].stage)
        /\ \A j \in DOMAIN Code :
             Code[j].stage.kind = "race" => Value("runSignal") # "fired"
    BY <2>2, PastTheSignal
  <2>4. ~Unusable
    BY <2>3 DEF Unusable, Refuses
  <2>5. ~AlreadyFired
    BY <2>3 DEF AlreadyFired, Has
  <2>6. Has("empty")
    BY <1>1, <2>1 DEF Has
  <2>7. ASSUME NEW i \in 1..(at - 1)
        PROVE  Code[i].stage.kind # "race"
    <3>1. i \in DOMAIN Code /\ i < at
      BY <1>1, InOrder
    <3>2. Precedes(Code[i].stage, Code[at].stage)
      BY <1>1, <3>1, InOrder
    <3> QED
      BY <1>3, <3>2 DEF Precedes
  <2>8. ~Racing
    BY <2>7 DEF Racing
  <2> QED
    BY <2>1, <2>4, <2>5, <2>6, <2>8
<1> QED
  BY <1>2, <1>3 DEF Ended

(* A call stopped before it spent anything was stopped by what comes first *)
(* of all that is wrong with it.                                           *)
LEMMA StoppedInOrder ==
  ASSUME CallsAssumption, OnCourse, NEW source, StoppedBy(Code[at].stage, source)
  PROVE  \/ /\ Unusable /\ ~Racing
            /\ \/ source.from = "caller"
               \/ source.from = "package" /\ source.code \in {"VALIDATION", "INDEX_CONFIG_MISMATCH"}
         \/ /\ ~Unusable /\ AlreadyFired
            /\ source.from = "package" /\ source.code = "ABORTED"
         \/ /\ ~Unusable /\ ~AlreadyFired
            /\ ~(Has("empty") /\ Value("items") = "none")
            /\ Has("model") /\ Value("model") = "stub"
            /\ source.from = "package" /\ source.code = "EMBEDDINGS_MISSING"
<1> DEFINE x == Code[at].stage
<1>1. at \in DOMAIN Code /\ at \in Nat /\ at >= 1 /\ \A j \in DOMAIN Code : j \in Nat
  BY InOrder DEF OnCourse
<1>2. ASSUME NEW j \in DOMAIN Code, j < at
      PROVE  Went(Code[j].stage) /\ Precedes(Code[j].stage, x)
  <2>1. j \in 1..(at - 1)
    BY <1>1, <1>2, InOrder
  <2>2. Precedes(Code[j].stage, Code[at].stage)
    BY <1>1, <1>2, InOrder
  <2> QED
    BY <2>1, <2>2 DEF OnCourse
<1>3. ASSUME NEW j \in DOMAIN Code, j > at
      PROVE  Precedes(x, Code[j].stage)
  BY <1>1, <1>3, InOrder
<1> HIDE DEF x
<1>4. CASE /\ Refuses(x)
           /\ \/ source.from = "caller"
              \/ source.from = "package" /\ source.code \in {"VALIDATION", "INDEX_CONFIG_MISMATCH"}
  <2>1. Unusable
    BY <1>1, <1>4 DEF Unusable, Refuses, x
  <2>2. \A j \in DOMAIN Code : j < at => Code[j].stage.kind = "check"
    BY <1>2, <1>4 DEF Precedes
  <2>3. ~Racing
    <3>1. \A j \in 1..(at - 1) : j \in DOMAIN Code /\ j < at
      BY <1>1, InOrder
    <3> QED
      BY <2>2, <3>1 DEF Racing
  <2> QED
    BY <1>4, <2>1, <2>3
<1>5. CASE /\ x.kind = "signal" /\ Value("signal") \in NotASignal
           /\ source.from = "package" /\ source.code = "VALIDATION"
  <2>1. Has("signal") /\ Unusable
    BY <1>1, <1>5 DEF Unusable, Has, x
  <2>2. \A j \in DOMAIN Code : Code[j].stage.kind # "race"
    BY <1>5, InOrder
  <2>3. ~Racing
    <3>1. \A j \in 1..(at - 1) : j \in DOMAIN Code
      BY <1>1, InOrder
    <3> QED
      BY <2>2, <3>1 DEF Racing
  <2> QED
    BY <1>5, <2>1, <2>3
<1>6. ASSUME x.kind # "check"
      PROVE  \A j \in DOMAIN Code : ~Refuses(Code[j].stage)
  <2>1. ASSUME NEW j \in DOMAIN Code
        PROVE  ~Refuses(Code[j].stage)
    <3>1. CASE j < at
      BY <1>2, <3>1 DEF Went
    <3>2. CASE j = at
      BY <1>6, <3>2 DEF Refuses, x
    <3>3. CASE j > at
      <4>1. Precedes(x, Code[j].stage)
        BY <1>3, <3>3
      <4> QED
        BY <1>6, <4>1 DEF Precedes
    <3> QED
      BY <1>1, <3>1, <3>2, <3>3
  <2> QED
    BY <2>1
<1>7. CASE /\ x.kind = "signal" /\ Value("signal") = "fired"
           /\ source.from = "package" /\ source.code = "ABORTED"
  <2>1. Has("signal")
    BY <1>1, <1>7 DEF Has, x
  <2>2. Value("signal") \notin NotASignal
    BY <1>7 DEF NotASignal
  <2>3. ~Unusable
    BY <1>6, <1>7, <2>2 DEF Unusable, Refuses
  <2> QED
    BY <1>7, <2>1, <2>3 DEF AlreadyFired
<1>8. CASE /\ x.kind = "race" /\ Value("runSignal") = "fired"
           /\ source.from = "package" /\ source.code = "ABORTED"
  <2>1. Has("race")
    BY <1>1, <1>8 DEF Has, x
  <2>2. Value("signal") \notin NotASignal
    BY <1>1, <1>8, InOrder DEF x
  <2>3. ~Unusable
    BY <1>6, <1>8, <2>2 DEF Unusable, Refuses
  <2> QED
    BY <1>8, <2>1, <2>3 DEF AlreadyFired
<1>9. CASE NoModel(x) /\ source.from = "package" /\ source.code = "EMBEDDINGS_MISSING"
  <2>1. x.kind = "model" /\ Value("model") = "stub"
    BY <1>9 DEF NoModel
  <2>2. at \in 1..at /\ Code[at].stage.kind \notin {"check", "race", "signal"}
    BY <1>1, <2>1 DEF x
  <2>3. /\ Value("signal") \notin NotASignal /\ Value("signal") # "fired"
        /\ \A j \in DOMAIN Code :
             Code[j].stage.kind = "race" => Value("runSignal") # "fired"
    BY <2>2, PastTheSignal
  <2>4. ~Unusable
    BY <1>6, <2>1, <2>3 DEF Unusable, Refuses
  <2>5. ~AlreadyFired
    BY <2>3 DEF AlreadyFired, Has
  <2>6. Has("model")
    BY <1>1, <2>1 DEF Has, x
  <2>7. ASSUME NEW j \in DOMAIN Code
        PROVE  ~NothingToDo(Code[j].stage)
    <3>1. CASE j < at
      BY <1>2, <3>1 DEF Went
    <3>2. CASE j = at
      BY <2>1, <3>2 DEF NothingToDo, x
    <3>3. CASE j > at
      <4>1. Precedes(x, Code[j].stage)
        BY <1>3, <3>3
      <4> QED
        BY <2>1, <4>1 DEF Precedes
    <3> QED
      BY <1>1, <3>1, <3>2, <3>3
  <2>8. ~(Has("empty") /\ Value("items") = "none")
    BY <2>7 DEF Has, NothingToDo
  <2> QED
    BY <1>9, <2>1, <2>4, <2>5, <2>6, <2>8
<1>10. \/ Refuses(x) /\ source.from = "caller"
       \/ source.from = "package" /\
            \/ Refuses(x) /\ source.code \in {"VALIDATION", "INDEX_CONFIG_MISMATCH"}
            \/ x.kind = "signal" /\ Value("signal") \in NotASignal /\ source.code = "VALIDATION"
            \/ x.kind = "signal" /\ Value("signal") = "fired" /\ source.code = "ABORTED"
            \/ x.kind = "race" /\ Value("runSignal") = "fired" /\ source.code = "ABORTED"
            \/ NoModel(x) /\ source.code = "EMBEDDINGS_MISSING"
  BY DEF StoppedBy, x
<1> QED
  BY <1>4, <1>5, <1>7, <1>8, <1>9, <1>10

(* What is wrong nowhere is none of what OneOrder lists.                   *)
LEMMA NothingWrongMeans ==
  ASSUME NothingWrong
  PROVE  /\ ~Unusable /\ ~AlreadyFired
         /\ ~(Has("empty") /\ Value("items") = "none")
         /\ ~(Has("model") /\ Value("model") = "stub")
<1>1. ~Unusable
  BY DEF NothingWrong, Went, Unusable, Has, Refuses
<1>2. ~AlreadyFired
  BY DEF NothingWrong, Went, AlreadyFired, Has
<1>3. ~(Has("empty") /\ Value("items") = "none")
  BY DEF NothingWrong, Went, Has, NothingToDo
<1>4. ~(Has("model") /\ Value("model") = "stub")
  BY DEF NothingWrong, Went, Has, NoModel
<1> QED
  BY <1>1, <1>2, <1>3, <1>4

(* An error of the package can be told from a value.                       *)
LEMMA ShapedIsError ==
  ASSUME NEW e, Shaped(e)
  PROVE  IsError(e)
<1>1. "code" \in DOMAIN e
  BY Normalized DEF IsS3VectorsError
<1> QED
  BY <1>1 DEF IsError

(* A race that is lost is answered with ABORTED.                           *)
LEMMA LostAborted ==
  ASSUME Lost
  PROVE  IsError(outcome) /\ outcome.code = "ABORTED" /\ runFired /\ Racing
BY DEF Lost, RaceError, S3VectorsError, IsError

(* A result is no error.                                                   *)
LEMMA ResolvedNoError == ~IsError(Resolved)
BY DEF IsError, Resolved

(* A failure that is out of its layers is what the caller is to be told.   *)
LEMMA FailedOut ==
  ASSUME Failing, ahead = <<>>
  PROVE  /\ Shaped(thrown)
         /\ Tells(thrown, origin)
         /\ thrown.context["operation"] = call.name
         /\ "instance" \in DOMAIN thrown.context <=> OfFactory(Now.operation)
         /\ spent \/ StoppedBy(Code[at].stage, origin)
<1>1. Sound(thrown, ahead, origin, Code[at].operation) /\ (spent \/ StoppedBy(Code[at].stage, origin))
  BY DEF Failing
<1>2. Shaped(thrown) /\ Tells(thrown, origin)
  BY <1>1 DEF Sound
<1>3. thrown.context["operation"] = call.name
  BY <1>1 DEF Sound
<1>4. Instances(ahead) \/ "instance" \in DOMAIN thrown.context <=> OfFactory(Code[at].operation)
  BY <1>1 DEF Sound
<1>5. "instance" \in DOMAIN thrown.context <=> OfFactory(Now.operation)
  BY <1>4, NoInstance DEF Now
<1> QED
  BY <1>1, <1>2, <1>3, <1>5

(* The failure of a call that is over, unless it lost a race.              *)
LEMMA Reporting ==
  ASSUME CallInv, Reports
  PROVE  outcome = thrown /\ ahead = <<>> /\ Failing
<1>1. pc = "over" /\ IsError(outcome) /\ ~(runFired /\ outcome.code = "ABORTED")
  BY DEF Reports
<1>2. Replied
  BY <1>1 DEF CallInv
<1>3. ~Lost
  BY <1>1, LostAborted
<1>4. outcome # Resolved
  BY <1>1, ResolvedNoError
<1> QED
  BY <1>2, <1>3, <1>4 DEF Replied

(* The one order follows from the invariant.                               *)
LEMMA OrderKept == CallsAssumption /\ CallInv => OneOrder
<1> SUFFICES ASSUME CallsAssumption, CallInv
             PROVE  OneOrder
  OBVIOUS
<1>1. OnCourse /\ Spends /\ (pc = "over" => Replied)
  BY DEF CallInv
<1>2. spent => NothingWrong
  BY <1>1, SpentWell
<1> DEFINE none == Has("empty") /\ Value("items") = "none"
           stub == Has("model") /\ Value("model") = "stub"
           fails(codes) == ~spent /\ Over(IsError(outcome) /\ outcome.code \in codes)
<1>3. ASSUME ~spent, pc = "over", (outcome = Resolved \/ Lost) /\ Ended
      PROVE  OneOrder
  <2>1. CASE NothingWrong
    BY <2>1, NothingWrongMeans DEF OneOrder
  <2>2. CASE ~Racing /\ none /\ ~Unusable /\ ~AlreadyFired
    <3>1. outcome = Resolved
      BY <1>3, <2>2, LostAborted
    <3> QED
      BY <1>3, <2>2, <3>1 DEF OneOrder, Over
  <2> QED
    BY <1>1, <1>3, <2>1, <2>2, EndedWell
<1>4. ASSUME ~spent, pc = "over", outcome = thrown \/ Lost, ahead = <<>>, Failing
      PROVE  OneOrder
  <2>1. Shaped(thrown) /\ Tells(thrown, origin) /\ StoppedBy(Code[at].stage, origin)
    BY <1>4, FailedOut
  <2>2. IsError(thrown)
    BY <2>1, ShapedIsError
  <2>3. /\ origin.from = "caller" => thrown.code = "UNEXPECTED_ERROR"
        /\ origin.from = "package" => thrown.code = origin.code
    BY <2>1 DEF Tells, TellsFailure
  <2>4. Lost => IsError(outcome) /\ outcome.code = "ABORTED" /\ runFired /\ Racing
    BY LostAborted
  <2>5. /\ IsError(outcome)
        /\ \/ outcome.code = thrown.code
           \/ outcome.code = "ABORTED" /\ runFired /\ Racing
    <3>1. CASE Lost
      BY <2>4, <3>1
    <3>2. CASE outcome = thrown
      BY <2>2, <3>2 DEF IsError
    <3> QED
      BY <1>4, <3>1, <3>2
  <2>6. CASE /\ Unusable /\ ~Racing
             /\ \/ origin.from = "caller"
                \/ origin.from = "package" /\ origin.code \in {"VALIDATION", "INDEX_CONFIG_MISMATCH"}
    <3>1. Fails({"VALIDATION", "INDEX_CONFIG_MISMATCH", "UNEXPECTED_ERROR"})
      BY <1>4, <2>3, <2>5, <2>6 DEF Fails, Over
    <3> QED
      BY <2>6, <3>1 DEF OneOrder
  <2>7. CASE ~Unusable /\ AlreadyFired /\ origin.from = "package" /\ origin.code = "ABORTED"
    <3>1. Fails({"ABORTED"})
      BY <1>4, <2>3, <2>5, <2>7 DEF Fails, Over
    <3> QED
      BY <2>7, <3>1 DEF OneOrder
  <2>8. CASE /\ ~Unusable /\ ~AlreadyFired /\ ~none /\ stub
             /\ origin.from = "package" /\ origin.code = "EMBEDDINGS_MISSING"
    <3>1. outcome.code \in {"EMBEDDINGS_MISSING"} \cup Raced
      BY <2>3, <2>5, <2>8 DEF Raced
    <3>2. Fails({"EMBEDDINGS_MISSING"} \cup Raced)
      BY <1>4, <2>5, <3>1 DEF Fails, Over
    <3> QED
      BY <2>8, <3>2 DEF OneOrder
  <2> QED
    BY <1>1, <2>1, <2>6, <2>7, <2>8, StoppedInOrder
<1>5. CASE spent
  BY <1>2, <1>5, NothingWrongMeans DEF OneOrder
<1>6. CASE ~spent /\ pc # "over"
  BY <1>6 DEF OneOrder, Fails, Over
<1>7. CASE ~spent /\ pc = "over"
  BY <1>1, <1>3, <1>4, <1>7 DEF Replied
<1> QED
  BY <1>5, <1>6, <1>7

(* So does what the caller is told.                                        *)
LEMMA FaithKept == CallInv => ErrorFaithful
<1> SUFFICES ASSUME CallInv, Reports
             PROVE  ErrorFaithful
  BY DEF ErrorFaithful
<1>1. outcome = thrown /\ ahead = <<>> /\ Failing
  BY Reporting
<1>2. Shaped(thrown) /\ Tells(thrown, origin) /\ thrown.context["operation"] = call.name
  BY <1>1, FailedOut
<1>3. outcome.context.operation = call.name /\ outcome.lead \in {"", call.name}
  BY <1>1, <1>2 DEF Shaped
<1>4. TellsFailure(outcome, origin)
  BY <1>1, <1>2 DEF Tells
<1> QED
  BY <1>3, <1>4 DEF ErrorFaithful, TellsFailure, Judged

(* So do the ids and the store it is told with.                            *)
LEMMA RecoveryFollows == CallInv => RecoveryKept
<1> SUFFICES ASSUME CallInv, Reports
             PROVE  RecoveryKept
  BY DEF RecoveryKept
<1>1. outcome = thrown /\ ahead = <<>> /\ Failing
  BY Reporting
<1>2. Shaped(outcome) /\ Tells(outcome, origin)
  BY <1>1, FailedOut
<1>3. "instance" \in DOMAIN outcome.context <=> OfFactory(Now.operation)
  BY <1>1, FailedOut
<1>4. "partial" \in DOMAIN origin =>
        \A key \in DOMAIN origin.partial : outcome.context[key] = origin.partial[key]
  BY <1>2 DEF Tells, TellsIds
<1>5. "instance" \in DOMAIN outcome.context => outcome.hidden = {"instance"}
  BY <1>2 DEF Shaped
<1>6. ("instance" \in DOMAIN outcome.context)
        <=> (call.name \in {"fromTexts", "fromDocuments"} /\ Now.operation = "addDocuments")
  BY <1>3 DEF OfFactory
<1> QED
  BY <1>4, <1>5, <1>6 DEF RecoveryKept

(* So do the verdicts on retrying.                                         *)
LEMMA VerdictsFollow == CallInv => VerdictsAgree
<1> SUFFICES ASSUME CallInv, Reports
             PROVE  VerdictsAgree
  BY DEF VerdictsAgree
<1>1. outcome = thrown /\ ahead = <<>> /\ Failing
  BY Reporting
<1>2. TellsFailure(outcome, origin)
  BY <1>1, FailedOut DEF Tells
<1>3. outcome.code \in {"THROTTLED", "SERVICE_UNAVAILABLE"} => outcome.context.retryable
  BY <1>2 DEF TellsFailure, SaidTransient, Transient
<1>4. origin.from \in {"model", "caller"} => Judged(outcome, origin)
  BY <1>2 DEF TellsFailure
<1> QED
  BY <1>3, <1>4 DEF VerdictsAgree, Judged

(* Whatever a call is given, and however the model and the service answer  *)
(* it: no stage before the one it is at has stopped it, nothing was spent  *)
(* where something was wrong, and a failure under way still tells what     *)
(* failed first.                                                           *)
THEOREM CallsKeepTheirCourse == Spec => []CallInv
<1>1. Init => CallInv
  BY CallInvInit, CallsAssumption
<1>2. CallInv /\ [Next]_vars => CallInv'
  BY CallInvNext, CallsAssumption
<1>3. QED
  BY <1>1, <1>2, PTL DEF Spec

(* Whatever is wrong with a call at once, one order decides on every       *)
(* public method what the caller is told: its arguments, a signal already  *)
(* fired, an empty input, a missing model; and none of it costs a request. *)
THEOREM OneOrderDecides == Spec => []OneOrder
<1>1. CallInv => OneOrder
  BY OrderKept, CallsAssumption
<1>2. QED
  BY <1>1, CallsKeepTheirCourse, PTL

(* A failure that has passed through all its layers still has the class,   *)
(* the cause and the request of what failed first, under the name of the   *)
(* method called: what wrap-error.ts rebuilds loses nothing.               *)
THEOREM FailuresStayFaithful == Spec => []ErrorFaithful
<1>1. CallInv => ErrorFaithful
  BY FaithKept
<1>2. QED
  BY <1>1, CallsKeepTheirCourse, PTL

(* The ids confirmed before a failure and the store a factory had built    *)
(* reach the caller through every layer, and the store stays hidden.       *)
THEOREM RecoveryReachesTheCaller == Spec => []RecoveryKept
<1>1. CallInv => RecoveryKept
  BY RecoveryFollows
<1>2. QED
  BY <1>1, CallsKeepTheirCourse, PTL

(* A transient class always says it is retryable, and a failure of the     *)
(* caller's own code or of the model has a verdict exactly where the       *)
(* service has answered.                                                   *)
THEOREM VerdictsReachTheCaller == Spec => []VerdictsAgree
<1>1. CallInv => VerdictsAgree
  BY VerdictsFollow
<1>2. QED
  BY <1>1, CallsKeepTheirCourse, PTL

=============================================================================
