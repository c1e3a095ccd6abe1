----------------------------- MODULE Pagination -----------------------------
(***************************************************************************)
(* The two loops over pages: a search, which collects until it has k       *)
(* vectors (queryPages, src/internal/query-pages.ts), and a listing, an    *)
(* async generator that hands out one vector each time its consumer asks   *)
(* (listPages, src/internal/list-pages.ts).                                *)
(***************************************************************************)
EXTENDS PageTokens, Integers

CONSTANTS
  MaxSize,       \* bound: vectors of a page
  MaxK,          \* bound: what a search is asked for
  MaxQueryPages  \* MAX_QUERY_PAGES

ASSUME PaginationAssumption ==
  MaxSize \in Nat /\ MaxK \in Nat \ {0} /\ MaxQueryPages \in Nat \ {0}

VARIABLES
  size,       \* how many vectors each page of the service holds
  listing,    \* a listing, or a search
  k,          \* what a search is asked for
  pc,         \* where the call is
  collected,  \* results.length of a search
  handedOut,  \* yielded of a listing, and
  onPage,     \*   how many of the page last read are still to hand out
  fired       \* the caller's signal has fired

loop == <<size, listing, k>>
counters == <<collected, handedOut, onPage>>
vars == <<service, read, tracker, loop, counters, pc, fired>>

(* How a read ends: with its answer, stopped by its consumer, aborted or   *)
(* refused, at the ceiling, or at a token that came round again.           *)
Ended == {"returned", "stopped", "failed", "ceiling", "repeated"}

TypeOK ==
  /\ TokensTypeOK
  /\ size \in [Pages -> 0..MaxSize] /\ listing \in BOOLEAN /\ k \in 1..MaxK
  /\ pc \in {"begin", "sent", "answered", "suspended"} \cup Ended
  /\ collected \in Nat /\ handedOut \in Nat /\ onPage \in 0..MaxSize
  /\ fired \in BOOLEAN

(* Pages the read cannot come to hold nothing; k is a search's.            *)
Init ==
  /\ TokensInit
  /\ size \in [Pages -> 0..MaxSize] /\ \A p \in Pages : p > length => size[p] = 0
  /\ listing \in BOOLEAN /\ k \in 1..MaxK /\ (listing => k = 1)
  /\ pc = "begin" /\ collected = 0 /\ handedOut = 0 /\ onPage = 0
  /\ fired = FALSE

-----------------------------------------------------------------------------
(* Both loops *)

(* checkAborted, then the request: for each page of a listing, once for a  *)
(* search, whose later requests carry the signal and nothing else.         *)
Begin ==
  /\ pc = "begin"
  /\ pc' = IF fired THEN "failed" ELSE "sent"
  /\ UNCHANGED <<service, read, tracker, loop, counters, fired>>

(* A page arrives and is accepted.                                         *)
Answered ==
  /\ pc = "sent"
  /\ read' = Append(read, Asked)
  /\ pc' = "answered"
  /\ IF listing THEN onPage' = size[Asked] /\ UNCHANGED collected
                ELSE collected' = collected + size[Asked] /\ UNCHANGED onPage
  /\ UNCHANGED <<service, tracker, loop, handedOut, fired>>

(* The request fails or is aborted, or its answer is refused: not a        *)
(* response, of another metric, no list of vectors.                        *)
Fails ==
  /\ pc = "sent"
  /\ pc' = "failed"
  /\ UNCHANGED <<service, read, tracker, loop, counters, fired>>

Fire ==
  /\ ~fired /\ pc \notin Ended
  /\ fired' = TRUE
  /\ UNCHANGED <<service, read, tracker, loop, counters, pc>>

-----------------------------------------------------------------------------
(* queryPages *)

Satisfied == collected >= k

SearchTurns_ShortAtCeiling ==
  /\ pc = "answered" /\ ~listing
  /\ \/ /\ NextToken = NoToken \/ Satisfied \/ pagesRead >= MaxQueryPages
        /\ pc' = "returned" /\ UNCHANGED tracker
     \/ /\ NextToken # NoToken /\ ~Satisfied /\ pagesRead < MaxQueryPages
        /\ \/ Repeats(NextToken) /\ pc' = "repeated" /\ UNCHANGED tracker
           \/ ~Repeats(NextToken) /\ Track(NextToken) /\ pc' = "sent"
  /\ UNCHANGED <<service, read, loop, counters, fired>>

(* The end of a turn: an answer, a refusal, or the next page.              *)
SearchTurns ==
  /\ pc = "answered" /\ ~listing
  /\ \/ /\ NextToken = NoToken \/ Satisfied
        /\ pc' = "returned" /\ UNCHANGED tracker
     \/ /\ NextToken # NoToken /\ ~Satisfied
        /\ \/ Repeats(NextToken) /\ pc' = "repeated" /\ UNCHANGED tracker
           \/ /\ ~Repeats(NextToken) /\ Track(NextToken)
              /\ pc' = IF pagesRead < MaxQueryPages THEN "sent" ELSE "ceiling"
  /\ UNCHANGED <<service, read, loop, counters, fired>>

(* results.slice(0, k)                                                     *)
Returned == IF Satisfied THEN k ELSE collected

-----------------------------------------------------------------------------
(* listPages *)

(* The next vector of the page is handed out, and the generator waits.     *)
Yield ==
  /\ pc = "answered" /\ listing /\ onPage > 0
  /\ handedOut' = handedOut + 1 /\ onPage' = onPage - 1
  /\ pc' = "suspended"
  /\ UNCHANGED <<service, read, tracker, loop, collected, fired>>

(* A vector without the embedding that was asked for.                      *)
RefuseVector ==
  /\ pc = "answered" /\ listing /\ onPage > 0
  /\ pc' = "failed"
  /\ UNCHANGED <<service, read, tracker, loop, counters, fired>>

(* The consumer asks for the next vector, or for no more.                  *)
Resume ==
  /\ pc = "suspended"
  /\ pc' \in {"answered", "stopped"}
  /\ UNCHANGED <<service, read, tracker, loop, counters, fired>>

ListingTurns_EmptyPageEnds ==
  /\ pc = "answered" /\ listing /\ onPage = 0
  /\ \/ /\ NextToken = NoToken \/ size[read[pagesRead]] = 0
        /\ pc' = "returned" /\ UNCHANGED tracker
     \/ /\ NextToken # NoToken /\ size[read[pagesRead]] > 0
        /\ \/ Repeats(NextToken) /\ pc' = "repeated" /\ UNCHANGED tracker
           \/ ~Repeats(NextToken) /\ Track(NextToken) /\ pc' = "begin"
  /\ UNCHANGED <<service, read, loop, counters, fired>>

(* The page is handed out: the end, a refusal, or the next page.           *)
ListingTurns ==
  /\ pc = "answered" /\ listing /\ onPage = 0
  /\ \/ NextToken = NoToken /\ pc' = "returned" /\ UNCHANGED tracker
     \/ /\ NextToken # NoToken
        /\ \/ Repeats(NextToken) /\ pc' = "repeated" /\ UNCHANGED tracker
           \/ ~Repeats(NextToken) /\ Track(NextToken) /\ pc' = "begin"
  /\ UNCHANGED <<service, read, loop, counters, fired>>

Next ==
  \/ Begin \/ Answered \/ Fails \/ Fire
  \/ SearchTurns
  \/ Yield \/ RefuseVector \/ Resume \/ ListingTurns

Spec == Init /\ [][Next]_vars

-----------------------------------------------------------------------------
(* Properties *)

(* A search returns k vectors, or all the service has: fewer never stand   *)
(* for pages it did not read.                                              *)
ShortMeansExhausted ==
  pc = "returned" /\ ~listing /\ Returned < k => Conforming /\ pagesRead = length

(* f[1] + ... + f[n]                                                       *)
Sum(f, n) == LET sum[m \in 0..n] == IF m = 0 THEN 0 ELSE sum[m - 1] + f[m] IN sum[n]

(* A listing that ends by itself has handed out every vector of every page *)
(* once, and one that goes on or stops has handed out those before.        *)
ListedOnce ==
  listing /\ pc \notin {"begin", "sent"} /\ pagesRead > 0 =>
    /\ handedOut + onPage = Sum([i \in 1..pagesRead |-> size[read[i]]], pagesRead)
    /\ pc = "returned" => onPage = 0 /\ read = [p \in 1..length |-> p]

(* Only a service that hands out a token twice is accused of it.           *)
NoFalseAlarm == pc = "repeated" => ~Conforming

(* One that does is found out: a cycle of n pages entered after m pages    *)
(* makes a read of at most n + 2 max(m, n) - 1 pages, and a search never   *)
(* makes more requests than its ceiling allows.                            *)
CycleLength == length - back + 1
TailLength == back - 1

CaughtSoon ==
  /\ ~Conforming =>
       pagesRead <= CycleLength + 2 * (IF TailLength > CycleLength THEN TailLength ELSE CycleLength) - 1
  /\ ~listing => pagesRead <= MaxQueryPages

=============================================================================
