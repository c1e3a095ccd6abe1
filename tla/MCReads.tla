------------------------------ MODULE MCReads ------------------------------
(* The reads: searches and listings over every service of up to seven       *)
(* pages, full or empty, whose last page may lead back to any of them; and  *)
(* (byId) reads of three ids, by requests of one or two, two at a time.     *)
EXTENDS Pagination, ReadBounds, TLC

CONSTANTS MaxTotal, MaxConcurrent

ASSUME SlotsAssumption == MaxTotal \in Nat /\ MaxConcurrent \in Nat \ {0}

VARIABLES total, status, launched, inFlight, failure, waiting, mmr, ids, batchSize,
          next, answers, result, foundIds, picked, stored, held, changes

VARIABLE byId  \* a read by id, or a read of pages

D == INSTANCE Reads

IdSymmetry == Permutations(Ids)

windowVars == <<total, status, launched, inFlight, failure, waiting, next>>
byIdVars == <<windowVars, mmr, ids, batchSize, answers, result, foundIds, picked, stored,
              held, changes>>
pageVars == <<service, read, tracker, size, listing, counters>>

NoReadById ==
  /\ total = 0 /\ status = <<>> /\ launched = <<>> /\ inFlight = {} /\ failure = {}
  /\ waiting = FALSE /\ next = 1 /\ mmr = FALSE /\ ids = <<>> /\ batchSize = 1
  /\ answers = <<>> /\ result = <<>> /\ foundIds = {} /\ picked = <<>>
  /\ stored = <<>> /\ held = <<>> /\ changes = 0

AnyInit ==
  \/ byId = FALSE /\ Init /\ NoReadById
  \/ /\ byId = TRUE /\ D!Init
     /\ TokensInit /\ length = 1 /\ back = NoToken
     /\ size = [p \in Pages |-> 0] /\ listing = FALSE
     /\ collected = 0 /\ handedOut = 0 /\ onPage = 0

AnyNext ==
  \/ ~byId /\ Next /\ UNCHANGED <<byIdVars, byId>>
  \/ byId /\ D!Next /\ UNCHANGED <<pageVars, byId>>

AnySpec == AnyInit /\ [][AnyNext]_<<vars, byIdVars, byId>>

OwnSlot == byId => D!OwnSlot
RankedReturned == byId => D!RankedReturned
FoundComplete == byId => D!FoundComplete

=============================================================================
