----------------------------- MODULE PageTokens -----------------------------
(***************************************************************************)
(* How a paginated read notices that the service has sent it round in a    *)
(* circle (src/internal/page-tokens.ts), next to the pages of a service    *)
(* that may do so.                                                         *)
(*                                                                         *)
(* The pages a read can come to are 1..length: the first has no token, a   *)
(* page's token is its number, and every page hands out the token of the   *)
(* next.  The last hands out none, or one that leads back.                 *)
(***************************************************************************)
EXTENDS Naturals, Sequences

CONSTANT MaxLength  \* bound: pages of a read

ASSUME LengthAssumption == MaxLength \in Nat \ {0}

VARIABLES
  length,           \* the pages of the service
  back,             \* where the last one's token leads; NoToken if it has none
  read,             \* history: the pages answered so far, in order
  remembered,       \* the one token the tracker holds, or NoToken
  power,            \* how many tokens it is held for
  sinceRemembered

service == <<length, back>>
tracker == <<remembered, power, sinceRemembered>>

Pages == 1..MaxLength
NoToken == 0

Conforming == back = NoToken

TokensTypeOK ==
  /\ length \in Pages /\ back \in 0..length
  /\ read \in Seq(Pages)
  /\ remembered \in 0..MaxLength /\ power \in Nat \ {0} /\ sinceRemembered \in 0..(power - 1)

TokensInit ==
  /\ length \in Pages /\ back \in 0..length
  /\ read = <<>>
  /\ remembered = NoToken /\ power = 1 /\ sinceRemembered = 0

pagesRead == Len(read)

(* What the page last read answered, and the page a read asks for next.    *)
NextToken == IF read[pagesRead] = length THEN back ELSE read[pagesRead] + 1

Asked == IF pagesRead = 0 THEN 1 ELSE NextToken

(* (Here and in the module that extends this one, a definition named X_How *)
(* stands before X and is a defective X.)                                  *)
Remember_FixedSpan(token) ==
  /\ remembered' = token
  /\ UNCHANGED power /\ sinceRemembered' = 0

Remember(token) ==
  /\ remembered' = token
  /\ power' = power * 2 /\ sinceRemembered' = 0

Repeats_Recorded(token) == sinceRemembered + 1 = power \/ token = remembered

Repeats(token) == token = remembered

(* A token that does not repeat is counted, and held at every power of two. *)
Track(token) ==
  \/ sinceRemembered + 1 = power /\ Remember(token)
  \/ /\ sinceRemembered + 1 # power
     /\ sinceRemembered' = sinceRemembered + 1 /\ UNCHANGED <<remembered, power>>

=============================================================================
