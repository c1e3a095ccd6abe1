----------------------------- MODULE IndexClaims -----------------------------
(***************************************************************************)
(* Two statements the comments of src/internal/index-lifecycle.ts make,  *)
(* as properties of IndexLifecycle with the history they need.             *)
(***************************************************************************)
EXTENDS IndexLifecycle

VARIABLES
  existed,   \* the writes in ensureExists during whose call the index has existed
  told404    \* the last index a DeleteIndex 404 told the store is gone

claimVars == <<vars, existed, told404>>

ClaimInit == Init /\ existed = {} /\ told404 = 0

(* Every delete made so far has resolved, so none can be changing the      *)
(* index or have left it in doubt.                                         *)
DeletesResolved == \A d \in Deletes : pc[d] \in {"idle", "done"}

DeleteTold(d) == pc[d] = "missing" /\ pc'[d] = "asking"

ClaimNext ==
  /\ Next
  /\ existed' = {w \in Writes : /\ pc'[w] = "waiting"
                               /\ \/ w \in existed \/ present'
                                  \/ pc[w] = "idle" /\ ~DeletesResolved}
  /\ told404' = IF \E d \in Deletes : DeleteTold(d)
                  THEN Larger(told404, goneAt[CHOOSE d \in Deletes : DeleteTold(d)])
                  ELSE told404

ClaimSpec == ClaimInit /\ [][ClaimNext]_claimVars

(* "on resolution the index existed at some point during this call"        *)
(* (ensureExists), for a write that begins once every deleteIndex has      *)
(* resolved, with nothing changed from outside: it can join a lookup       *)
(* answered before the delete landed, and resolves on that old answer.     *)
EnsuredIndexExisted ==
  [][\A w \in Writes :
       /\ pc[w] = "waiting" /\ pc'[w] = "sent" => w \in existed
       /\ pc[w] = "idle" /\ pc'[w] = "sent" /\ DeletesResolved => present]_claimVars

(* "A 404: nothing of this name exists, whichever of the two is missing,   *)
(* so the next write has to look again either way." (deleteIndex).  The    *)
(* 404 clears the flag and not the generation: a lookup answered before    *)
(* sets it again, and a delete that ends while it asks for the bucket      *)
(* leaves it set.                                                          *)
NextWriteLooksAgain ==
  knownToExist /\ (\A d \in Deletes : pc[d] # "asking") => seen > told404

=============================================================================
