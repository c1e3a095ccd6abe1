---------------------------- MODULE StoreReports ----------------------------
(***************************************************************************)
(* What the calls of a store have reported about its index, kept next to   *)
(* Store as a history: the writes that begin once a call has reported the  *)
(* index gone, and those of them that join a lookup from before.           *)
(***************************************************************************)
EXTENDS Store

VARIABLES
  told,     \* a call has reported the index gone, and it is still gone
  sighted,  \* a lookup pending then, and still, had been told that it is there
  since,    \* the writes under way that began after that report
  joined    \* those of them that wait, or waited, for that lookup

reportVars == <<vars, told, sighted, since, joined>>

ReportInit == Init /\ told = FALSE /\ sighted = FALSE /\ since = {} /\ joined = {}

(* The pending lookup has been told that the index is there, by GetIndex   *)
(* or by CreateIndex, which made it or met another's.                      *)
Sighting == lookup \in {"recheck", "found", "gone"}

(* c ends with the report that the index is gone.                          *)
Reports(c) == kind[c] # "none" /\ kind'[c] = "none" /\ failure[c] = "NOT_FOUND"

(* A report is about the present absence of the index: what a call reports *)
(* of an earlier one, and this one's reports once it is built, count for   *)
(* nothing.                                                                *)
Record ==
  IF exists \/ exists'
    THEN told' = FALSE /\ sighted' = FALSE /\ since' = {} /\ joined' = {}
    ELSE /\ told' = (told \/ \E c \in Calls : Reports(c))
         /\ sighted' = (lookup' # "none" /\ (sighted \/ (~told /\ told' /\ Sighting)))
         /\ since' = {c \in Calls : kind'[c] = "write" /\ (c \in since \/ (told /\ kind[c] = "none"))}
         /\ joined' = {c \in since' : c \in joined \/ (sighted /\ stage'[c][1] = "ensuring")}

ReportNext == Next /\ Record

ReportSpec == ReportInit /\ [][ReportNext]_reportVars /\ Fairness

-----------------------------------------------------------------------------
(* Properties *)

(* Once a call of the store - a write, a delete, a search - has reported   *)
(* the index gone, a write that begins while it is does not fail on its    *)
(* absence, whatever answers from before are still on their way, unless it *)
(* joined the one lookup that was pending at that report and had by then   *)
(* been told that the index is there. What is remembered, and a lookup asked    *)
(* later or answered later, lead no write to an index that is gone.        *)
Recovered == \A c \in since \ joined : failure[c] # "NOT_FOUND"

(* "the next write looks it up again, and creates it if the store may,     *)
(* instead of failing once on what this store already saw was missing"     *)
(* (#failed), for every write that begins after the report. markAbsent     *)
(* leaves the pending lookup in memo: a write that joins it does not look  *)
(* again, and goes on to its request on an answer from before.             *)
RecoveredAsStated == \A c \in since : failure[c] # "NOT_FOUND"

=============================================================================
