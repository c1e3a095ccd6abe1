-------------------------- MODULE MCPartialWrites --------------------------
(* The two paths of a batched write: embedAndWrite, for up to four batches  *)
(* of one or two requests, and runBatches (last = <<>>), for up to          *)
(* MaxBatched batches.                                                      *)
EXTENDS EmbedPipeline

CONSTANT MaxBatched  \* bound: batches of a runBatches call

VARIABLE serializeFirst

B == INSTANCE BatchedRun

ofPipeline == <<last, batch>>
anyVars == <<vars, serializeFirst>>

AnyInit ==
  \/ Init /\ serializeFirst = FALSE
  \/ B!Init /\ total <= MaxBatched /\ last = <<>> /\ batch = 1

AnyCall ==
  \/ last # <<>> /\ (CallStep \/ ModelStep) /\ UNCHANGED serializeFirst
  \/ last = <<>> /\ B!CallStep /\ UNCHANGED ofPipeline

AnyAnswer(r) ==
  \/ last # <<>> /\ Answer(r) /\ UNCHANGED <<total, callVars, serializeFirst>>
  \/ last = <<>> /\ B!Answer(r) /\ UNCHANGED <<total, serializeFirst, pc, next, report, ofPipeline>>

AnyNext ==
  \/ last # <<>> /\ Next /\ UNCHANGED serializeFirst
  \/ last = <<>> /\ B!Next /\ UNCHANGED ofPipeline

(* The fairness of both specifications.                                     *)
AnySpec ==
  /\ AnyInit /\ [][AnyNext]_anyVars
  /\ WF_anyVars(AnyCall) /\ \A r \in Requests : WF_anyVars(AnyAnswer(r))

(* What the others need is over, and went well, before they start: the      *)
(* first batch of either path, which may create the index.                  *)
FirstAlone == IF last = <<>> THEN B!FirstAlone ELSE FirstBatchAlone

=============================================================================
