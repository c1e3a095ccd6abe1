-------------------------- MODULE ExistenceMemory --------------------------
(***************************************************************************)
(* What the index lifecycle promises about its one bit of memory,          *)
(* knownToExist: the indexes built under a name are numbered, what is      *)
(* remembered was read from one of them (the witness), and being told one  *)
(* is gone drops the memory of it and of every earlier one for good.       *)
(***************************************************************************)
EXTENDS Naturals

VARIABLES
  known,    \* existence is remembered
  witness,  \* the index it was last read from
  gone      \* the last index the store was told is gone

memory == <<known, witness, gone>>

Init == known = FALSE /\ witness = 0 /\ gone = 0

(* Only an index nobody has called gone is learnt.                         *)
Learn ==
  /\ known' = TRUE
  /\ witness' \in Nat /\ witness' > gone
  /\ UNCHANGED gone

Forget ==
  /\ known' = FALSE
  /\ gone' \in Nat /\ gone' >= gone
  /\ UNCHANGED witness

Spec == Init /\ [][Learn \/ Forget]_memory

=============================================================================
