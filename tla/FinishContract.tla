--------------------------- MODULE FinishContract ---------------------------
(***************************************************************************)
(* What Finish promises (the module comments of workflow/finish_recovery.rs *)
(* and finish.rs), with no files, steps or crashes: a commit lands only    *)
(* while nothing is recorded and no earlier commit waits to be, and the    *)
(* evidence recorded is of a tree a human accepted and a verification      *)
(* passed on, for that run.                                                *)
(***************************************************************************)
CONSTANT NoEvidence

VARIABLES
  approved,     \* the <<run, tree>> pairs accepted and verified so far
  outstanding,  \* a commit has landed and waits to be recorded
  recorded      \* the pair the finish evidence is of, or NoEvidence

contract == <<approved, outstanding, recorded>>

ContractInit ==
  approved = {} /\ outstanding = FALSE /\ recorded = NoEvidence

\* A review, a verification or a new run: it may approve, and may withdraw.
Rework ==
  /\ approved \subseteq approved'
  /\ recorded' \in {recorded, NoEvidence}
  /\ UNCHANGED outstanding

Land ==
  /\ ~ outstanding /\ recorded = NoEvidence
  /\ outstanding' = TRUE
  /\ UNCHANGED <<approved, recorded>>

RecordEvidence ==
  /\ recorded' \in approved
  /\ outstanding' = FALSE
  /\ UNCHANGED approved

\* The user moved HEAD: the commit that waited is not RepoDesk's to record.
MoveOn ==
  /\ outstanding' = FALSE
  /\ UNCHANGED <<approved, recorded>>

ContractNext == Rework \/ Land \/ RecordEvidence \/ MoveOn

ContractSpec == ContractInit /\ [][ContractNext]_contract
=============================================================================
