--------------------------- MODULE ReviewContract ---------------------------
(***************************************************************************)
(* What the review of a run promises (the module comments of               *)
(* orchestrator/review_transaction.rs and review_evidence_gate.rs), with   *)
(* Accept as a single step that stages the whole result and records it.    *)
(* A decision is pending before anything moves, and forgotten only once it *)
(* is recorded.  Reject goes path by path and is recorded when nothing of  *)
(* the run is left.  Only a fault may leave part of an Accept.             *)
(***************************************************************************)
EXTENDS Naturals

CONSTANTS
  Path,
  Absent,  \* the content of a path that does not exist
  None     \* no decision, no review

VARIABLES
  result,   \* what the run left at each path it changed
  apart,    \* the paths it changed outside the active checkout
  head, index, files,   \* the active checkout
  pending,  \* the decision made and not yet known to be recorded
  review,   \* the review recorded, with its decision and its index tree
  edits,    \* how often the user has changed the checkout
  faults    \* how often a process has died or a command or a write has failed

given == <<result, apart>>
active == <<head, index, files>>
contractVars == <<given, active, pending, review, edits, faults>>

Place == DOMAIN result \ apart

ContractInit ==
  /\ DOMAIN result \subseteq Path /\ apart \subseteq DOMAIN result
  /\ index = head
  /\ files = [p \in Path |-> IF p \in Place THEN result[p] ELSE head[p]]
  /\ pending = None /\ review = None
  /\ edits = 0 /\ faults = 0

Recorded(decision) ==
  /\ review # None
  /\ review.decision = (IF decision = "accept" THEN "accepted" ELSE "rejected")

(* What was accepted is no longer what is staged. *)
Outdated ==
  /\ review # None /\ review.decision = "accepted"
  /\ review.index_tree_after_accept # index

Decide(decision) ==
  /\ pending \in {None, decision} \/ (Recorded(pending) /\ UNCHANGED review)
  /\ pending' = decision
  /\ UNCHANGED review \/ (Outdated /\ review' = None)
  /\ UNCHANGED <<given, active, edits, faults>>

(* An approval is withdrawn when its bytes are no longer staged, also in the middle
   of the next Accept. *)
Withdraw ==
  /\ Outdated \/ (pending = "accept" /\ Recorded("accept"))
  /\ review' = None
  /\ UNCHANGED <<given, active, pending, edits, faults>>

-----------------------------------------------------------------------------
(* Accept *)

Staged(paths) ==
  [p \in Path |-> CASE p \in paths \cap apart -> result[p]
                    [] p \in paths \ apart -> files[p]
                    [] OTHER -> index[p]]

Copied(paths) == [p \in Path |-> IF p \in paths \cap apart THEN result[p] ELSE files[p]]

(* A result is only copied to where nobody has changed anything. *)
Free == \A p \in apart : index[p] = head[p] /\ files[p] = head[p]

Approves ==
  /\ pending = "accept" /\ Free
  /\ review' # None /\ review'.decision = "accepted"
  /\ review'.index_tree_after_accept = Staged(DOMAIN result)

Accept ==
  /\ Approves
  /\ index' = Staged(DOMAIN result) /\ files' = Copied(DOMAIN result)
  /\ UNCHANGED <<given, head, pending, edits, faults>>

(* The write of the review fails, but has happened: it awaits withdrawal. *)
AcceptUndone ==
  /\ Approves
  /\ faults' = faults + 1
  /\ UNCHANGED <<given, active, pending, edits>>

(* An Accept that copies is refused: the run's paths go back to the index. *)
Refuse ==
  /\ pending = "accept" /\ apart # {}
  /\ files' = [p \in Path |-> IF p \in DOMAIN result /\ index[p] # Absent THEN index[p]
                              ELSE files[p]]
  /\ UNCHANGED <<given, head, index, pending, review, edits, faults>>

(* It ends halfway. *)
Interrupt ==
  /\ pending = "accept"
  /\ \E staged, copied \in SUBSET DOMAIN result :
       /\ (staged \cup copied) \cap apart = {} \/ Free
       /\ index' = Staged(staged) /\ files' = Copied(copied)
  /\ faults' = faults + 1
  /\ UNCHANGED <<given, head, pending, review, edits>>

-----------------------------------------------------------------------------
(* Reject *)

Discarded(p) == files[p] = index[p] /\ index[p] \in {Absent, head[p]}

Discard(p) ==
  /\ pending = "reject" /\ p \in Place
  /\ \E content \in {Absent, head[p]} :
       /\ index' = [index EXCEPT ![p] = content]
       /\ files' = [files EXCEPT ![p] = content]
  /\ UNCHANGED <<given, head, pending, review, edits, faults>>

Reject ==
  /\ pending = "reject" /\ \A p \in Place : Discarded(p)
  /\ review' # None /\ review'.decision = "rejected"
  /\ faults' \in {faults, faults + 1}
  /\ UNCHANGED <<given, active, pending, edits>>

-----------------------------------------------------------------------------
Close ==
  /\ pending # None /\ Recorded(pending)
  /\ pending' = None
  /\ UNCHANGED <<given, active, review, edits, faults>>

User ==
  /\ edits' = edits + 1
  /\ UNCHANGED <<given, pending, review, faults>>

Fail ==
  /\ faults' = faults + 1
  /\ UNCHANGED <<given, active, pending, review, edits>>

ContractNext ==
  \/ \E decision \in {"accept", "reject"} : Decide(decision)
  \/ Withdraw \/ Accept \/ AcceptUndone \/ Refuse \/ Interrupt
  \/ \E p \in Path : Discard(p)
  \/ Reject \/ Close \/ User \/ Fail

ContractSpec == ContractInit /\ [][ContractNext]_contractVars

-----------------------------------------------------------------------------
(* All or nothing: while no fault has happened and the user has left the checkout
   alone, the isolated result is there in full, staged and on disk, or not at all. *)
AllOrNothing ==
  edits = 0 /\ faults = 0 =>
    \/ \A p \in apart : index[p] = result[p] /\ files[p] = result[p]
    \/ Free
=============================================================================
