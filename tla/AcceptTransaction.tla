------------------------- MODULE AcceptTransaction -------------------------
(***************************************************************************)
(* Review of one run: the human's Accept or Reject, made durable as an     *)
(* intent before any byte moves (orchestrator/review_evidence_gate.rs),    *)
(* applied path by path (review.rs) and, for Accept, rolled back when it   *)
(* cannot be completed and recorded (review_transaction.rs).               *)
(*                                                                         *)
(* A run has changed some paths in place, in the active checkout, and some *)
(* in an isolated worktree whose bytes Accept copies in.  The in-memory    *)
(* transaction does not survive a crash; the intent, the receipt, the      *)
(* index and the working tree do.                                          *)
(***************************************************************************)
EXTENDS Naturals, FiniteSets, Receipt

CONSTANTS
  ThisRun,      \* the run under review
  Absent,       \* the content of a path that does not exist
  BaseContent, AgentContent, UserContent,
  MaxEdits,     \* bound on the user's edits of the checkout
  MaxFaults     \* bound on crashes and failing commands or writes

ASSUME AcceptAssumption ==
  /\ ThisRun \in Run
  /\ {Absent, BaseContent, AgentContent, UserContent} \subseteq Content
  /\ None \notin {"accept", "reject"}
  /\ MaxEdits \in Nat /\ MaxFaults \in Nat

VARIABLES
  base,      \* HEAD when the run started, and HEAD of its isolated worktree
  isolated,  \* the run's paths that were changed in the isolated worktree
  produced,  \* what the run left at each of its paths
  head,      \* the tree of HEAD in the active checkout
  index, worktree,   \* the active checkout; worktree: untracked files as well
  receipt,   \* task-run-receipt.json
  intent,    \* review-intents/<run>.json: the pending decision, if any
  pc,        \* where the review call in flight stands
  action,    \* its decision
  left,      \* the paths it has not processed
  patched,   \* the isolated result has passed its preflight and its patch
  copying,   \* the untracked path copied but not yet added
  skipped,   \* the paths it could not process
  snapshot,  \* AcceptTransaction::begin
  edits, faults

run == <<base, isolated, produced>>
checkout == <<head, index, worktree>>
call == <<pc, action, left, patched, copying, skipped, snapshot>>
vars == <<run, checkout, receipt, intent, call, edits, faults>>

Changed == DOMAIN produced
InPlace == Changed \ isolated
\* In the isolated worktree `git status` calls these `??`.
UntrackedThere == {p \in isolated : base[p] = Absent}

\* Some result has a workspace and changed files.
restore_worktree == isolated # {}

Idle == pc = "idle"
Step(from, to) == pc = from /\ pc' = to
Fault == faults < MaxFaults /\ faults' = faults + 1

NoSnapshot == [index |-> None, tracked |-> {}, existed |-> {}, worktree |-> None]

Init ==
  /\ base \in [Path -> {Absent, BaseContent}]
  /\ \E changed \in (SUBSET Path) \ {{}} :
       /\ isolated \in SUBSET changed
       /\ produced \in [changed -> {Absent, AgentContent}]
       /\ \A p \in changed : produced[p] # base[p]
       /\ receipt = FreshReceipt(ThisRun, changed)
  /\ head = base /\ index = base
  /\ worktree = [p \in Path |-> IF p \in InPlace THEN produced[p] ELSE base[p]]
  /\ intent = None
  /\ pc = "idle" /\ action = None /\ left = {} /\ patched = FALSE
  /\ copying = None /\ skipped = {} /\ snapshot = NoSnapshot
  /\ edits = 0 /\ faults = 0

----------------------------------------------------------------------------
\* The user, between two review calls

UserEdits(edit) ==
  /\ Idle
  /\ edits < MaxEdits /\ edits' = edits + 1
  /\ edit
  /\ UNCHANGED <<run, receipt, intent, call, faults>>

\* An editor saves a file, or removes it; nothing is staged.
EditFile ==
  \E p \in Path, c \in {UserContent, Absent} :
    /\ worktree' = [worktree EXCEPT ![p] = c]
    /\ UNCHANGED <<head, index>>

StageFile ==
  \E p \in Path :
    /\ index' = [index EXCEPT ![p] = worktree[p]]
    /\ UNCHANGED <<head, worktree>>

CommitStaged == head' = index /\ UNCHANGED <<index, worktree>>

User == UserEdits(EditFile) \/ UserEdits(StageFile) \/ UserEdits(CommitStaged)

----------------------------------------------------------------------------
\* review_evidence_gate::review_run

\* The receipt already holds the decision of the pending intent.
Finalized(r) ==
  /\ r.review # None
  /\ r.review.run_id = ThisRun
  /\ r.review.changeset_digest = Changed
  /\ r.review.decision = (IF intent = "accept" THEN "accepted" ELSE "rejected")

\* Mutant: the decision just pressed replaces the one pending.
ReviewRunOverwriting(decision) ==
  /\ Step("idle", "begin")
  /\ receipt' = load_receipt(receipt, index)
  /\ intent' = IF intent = None THEN decision ELSE intent
  /\ action' = decision
  /\ UNCHANGED <<run, checkout, left, patched, copying, skipped, snapshot,
                 edits, faults>>

\* Mutant: a pending decision blocks every review, its own retry as well.
ReviewRunNeverResumes(decision) ==
  /\ Step("idle", "begin")
  /\ receipt' = load_receipt(receipt, index)
  /\ intent = None \/ Finalized(receipt')
  /\ intent' = decision
  /\ action' = decision
  /\ UNCHANGED <<run, checkout, left, patched, copying, skipped, snapshot,
                 edits, faults>>

\* ensure_review_intent: resume the same decision, or write a new one unless a
\* different one is pending.
ReviewRun(decision) ==
  /\ Step("idle", "begin")
  /\ receipt' = load_receipt(receipt, index)
  /\ intent \in {None, decision} \/ Finalized(receipt')
  /\ intent' = decision
  /\ action' = decision
  /\ UNCHANGED <<run, checkout, left, patched, copying, skipped, snapshot,
                 edits, faults>>

\* AcceptTransaction::begin.  The worktree is only kept here to be compared.
Begin ==
  /\ Step("begin", "apply")
  /\ left' = Changed
  /\ snapshot' = IF action = "accept"
       THEN [index |-> index, tracked |-> {p \in Changed : index[p] # Absent},
             existed |-> {p \in Changed : worktree[p] # Absent},
             worktree |-> worktree]
       ELSE NoSnapshot
  /\ UNCHANGED <<run, checkout, receipt, intent, action, patched, copying,
                 skipped, edits, faults>>

\* `git add` knows no path that is neither in the index nor on disk.
Unknown(p) == index[p] = Absent /\ worktree[p] = Absent

\* review_one, Accept: `git add` of a path changed in place.
StagePath(p) ==
  /\ action = "accept" /\ p \in InPlace /\ ~ Unknown(p)
  /\ index' = [index EXCEPT ![p] = worktree[p]]
  /\ UNCHANGED worktree

\* review_one, Reject: back to HEAD if tracked, cleaned away if not.
DiscardPath(p) ==
  /\ action = "reject" /\ p \in InPlace
  /\ index' = [index EXCEPT ![p] = IF index[p] = Absent THEN Absent ELSE head[p]]
  /\ worktree' = [worktree EXCEPT ![p] = IF index[p] = Absent THEN Absent
                                         ELSE head[p]]

\* An isolated path is left where it is by Reject.
LeaveIsolated(p) ==
  /\ action = "reject" /\ p \in isolated
  /\ UNCHANGED <<index, worktree>>

ProcessPath ==
  /\ pc = "apply"
  /\ \E p \in left :
       /\ left' = left \ {p}
       /\ \/ /\ StagePath(p) \/ DiscardPath(p) \/ LeaveIsolated(p)
             /\ UNCHANGED <<skipped, faults>>
          \/ /\ p \in InPlace   \* the Git command fails
             /\ \/ action = "accept" /\ Unknown(p) /\ UNCHANGED faults
                \/ Fault
             /\ skipped' = skipped \cup {p}
             /\ UNCHANGED <<index, worktree>>
  /\ UNCHANGED <<run, head, receipt, intent, pc, action, patched, copying,
                 snapshot, edits>>

\* `git status` of the path in the active checkout is empty.
Clean(p) == index[p] = head[p] /\ worktree[p] = index[p]

\* accept_isolated_changes: every destination clean, every new one free, and
\* the patch applies to the HEAD it was made against.
IsolatedApplies ==
  /\ \A p \in isolated : Clean(p)
  /\ \A p \in UntrackedThere : worktree[p] = Absent
  /\ \A p \in isolated \ UntrackedThere : index[p] = base[p]

ApplyIsolatedPatch ==
  /\ pc = "apply" /\ action = "accept"
  /\ isolated # {} /\ ~ patched
  /\ \/ /\ IsolatedApplies
        /\ LET tracked == isolated \ UntrackedThere
               Patched(tree) == [p \in Path |-> IF p \in tracked THEN produced[p]
                                               ELSE tree[p]]
           IN /\ index' = Patched(index) /\ worktree' = Patched(worktree)
              /\ left' = left \ tracked
        /\ patched' = TRUE
        /\ UNCHANGED pc
     \/ /\ ~ IsolatedApplies
        /\ pc' = "rollback"
        /\ UNCHANGED <<index, worktree, left, patched>>
  /\ UNCHANGED <<run, head, receipt, intent, action, copying, skipped, snapshot,
                 edits, faults>>

\* copy_untracked_file, which may fail, then `git add`, which may be refused.
CopyUntracked ==
  /\ pc = "apply" /\ patched /\ copying = None
  /\ \E p \in left \cap UntrackedThere :
       \/ /\ worktree' = [worktree EXCEPT ![p] = produced[p]]
          /\ copying' = p
          /\ UNCHANGED <<pc, faults>>
       \/ /\ pc' = "rollback" /\ Fault
          /\ UNCHANGED <<worktree, copying>>
  /\ UNCHANGED <<run, head, index, receipt, intent, action, left, patched,
                 skipped, snapshot, edits>>

AddCopied ==
  /\ pc = "apply" /\ copying # None
  /\ \/ /\ index' = [index EXCEPT ![copying] = worktree[copying]]
        /\ UNCHANGED <<skipped, faults>>
     \/ /\ skipped' = skipped \cup {copying} /\ Fault
        /\ UNCHANGED index
  /\ left' = left \ {copying}
  /\ copying' = None
  /\ UNCHANGED <<run, head, worktree, receipt, intent, pc, action, patched,
                 snapshot, edits>>

----------------------------------------------------------------------------
\* The end of a call: record the decision, or undo an Accept

NewReview == WithReview(load_receipt(receipt, index),
               IF action = "accept" THEN "accepted" ELSE "rejected",
               Changed, index)

EndCall ==
  /\ pc' = "idle" /\ action' = None /\ left' = {} /\ patched' = FALSE
  /\ copying' = None /\ skipped' = {} /\ snapshot' = NoSnapshot

\* Mutant: skipped paths do not stop the recording.
AllProcessedAnyway ==
  /\ pc = "apply" /\ left = {}
  /\ pc' = "persist"
  /\ UNCHANGED <<run, checkout, receipt, intent, action, left, patched, copying,
                 skipped, snapshot, edits, faults>>

\* Nothing may be recorded while a path is skipped.
AllProcessed ==
  /\ pc = "apply" /\ left = {}
  /\ skipped = {} \/ action = "accept"
  /\ pc' = IF skipped = {} THEN "persist" ELSE "rollback"
  /\ UNCHANGED <<run, checkout, receipt, intent, action, left, patched, copying,
                 skipped, snapshot, edits, faults>>

\* An incomplete Reject returns, with its intent still pending.
RejectIncomplete ==
  /\ pc = "apply" /\ left = {}
  /\ action = "reject" /\ skipped # {}
  /\ EndCall
  /\ UNCHANGED <<run, checkout, receipt, intent, edits, faults>>

\* record_review; a write that reports an error may still have happened.
PersistReview ==
  /\ Step("persist", "cleanup")
  /\ receipt' = NewReview
  /\ UNCHANGED <<run, checkout, intent, action, left, patched, copying, skipped,
                 snapshot, edits, faults>>

PersistReviewFails ==
  /\ pc = "persist"
  /\ Fault
  /\ receipt' \in {receipt, NewReview}
  /\ \/ /\ action = "accept" /\ pc' = "rollback"
        /\ UNCHANGED <<action, left, patched, copying, skipped, snapshot>>
     \/ action = "reject" /\ EndCall
  /\ UNCHANGED <<run, checkout, intent, edits>>

\* Removing the intent is best effort.
RemoveIntent ==
  /\ pc = "cleanup"
  /\ \/ intent' = None /\ UNCHANGED faults
     \/ UNCHANGED intent /\ Fault
  /\ EndCall
  /\ UNCHANGED <<run, checkout, receipt, edits>>

\* rollback: `git read-tree` of the saved index; for an isolated Accept also the
\* tracked paths checked out from it and the created ones removed.
RestoreIndex ==
  /\ pc = "rollback"
  /\ index' = snapshot.index
  /\ \/ /\ restore_worktree
        /\ pc' = "rollback_worktree"
        /\ UNCHANGED <<action, left, patched, copying, skipped, snapshot>>
     \/ ~ restore_worktree /\ EndCall
  /\ UNCHANGED <<run, head, worktree, receipt, intent, edits, faults>>

\* Mutant: what the transaction created is left behind.
RestoreTrackedOnly ==
  /\ pc = "rollback_worktree"
  /\ worktree' = [p \in Path |-> IF p \in snapshot.tracked THEN index[p]
                                 ELSE worktree[p]]
  /\ EndCall
  /\ UNCHANGED <<run, head, index, receipt, intent, edits, faults>>

RestoreWorktree ==
  /\ pc = "rollback_worktree"
  /\ worktree' = [p \in Path |->
       CASE p \in snapshot.tracked -> index[p]
         [] p \in Changed \ (snapshot.tracked \cup snapshot.existed) -> Absent
         [] OTHER -> worktree[p]]
  /\ EndCall
  /\ UNCHANGED <<run, head, index, receipt, intent, edits, faults>>

\* The process dies, or a rollback command fails: the call ends where it is.
Crash ==
  /\ ~ Idle
  /\ Fault
  /\ EndCall
  /\ UNCHANGED <<run, checkout, receipt, intent, edits>>

\* Any surface reads the evidence between two calls.
PollReceipt ==
  /\ receipt' = load_receipt(receipt, index)
  /\ receipt' # receipt
  /\ UNCHANGED <<run, checkout, intent, call, edits, faults>>

ReviewStep ==
  \/ Begin \/ ProcessPath \/ ApplyIsolatedPatch \/ CopyUntracked \/ AddCopied
  \/ AllProcessed \/ RejectIncomplete \/ PersistReview \/ PersistReviewFails
  \/ RemoveIntent \/ RestoreIndex \/ RestoreWorktree

Next ==
  \/ User \/ PollReceipt
  \/ \E decision \in {"accept", "reject"} : ReviewRun(decision)
  \/ ReviewStep \/ Crash

Spec == Init /\ [][Next]_vars

\* A call that runs goes on, and the user resumes a pending Reject, as its error
\* messages ask ("Retry Reject to finish evidence").
FairSpec ==
  /\ Spec
  /\ WF_vars(ReviewStep)
  /\ WF_vars(intent = "reject" /\ ReviewRun("reject"))

----------------------------------------------------------------------------
\* Properties

TypeOK ==
  /\ base \in Tree /\ head \in Tree /\ index \in Tree /\ worktree \in Tree
  /\ isolated \subseteq Changed /\ Changed \subseteq Path
  /\ receipt \in TaskRunReceipt
  /\ intent \in {None, "accept", "reject"} /\ action \in {None, "accept", "reject"}
  /\ pc \in {"idle", "begin", "apply", "persist", "cleanup", "rollback",
            "rollback_worktree"}
  /\ left \subseteq Changed /\ skipped \subseteq Changed
  /\ patched \in BOOLEAN /\ copying \in Changed \cup {None}
  /\ snapshot.tracked \subseteq Changed /\ snapshot.existed \subseteq Changed
  /\ edits \in 0 .. MaxEdits /\ faults \in 0 .. MaxFaults

RecordsAccept ==
  /\ pc = "persist" /\ action = "accept"
  /\ receipt' # receipt /\ AcceptedReview(receipt')

\* An Accepted review is never partial and never wider than its run: its tree has
\* the run's bytes at every path of the run, and at every other path what was
\* staged before (review.rs: "a partial apply must never look reviewed").
AcceptedIsComplete ==
  [][RecordsAccept =>
       LET tree == receipt'.review.index_tree_after_accept IN
       \A p \in Path :
         tree[p] = CASE p \in InPlace -> snapshot.worktree[p]
                     [] p \in isolated -> produced[p]
                     [] OTHER -> snapshot.index[p]]_vars

\* An Accept call that ends in an error, its rollback done.
AcceptRefused ==
  pc \in {"rollback", "rollback_worktree"} /\ pc' = "idle" /\ UNCHANGED faults

\* A refused Accept leaves the index as it found it, and every file that was
\* committed and clean when it began (review_transaction.rs: rollback).
RefusedAcceptKeepsCleanPaths ==
  [][AcceptRefused =>
       /\ index' = snapshot.index
       /\ \A p \in Path :
            snapshot.worktree[p] = snapshot.index[p] =>
              worktree'[p] = snapshot.worktree[p]]_vars

\* A refused Accept leaves the whole active checkout as it found it
\* (review_transaction.rs: "Accept is all-or-nothing from the active checkout's
\* point of view").
RefusedAcceptKeepsCheckout ==
  [][AcceptRefused => index' = snapshot.index /\ worktree' = snapshot.worktree]_vars

\* A decision made durable is the one recorded: no review call records another
\* while it is pending (review_evidence_gate.rs).
PendingDecisionStands ==
  [][receipt'.review # None /\ receipt'.review # receipt.review =>
       receipt'.review.decision
         = (IF intent = "accept" THEN "accepted" ELSE "rejected")]_vars

\* An Accept in progress, up to the review it records: it may still be undone.
Undecided ==
  action = "accept" /\ pc \in {"apply", "persist", "rollback", "rollback_worktree"}

StandingIndex == IF Undecided THEN snapshot.index ELSE index
StandingFiles == IF Undecided THEN snapshot.worktree ELSE worktree

Contract == INSTANCE ReviewContract WITH
  result <- produced, apart <- isolated, index <- StandingIndex, files <- StandingFiles,
  pending <- intent, review <- receipt.review

\* A review is what its contract says: Accept is all of it or nothing, onto paths
\* nobody changed; no decision is forgotten before it is recorded; no Reject is
\* recorded with something left of its run; and only a fault leaves a half
\* (review_transaction.rs, "Accept is all-or-nothing from the active checkout's point
\* of view"; review_evidence_gate.rs).
ReviewKeepsContract == Contract!ContractSpec

\* A Reject that was interrupted after its intent became durable is finished and
\* recorded by pressing Reject again.
PendingRejectCompletes ==
  intent = "reject" ~>
    receipt.review # None /\ receipt.review.decision = "rejected"
=============================================================================
