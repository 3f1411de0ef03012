--------------------------- MODULE EvidenceLedger ---------------------------
(***************************************************************************)
(* The operations that share one evidence file.  Verify, Accept and the    *)
(* end of a run each load task-run-receipt.json, work on the loaded value  *)
(* and save the whole file again; no lock orders them, and Verify runs the *)
(* project's checks - minutes - between its load and its save              *)
(* (workflow/finish.rs, orchestrator/review.rs, execution_evidence.rs).    *)
(* The checks run in the working tree; the evidence names the index tree.  *)
(***************************************************************************)
EXTENDS Naturals, FiniteSets, Receipt

CONSTANTS
  Verifier,     \* the surfaces that can run a verification: desktop, CLI
  Root, BaseContent,
  Tidy,         \* the working tree always holds what is staged
  Broken,       \* the trees the project's checks fail on
  ChangeSets,   \* the path sets a run may report as changed
  MaxEdits      \* bound on the user's own edits

ASSUME LedgerAssumption ==
  /\ Root \in Commit /\ BaseContent \in Content
  /\ Tidy \in BOOLEAN
  /\ Broken \subseteq Tree
  /\ ChangeSets \subseteq Digest \ {{}}
  /\ MaxEdits \in Nat

\* What a verification has captured, and an Accept under way.
Captured == [receipt : TaskRunReceipt, head : Commit, tree : Tree]
Acceptance == [run : Run, paths : SUBSET Path, index_before : Tree,
               receipt : TaskRunReceipt \cup {None}]

ASSUME LedgerNoneAssumption == None \notin Captured /\ None \notin Acceptance

VARIABLES
  serial,     \* a configuration: nothing runs beside an operation in flight
  trees,      \* the tree of each commit that exists
  head,       \* the commit HEAD names
  index, worktree,
  receipt,    \* task-run-receipt.json
  launched,   \* the run ids used
  checking,   \* per verifier: what it loaded and captured before the checks
  accepting,  \* the Accept in flight: the run, and the receipt once loaded
  edits,
  accepted,   \* history: the (run, tree) pairs a human accepted
  dropped     \* history: those invalidated durably since

repo == <<trees, head, index, worktree>>
vars == <<serial, repo, receipt, launched, checking, accepting, edits, accepted, dropped>>

InFlight == accepting # None \/ \E v \in Verifier : checking[v] # None
MayStart == serial => ~ InFlight

Init ==
  /\ serial \in BOOLEAN
  /\ trees = [c \in Commit |-> IF c = Root THEN [p \in Path |-> BaseContent]
                               ELSE None]
  /\ head = Root
  /\ index = [p \in Path |-> BaseContent]
  /\ worktree = index
  /\ receipt = None
  /\ launched = {}
  /\ checking = [v \in Verifier |-> None]
  /\ accepting = None
  /\ edits = 0
  /\ accepted = {} /\ dropped = {}

\* load_receipt: what it returns it also leaves in the file, and an approval it
\* finds stale is dropped for good.
Loaded == load_receipt(receipt, index)

Drops ==
  IF receipt # None /\ StaleReview(receipt, index)
  THEN {<<receipt.review.run_id, receipt.review.index_tree_after_accept>>}
  ELSE {}

----------------------------------------------------------------------------
\* finalize_execution_evidence: the receipt of a run that has ended replaces
\* whatever the file holds.
finalize_execution_evidence ==
  /\ MayStart
  /\ \E run \in Run \ launched, digest \in ChangeSets \cup {None} :
       /\ receipt' = FreshReceipt(run, digest)
       /\ launched' = launched \cup {run}
  /\ dropped' = dropped \cup Drops
  /\ UNCHANGED <<serial, repo, checking, accepting, edits, accepted>>

\* Mutant: a stale approval is dropped from what the load returns, not from the
\* file.
PollInMemoryOnly ==
  /\ MayStart
  /\ dropped' = dropped \cup Drops
  /\ UNCHANGED <<serial, repo, receipt, launched, checking, accepting, edits,
                 accepted>>

PollReceipt ==
  /\ MayStart
  /\ receipt' = Loaded
  /\ receipt' # receipt
  /\ dropped' = dropped \cup Drops
  /\ UNCHANGED <<serial, repo, launched, checking, accepting, edits, accepted>>

\* Accept: the run's paths are staged from the working tree...
AcceptStages ==
  /\ MayStart
  /\ accepting = None
  /\ receipt # None
  /\ receipt.changeset_digest # None
  /\ accepting' = [run |-> receipt.run_id, paths |-> receipt.changeset_digest,
                   receipt |-> None, index_before |-> index]
  /\ \E bytes \in [receipt.changeset_digest -> Content] :
       LET Placed(tree) == [p \in Path |-> IF p \in DOMAIN bytes THEN bytes[p]
                                           ELSE tree[p]]
       IN index' = Placed(index) /\ worktree' = Placed(worktree)
  /\ receipt' = Loaded
  /\ dropped' = dropped \cup Drops
  /\ UNCHANGED <<serial, trees, head, launched, checking, edits, accepted>>

\* ... then record_review loads the receipt of that run, or the staging is
\* rolled back when the file belongs to another one by now ...
AcceptLoads ==
  /\ accepting # None
  /\ accepting.receipt = None
  /\ receipt' = Loaded
  /\ dropped' = dropped \cup Drops
  /\ \/ /\ receipt'.run_id = accepting.run
        /\ accepting' = [accepting EXCEPT !.receipt =
             WithReview(receipt', "accepted", accepting.paths, index)]
        /\ UNCHANGED index
     \/ /\ receipt'.run_id # accepting.run
        /\ accepting' = None
        /\ index' = accepting.index_before
  /\ UNCHANGED <<serial, trees, head, worktree, launched, checking, edits, accepted>>

\* ... and saves it with the review.
AcceptSaves ==
  /\ accepting # None
  /\ accepting.receipt # None
  /\ receipt' = accepting.receipt
  /\ LET approval == <<accepting.run,
                       accepting.receipt.review.index_tree_after_accept>>
     IN /\ accepted' = accepted \cup {approval}
        /\ dropped' = (dropped \cup Drops) \ {approval}
  /\ accepting' = None
  /\ UNCHANGED <<serial, repo, launched, checking, edits>>

\* run_verification up to the checks: HEAD, index and receipt are captured.
VerifyStarts(v) ==
  /\ MayStart
  /\ checking[v] = None
  /\ receipt # None
  /\ reviewed_tree_ok(Loaded, index)
  /\ receipt' = Loaded
  /\ checking' = [checking EXCEPT ![v] =
                    [receipt |-> Loaded, head |-> head, tree |-> index]]
  /\ dropped' = dropped \cup Drops
  /\ UNCHANGED <<serial, repo, launched, accepting, edits, accepted>>

\* Mutant: HEAD and the index are read when the checks end.
VerifySavesCurrentTree(v) ==
  /\ checking[v] # None
  /\ receipt' = WithVerification(checking[v].receipt, head, index,
                                 worktree \notin Broken)
  /\ checking' = [checking EXCEPT ![v] = None]
  /\ dropped' = dropped \cup Drops
  /\ UNCHANGED <<serial, repo, launched, accepting, edits, accepted>>

\* Mutant: the checks run on a clean checkout of HEAD.
VerifySavesChecksOfHead(v) ==
  /\ checking[v] # None
  /\ receipt' = WithVerification(checking[v].receipt, checking[v].head,
                                 checking[v].tree, trees[head] \notin Broken)
  /\ checking' = [checking EXCEPT ![v] = None]
  /\ dropped' = dropped \cup Drops
  /\ UNCHANGED <<serial, repo, launched, accepting, edits, accepted>>

\* The checks end and the receipt loaded before them is saved with their result.
VerifySaves(v) ==
  /\ checking[v] # None
  /\ receipt' = WithVerification(checking[v].receipt, checking[v].head,
                                 checking[v].tree, worktree \notin Broken)
  /\ checking' = [checking EXCEPT ![v] = None]
  /\ dropped' = dropped \cup Drops
  /\ UNCHANGED <<serial, repo, launched, accepting, edits, accepted>>

\* Mutant: `git commit -a`.
CommitWorktree ==
  /\ MayStart
  /\ manifest_ready(Loaded, head, index, DiffPaths(trees[head], index))
  /\ \E c \in Commit :
       /\ trees[c] = None
       /\ trees' = [trees EXCEPT ![c] = worktree]
       /\ head' = c
       /\ receipt' = WithFinish(Loaded, c, receipt.review.reviewed_paths)
  /\ UNCHANGED <<serial, index, worktree, launched, checking, accepting, edits,
                 accepted, dropped>>

\* Mutant: the id of the commit is not read back from Git.
CommitUnnamed ==
  /\ MayStart
  /\ manifest_ready(Loaded, head, index, DiffPaths(trees[head], index))
  /\ \E c \in Commit :
       /\ trees[c] = None
       /\ trees' = [trees EXCEPT ![c] = index]
       /\ head' = c
       /\ receipt' = WithFinish(Loaded, None, receipt.review.reviewed_paths)
  /\ UNCHANGED <<serial, index, worktree, launched, checking, accepting, edits,
                 accepted, dropped>>

\* Finish, in one step, for a Ready manifest (FinishRecovery has its steps).
CommitReviewed ==
  /\ MayStart
  /\ manifest_ready(Loaded, head, index, DiffPaths(trees[head], index))
  /\ \E c \in Commit :
       /\ trees[c] = None
       /\ trees' = [trees EXCEPT ![c] = index]
       /\ head' = c
       /\ receipt' = WithFinish(Loaded, c, receipt.review.reviewed_paths)
  /\ UNCHANGED <<serial, index, worktree, launched, checking, accepting, edits,
                 accepted, dropped>>

----------------------------------------------------------------------------
\* The user's own edits, from an editor and from Git

UserEdits ==
  /\ MayStart
  /\ edits < MaxEdits /\ edits' = edits + 1
  /\ \E p \in Path, c \in Content :
       \/ /\ index' = [index EXCEPT ![p] = c]
          /\ worktree' = [worktree EXCEPT ![p] = c]
       \/ /\ ~ Tidy
          /\ worktree' = [worktree EXCEPT ![p] = c]
          /\ UNCHANGED index
  /\ UNCHANGED <<serial, trees, head, receipt, launched, checking, accepting,
                 accepted, dropped>>

Next ==
  \/ finalize_execution_evidence \/ PollReceipt
  \/ AcceptStages \/ AcceptLoads \/ AcceptSaves
  \/ \E v \in Verifier : VerifyStarts(v) \/ VerifySaves(v)
  \/ CommitReviewed \/ UserEdits

Spec == Init /\ [][Next]_vars

----------------------------------------------------------------------------
\* Properties

TypeOK ==
  /\ serial \in BOOLEAN
  /\ trees \in [Commit -> Tree \cup {None}] /\ head \in Commit
  /\ index \in Tree /\ worktree \in Tree
  /\ receipt \in TaskRunReceipt \cup {None}
  /\ launched \in SUBSET Run
  /\ checking \in [Verifier -> Captured \cup {None}]
  /\ accepting \in Acceptance \cup {None}
  /\ edits \in 0 .. MaxEdits
  /\ accepted \in SUBSET (Run \X Tree) /\ dropped \in SUBSET (Run \X Tree)

\* However the operations interleave, recorded finish evidence names a commit
\* whose tree a human accepted for that run (finish.rs, receipt.rs).
FinishWasAccepted ==
  receipt # None /\ receipt.finish # None =>
    <<receipt.finish.run_id, trees[receipt.finish.commit_sha]>> \in accepted

\* The approval a load of the ledger returns has not been invalidated durably since
\* it was given (receipt.rs: "simply restoring the old bytes may not resurrect a
\* human approval that was invalidated by an intervening tree").
ApprovalStands ==
  LET r == Loaded IN
  r # None /\ r.finish = None /\ AcceptedReview(r) =>
    <<r.review.run_id, r.review.index_tree_after_accept>> \notin dropped

\* One operation at a time, an approval that a load invalidated durably comes back
\* only by a new Accept, even when the old index does (receipt.rs: load_receipt).
NoResurrectedApproval == serial => ApprovalStands

\* However the operations interleave, the ledger satisfies validate_receipt, so no
\* later load refuses it as corrupt: a verification saved late is still of the
\* tree of the review it is saved beside.
LedgerValid == receipt # None => validate_receipt(receipt)

SuccessMeansPassing ==
  receipt # None /\ receipt.verification # None /\ receipt.verification.success =>
    receipt.verification.index_tree_sha \notin Broken

\* One operation at a time and nothing unstaged, a successful verification is of
\* an index tree the checks really pass on (finish.rs: run_verification).
VerifiedTreePasses == serial /\ Tidy => SuccessMeansPassing

\* The same with unstaged work in the checkout (receipt.rs: "Proof that final
\* verification ran against the **current** HEAD, index tree, and reviewed
\* changeset").
VerificationIsOfTheIndex == serial => SuccessMeansPassing
=============================================================================
