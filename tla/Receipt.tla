------------------------------ MODULE Receipt ------------------------------
(***************************************************************************)
(* The evidence ledger of one task run (workflow/receipt.rs): the value    *)
(* stored in run_dir/task-run-receipt.json and the pure rules that every   *)
(* reader and writer of that file applies.                                 *)
(*                                                                         *)
(* A Git tree is a function from paths to contents, so that tree equality  *)
(* is byte equality and the staged paths are where two trees differ.  The  *)
(* changeset digest is the SHA-256 of a set of paths: it is represented by *)
(* that set.  An Option of the source is a value or None.                  *)
(***************************************************************************)
CONSTANTS
  Run,      \* orchestration run ids
  Path,     \* repo-relative paths
  Content,  \* file contents, one of which may stand for "absent"
  Commit,   \* commit object ids
  None      \* the absent value

Tree == [Path -> Content]
Digest == SUBSET Path

Review == [run_id : Run, decision : {"accepted", "rejected"},
           reviewed_paths : SUBSET Path, changeset_digest : Digest,
           index_tree_after_accept : Tree \cup {None}]

Verification == [run_id : Run, head_sha : Commit, index_tree_sha : Tree,
                 changeset_digest : Digest, success : BOOLEAN]

Finish == [run_id : Run, commit_sha : Commit, committed_paths : SUBSET Path]

\* changeset_digest is that of the ExecutionReceipt; None is a no-change run.
TaskRunReceipt == [run_id : Run, changeset_digest : Digest \cup {None},
                   review : Review \cup {None},
                   verification : Verification \cup {None},
                   finish : Finish \cup {None}]

\* None is a value apart from every record and tree it stands beside.
ASSUME NoneAssumption ==
  /\ None \notin Run /\ None \notin Commit /\ None \notin Tree
  /\ \A d \in Digest : d # None
  /\ None \notin Review /\ None \notin Verification /\ None \notin Finish
  /\ None \notin TaskRunReceipt

----------------------------------------------------------------------------

\* Where two trees differ: `git diff --cached --name-only` of HEAD and the index.
DiffPaths(old, new) == {p \in Path : old[p] # new[p]}

\* A receipt as finalize_execution_evidence writes it for a run that has ended.
FreshReceipt(run, digest) ==
  [run_id |-> run, changeset_digest |-> digest,
   review |-> None, verification |-> None, finish |-> None]

AcceptedReview(r) == r.review # None /\ r.review.decision = "accepted"

\* An Accepted review of this run and of the run's exact path set.
BoundReview(r) ==
  /\ AcceptedReview(r)
  /\ r.review.run_id = r.run_id
  /\ r.review.changeset_digest = r.changeset_digest

valid_for(v, head, tree, digest) ==
  /\ v.success
  /\ v.head_sha = head
  /\ v.index_tree_sha = tree
  /\ v.changeset_digest = digest

\* The invariants checked on every read and before every write of the file.
validate_receipt(r) ==
  /\ r.review # None =>
       /\ r.review.run_id = r.run_id
       /\ r.review.decision = "accepted" =>
            /\ r.review.changeset_digest = r.changeset_digest
            /\ r.review.index_tree_after_accept # None
  /\ r.verification # None =>
       /\ r.verification.run_id = r.run_id
       /\ r.changeset_digest # None =>
            /\ AcceptedReview(r)
            /\ r.review.changeset_digest = r.changeset_digest
            /\ r.verification.changeset_digest = r.changeset_digest
            /\ r.verification.index_tree_sha = r.review.index_tree_after_accept
  /\ r.finish # None => r.finish.run_id = r.run_id

\* An unfinished Accepted review whose tree is no longer the index.
StaleReview(r, tree) ==
  /\ r.finish = None
  /\ AcceptedReview(r)
  /\ ~ (BoundReview(r) /\ r.review.index_tree_after_accept = tree)

invalidate_stale_review_tree(r, tree) ==
  IF StaleReview(r, tree)
  THEN [r EXCEPT !.review = None, !.verification = None, !.finish = None]
  ELSE r

\* What load_receipt returns and leaves in the file: the first load that sees
\* another index tree drops the approval durably.
load_receipt(file, tree) ==
  IF file = None THEN None ELSE invalidate_stale_review_tree(file, tree)

\* reviewed_tree_sha_for succeeds: a no-change run needs no review, any other
\* run needs a bound Accepted review of exactly the current index tree.
reviewed_tree_ok(r, tree) ==
  \/ r.changeset_digest = None
  \/ BoundReview(r) /\ r.review.index_tree_after_accept = tree

\* The Safe Commit Manifest of r is Ready at this HEAD, index and staged path set,
\* the project's scope, acceptance and attribution policies apart.
manifest_ready(r, head, tree, staged) ==
  /\ r # None
  /\ r.finish = None
  /\ r.changeset_digest # None
  /\ BoundReview(r)
  /\ r.review.index_tree_after_accept = tree
  /\ r.verification # None
  /\ r.verification.run_id = r.run_id
  /\ valid_for(r.verification, head, tree, r.changeset_digest)
  /\ staged # {}
  /\ staged = r.review.reviewed_paths

\* The receipt record_review saves: a review supersedes verification and finish.
WithReview(r, decision, paths, tree) ==
  [r EXCEPT !.review =
       [run_id |-> r.run_id, decision |-> decision, reviewed_paths |-> paths,
        changeset_digest |-> IF r.changeset_digest = None THEN paths
                             ELSE r.changeset_digest,
        index_tree_after_accept |-> IF decision = "accepted" THEN tree ELSE None],
     !.verification = None, !.finish = None]

\* The receipt run_verification saves, bound to the HEAD and tree captured
\* before the checks ran; a re-verification supersedes a prior finish.
WithVerification(r, head, tree, success) ==
  [r EXCEPT !.verification =
       [run_id |-> r.run_id, head_sha |-> head, index_tree_sha |-> tree,
        changeset_digest |-> IF r.changeset_digest = None THEN {}
                             ELSE r.changeset_digest,
        success |-> success],
     !.finish = None]

WithFinish(r, commit, paths) ==
  [r EXCEPT !.finish =
       [run_id |-> r.run_id, commit_sha |-> commit, committed_paths |-> paths]]
=============================================================================
