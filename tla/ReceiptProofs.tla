--------------------------- MODULE ReceiptProofs ---------------------------
(***************************************************************************)
(* What the operators of Receipt return and preserve: each holds for every *)
(* receipt, and so for every writer of task-run-receipt.json.              *)
(***************************************************************************)
EXTENDS Receipt, TLAPS

\* A load returns the receipt as it is, or the same run without its evidence.
LEMMA LoadEffect ==
  ASSUME NEW r \in TaskRunReceipt, NEW tree
  PROVE  /\ load_receipt(r, tree) \in TaskRunReceipt
         /\ load_receipt(r, tree) # None
         /\ load_receipt(r, tree).run_id = r.run_id
         /\ load_receipt(r, tree).changeset_digest = r.changeset_digest
         /\ \/ load_receipt(r, tree) = r
            \/ /\ load_receipt(r, tree).review = None
               /\ load_receipt(r, tree).verification = None
               /\ load_receipt(r, tree).finish = None
<1>1. r # None
  BY NoneAssumption
<1>2. load_receipt(r, tree) = invalidate_stale_review_tree(r, tree)
  BY <1>1 DEF load_receipt
<1>3. [r EXCEPT !.review = None, !.verification = None, !.finish = None]
        \in TaskRunReceipt
  BY DEF TaskRunReceipt
<1>4. load_receipt(r, tree) \in TaskRunReceipt
  BY <1>2, <1>3 DEF invalidate_stale_review_tree
<1>5. QED
  BY <1>2, <1>4, NoneAssumption DEF invalidate_stale_review_tree, TaskRunReceipt

\* A load keeps a recorded finish, and so does not undo a commit's evidence.
LEMMA LoadKeepsFinish ==
  ASSUME NEW r \in TaskRunReceipt, NEW tree, r.finish # None
  PROVE  load_receipt(r, tree) = r
BY NoneAssumption DEF load_receipt, invalidate_stale_review_tree, StaleReview

\* An approval that a load returns on an unfinished receipt is of the tree in the
\* index now (receipt.rs: invalidate_stale_review_tree).
LEMMA LoadedApprovalIsCurrent ==
  ASSUME NEW r \in TaskRunReceipt, NEW tree,
         load_receipt(r, tree).finish = None,
         AcceptedReview(load_receipt(r, tree))
  PROVE  /\ BoundReview(load_receipt(r, tree))
         /\ load_receipt(r, tree).review.index_tree_after_accept = tree
<1>1. load_receipt(r, tree) = invalidate_stale_review_tree(r, tree)
  BY NoneAssumption DEF load_receipt
<1>2. CASE StaleReview(r, tree)
  <2>1. load_receipt(r, tree).review = None
    BY <1>1, <1>2 DEF invalidate_stale_review_tree, TaskRunReceipt
  <2>2. QED
    BY <2>1 DEF AcceptedReview
<1>3. CASE ~ StaleReview(r, tree)
  <2>1. load_receipt(r, tree) = r
    BY <1>1, <1>3 DEF invalidate_stale_review_tree
  <2>2. QED
    BY <1>3, <2>1 DEF StaleReview
<1>4. QED
  BY <1>2, <1>3

LEMMA ReviewType ==
  ASSUME NEW r \in TaskRunReceipt, NEW decision \in {"accepted", "rejected"},
         NEW paths \in SUBSET Path, NEW tree \in Tree
  PROVE  /\ WithReview(r, decision, paths, tree) \in TaskRunReceipt
         /\ WithReview(r, decision, paths, tree).run_id = r.run_id
         /\ WithReview(r, decision, paths, tree).finish = None
         /\ WithReview(r, decision, paths, tree).verification = None
         /\ WithReview(r, decision, paths, tree).changeset_digest
              = r.changeset_digest
         /\ WithReview(r, decision, paths, tree).review # None
         /\ WithReview(r, decision, paths, tree).review.run_id = r.run_id
         /\ WithReview(r, decision, paths, tree).review.decision = decision
         /\ WithReview(r, decision, paths, tree).review.index_tree_after_accept
              = (IF decision = "accepted" THEN tree ELSE None)
         /\ r.changeset_digest # None =>
              WithReview(r, decision, paths, tree).review.changeset_digest
                = r.changeset_digest
<1> DEFINE review ==
      [run_id |-> r.run_id, decision |-> decision, reviewed_paths |-> paths,
       changeset_digest |-> IF r.changeset_digest = None THEN paths
                            ELSE r.changeset_digest,
       index_tree_after_accept |-> IF decision = "accepted" THEN tree ELSE None]
<1>1. review \in Review
  BY DEF Review, TaskRunReceipt, Digest
<1>2. WithReview(r, decision, paths, tree)
        = [r EXCEPT !.review = review, !.verification = None, !.finish = None]
  BY DEF WithReview
<1>3. review # None
  BY <1>1, NoneAssumption
<1> HIDE DEF review
<1>4. /\ WithReview(r, decision, paths, tree) \in TaskRunReceipt
      /\ WithReview(r, decision, paths, tree).run_id = r.run_id
      /\ WithReview(r, decision, paths, tree).finish = None
      /\ WithReview(r, decision, paths, tree).verification = None
      /\ WithReview(r, decision, paths, tree).changeset_digest
           = r.changeset_digest
      /\ WithReview(r, decision, paths, tree).review = review
  BY <1>1, <1>2 DEF TaskRunReceipt
<1>5. QED
  BY <1>3, <1>4 DEF review

LEMMA VerificationType ==
  ASSUME NEW r \in TaskRunReceipt, NEW head \in Commit, NEW tree \in Tree,
         NEW success \in BOOLEAN
  PROVE  LET w == WithVerification(r, head, tree, success) IN
         /\ w \in TaskRunReceipt
         /\ w.run_id = r.run_id
         /\ w.changeset_digest = r.changeset_digest
         /\ w.review = r.review
         /\ w.finish = None
         /\ w.verification # None
         /\ w.verification.run_id = r.run_id
         /\ w.verification.index_tree_sha = tree
         /\ w.verification.success = success
         /\ r.changeset_digest # None =>
              w.verification.changeset_digest = r.changeset_digest
<1> DEFINE verification ==
      [run_id |-> r.run_id, head_sha |-> head, index_tree_sha |-> tree,
       changeset_digest |-> IF r.changeset_digest = None THEN {}
                            ELSE r.changeset_digest,
       success |-> success]
       w == WithVerification(r, head, tree, success)
<1>1. verification \in Verification
  BY DEF Verification, TaskRunReceipt, Digest
<1>2. w = [r EXCEPT !.verification = verification, !.finish = None]
  BY DEF WithVerification
<1>3. verification # None
  BY <1>1, NoneAssumption
<1> HIDE DEF verification, w
<1>4. /\ w \in TaskRunReceipt
      /\ w.run_id = r.run_id
      /\ w.changeset_digest = r.changeset_digest
      /\ w.review = r.review
      /\ w.finish = None
      /\ w.verification = verification
  BY <1>1, <1>2 DEF TaskRunReceipt
<1>5. /\ w.verification # None
      /\ w.verification.run_id = r.run_id
      /\ w.verification.index_tree_sha = tree
      /\ w.verification.success = success
      /\ r.changeset_digest # None =>
           w.verification.changeset_digest = r.changeset_digest
  BY <1>3, <1>4 DEF verification
<1>6. QED
  BY <1>4, <1>5 DEF w

LEMMA FinishType ==
  ASSUME NEW r \in TaskRunReceipt, NEW commit \in Commit, NEW paths \in SUBSET Path
  PROVE  LET w == WithFinish(r, commit, paths) IN
         /\ w \in TaskRunReceipt
         /\ w.run_id = r.run_id
         /\ w.changeset_digest = r.changeset_digest
         /\ w.review = r.review
         /\ w.verification = r.verification
         /\ w.finish # None
         /\ w.finish.run_id = r.run_id
         /\ w.finish.commit_sha = commit
<1> DEFINE finish == [run_id |-> r.run_id, commit_sha |-> commit,
                      committed_paths |-> paths]
       w == WithFinish(r, commit, paths)
<1>1. finish \in Finish
  BY DEF Finish, TaskRunReceipt
<1>2. w = [r EXCEPT !.finish = finish]
  BY DEF WithFinish
<1>3. finish # None
  BY <1>1, NoneAssumption
<1> HIDE DEF finish, w
<1>4. /\ w \in TaskRunReceipt
      /\ w.run_id = r.run_id
      /\ w.changeset_digest = r.changeset_digest
      /\ w.review = r.review
      /\ w.verification = r.verification
      /\ w.finish = finish
  BY <1>1, <1>2 DEF TaskRunReceipt
<1>5. /\ w.finish # None
      /\ w.finish.run_id = r.run_id
      /\ w.finish.commit_sha = commit
  BY <1>3, <1>4 DEF finish
<1>6. QED
  BY <1>4, <1>5 DEF w

----------------------------------------------------------------------------
\* validate_receipt, checked on every read and before every write, is never what
\* stops a writer: each writer turns a valid receipt into a valid one.

LEMMA LoadKeepsValid ==
  ASSUME NEW r \in TaskRunReceipt, NEW tree, validate_receipt(r)
  PROVE  validate_receipt(load_receipt(r, tree))
<1>1. CASE load_receipt(r, tree) = r
  BY <1>1
<1>2. CASE load_receipt(r, tree) # r
  BY <1>2, LoadEffect DEF validate_receipt
<1>3. QED
  BY <1>1, <1>2

LEMMA ReviewKeepsValid ==
  ASSUME NEW r \in TaskRunReceipt, NEW decision \in {"accepted", "rejected"},
         NEW paths \in SUBSET Path, NEW tree \in Tree,
         r.changeset_digest # None
  PROVE  validate_receipt(WithReview(r, decision, paths, tree))
<1> DEFINE w == WithReview(r, decision, paths, tree)
<1>1. w.finish = None /\ w.verification = None
  BY ReviewType
<1>2. w.review.run_id = w.run_id
  BY ReviewType
<1>3. w.review.decision = "accepted" =>
        /\ w.review.changeset_digest = w.changeset_digest
        /\ w.review.index_tree_after_accept = tree
  BY ReviewType
<1>4. tree # None
  BY NoneAssumption
<1> HIDE DEF w
<1>5. validate_receipt(w)
  BY <1>1, <1>2, <1>3, <1>4 DEF validate_receipt
<1>6. QED
  BY <1>5 DEF w

LEMMA VerificationKeepsValid ==
  ASSUME NEW r \in TaskRunReceipt, NEW head \in Commit, NEW tree \in Tree,
         NEW success \in BOOLEAN,
         validate_receipt(r), reviewed_tree_ok(r, tree)
  PROVE  validate_receipt(WithVerification(r, head, tree, success))
<1> DEFINE w == WithVerification(r, head, tree, success)
<1>1. /\ w.run_id = r.run_id
      /\ w.changeset_digest = r.changeset_digest
      /\ w.review = r.review
      /\ w.finish = None
      /\ w.verification.run_id = w.run_id
      /\ w.verification.index_tree_sha = tree
      /\ r.changeset_digest # None =>
           w.verification.changeset_digest = r.changeset_digest
  BY VerificationType
<1> HIDE DEF w
<1>2. r.changeset_digest # None =>
        /\ AcceptedReview(w)
        /\ w.review.changeset_digest = w.changeset_digest
        /\ w.verification.changeset_digest = w.changeset_digest
        /\ w.verification.index_tree_sha = w.review.index_tree_after_accept
  BY <1>1 DEF reviewed_tree_ok, BoundReview, AcceptedReview
<1>3. validate_receipt(w)
  BY <1>1, <1>2 DEF validate_receipt
<1>4. QED
  BY <1>3 DEF w

LEMMA FinishKeepsValid ==
  ASSUME NEW r \in TaskRunReceipt, NEW commit \in Commit, NEW paths \in SUBSET Path,
         validate_receipt(r)
  PROVE  validate_receipt(WithFinish(r, commit, paths))
<1> DEFINE w == WithFinish(r, commit, paths)
<1>1. /\ w.run_id = r.run_id
      /\ w.changeset_digest = r.changeset_digest
      /\ w.review = r.review
      /\ w.verification = r.verification
      /\ w.finish.run_id = r.run_id
  BY FinishType
<1> HIDE DEF w
<1>2. validate_receipt(w)
  BY <1>1 DEF validate_receipt, AcceptedReview
<1>3. QED
  BY <1>2 DEF w
=============================================================================
