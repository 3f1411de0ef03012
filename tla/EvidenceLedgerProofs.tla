------------------------ MODULE EvidenceLedgerProofs ------------------------
(***************************************************************************)
(* The invariants of EvidenceLedger, for any runs, paths, verifiers and    *)
(* edits, whether or not the operations overlap.                           *)
(***************************************************************************)
EXTENDS MCLedgerPolicy, CommitGovernanceProofs

\* The receipts that are, or may come to be, in the file: what it holds, what a
\* verification holds while its checks run, what an Accept is about to save.
AtHand == ({receipt} \cup {checking[v].receipt : v \in {w \in Verifier : checking[w] # None}})
          \ {None}
Prepared == (IF accepting # None THEN {accepting.receipt} ELSE {}) \ {None}

TypeInv ==
  /\ TypeOK
  /\ accepting # None => receipt # None

\* A run has one ChangeSet, whichever receipt of it one looks at.
RunsInv ==
  /\ \A r \in AtHand \cup Prepared : r.run_id \in launched
  /\ \A r, s \in AtHand \cup Prepared :
       r.run_id = s.run_id => r.changeset_digest = s.changeset_digest
  /\ accepting # None =>
       /\ accepting.run \in launched
       /\ \A r \in AtHand \cup Prepared :
            r.run_id = accepting.run => r.changeset_digest = accepting.paths

\* What a receipt says was accepted or committed, was.
Backed(r, given, committed) ==
  /\ AcceptedReview(r) =>
       <<r.review.run_id, r.review.index_tree_after_accept>> \in given
  /\ r.finish # None =>
       /\ committed[r.finish.commit_sha] # None
       /\ <<r.finish.run_id, committed[r.finish.commit_sha]>> \in given

PreparedFor(r, run) ==
  /\ r.run_id = run /\ validate_receipt(r)
  /\ r.review # None /\ r.review.run_id = run
  /\ r.review.index_tree_after_accept \in Tree
  /\ r.verification = None /\ r.finish = None

SoundInv ==
  /\ \A r \in AtHand : validate_receipt(r) /\ Backed(r, accepted, trees)
  /\ \A v \in Verifier : checking[v] # None =>
       reviewed_tree_ok(checking[v].receipt, checking[v].tree)
  /\ \A r \in Prepared : PreparedFor(r, accepting.run)

\* With nothing beside an operation, what it captured is still so.
SerialInv ==
  serial =>
    /\ \A v \in Verifier : checking[v] # None =>
         /\ checking[v].receipt = receipt /\ checking[v].tree = index
         /\ accepting = None
         /\ \A w \in Verifier : checking[w] # None => w = v
    /\ accepting # None => receipt.run_id = accepting.run
    /\ receipt # None /\ AcceptedReview(receipt) =>
         <<receipt.review.run_id, receipt.review.index_tree_after_accept>> \notin dropped
    /\ Tidy => worktree = index /\ SuccessMeansPassing

Inv == TypeInv /\ RunsInv /\ SoundInv /\ SerialInv
----------------------------------------------------------------------------
\* Facts about the receipts at hand

LEMMA InUseType ==
  ASSUME TypeInv
  PROVE  AtHand \cup Prepared \subseteq TaskRunReceipt
BY NoneAssumption DEF TypeInv, TypeOK, AtHand, Prepared, Captured, Acceptance

LEMMA ReceiptAtHand == receipt # None => receipt \in AtHand
BY DEF AtHand

LEMMA CheckingAtHand ==
  ASSUME TypeInv, NEW v \in Verifier, checking[v] # None
  PROVE  checking[v].receipt \in AtHand
<1>1. checking[v].receipt \in TaskRunReceipt
  BY DEF TypeInv, TypeOK, Captured
<1>2. checking[v].receipt \in {checking[w].receipt : w \in {u \in Verifier : checking[u] # None}}
  OBVIOUS
<1>3. QED
  BY <1>1, <1>2, NoneAssumption DEF AtHand

\* A load returns the receipt of the file, without its evidence when the index has
\* moved from under an approval.
LEMMA LoadedIs ==
  ASSUME TypeInv
  PROVE  /\ Loaded = None <=> receipt = None
         /\ receipt # None =>
              /\ Loaded \in TaskRunReceipt
              /\ Loaded.run_id = receipt.run_id
              /\ Loaded.changeset_digest = receipt.changeset_digest
              /\ \/ Loaded = receipt
                 \/ /\ Loaded.review = None
                    /\ Loaded.verification = None
                    /\ Loaded.finish = None
<1>1. CASE receipt = None
  BY <1>1 DEF Loaded, load_receipt
<1>2. CASE receipt # None
  <2>1. receipt \in TaskRunReceipt
    BY <1>2 DEF TypeInv, TypeOK
  <2>2. QED
    BY <1>2, <2>1, LoadEffect DEF Loaded
<1>3. QED
  BY <1>1, <1>2

\* A Ready manifest is of a receipt whose approval the load kept.
LEMMA ReadyIs ==
  ASSUME TypeInv, NEW changed, manifest_ready(Loaded, head, index, changed)
  PROVE  /\ receipt # None /\ Loaded = receipt
         /\ AcceptedReview(receipt) /\ receipt.review.run_id = receipt.run_id
         /\ receipt.review.index_tree_after_accept = index
         /\ receipt.review.reviewed_paths \in SUBSET Path
<1>1. /\ Loaded # None /\ BoundReview(Loaded)
      /\ Loaded.review.index_tree_after_accept = index
  BY DEF manifest_ready
<1>2. receipt # None /\ Loaded = receipt
  BY <1>1, LoadedIs DEF BoundReview, AcceptedReview
<1>3. receipt \in TaskRunReceipt
  BY <1>2 DEF TypeInv, TypeOK
<1>4. receipt.review \in Review
  BY <1>1, <1>2, <1>3 DEF TaskRunReceipt, BoundReview, AcceptedReview
<1>5. QED
  BY <1>1, <1>2, <1>4 DEF BoundReview, Review

LEMMA DropsType ==
  ASSUME TypeInv, SoundInv
  PROVE  Drops \in SUBSET (Run \X Tree)
<1>1. SUFFICES ASSUME receipt # None, StaleReview(receipt, index)
               PROVE  <<receipt.review.run_id, receipt.review.index_tree_after_accept>>
                        \in Run \X Tree
  BY DEF Drops
<1>2. receipt \in TaskRunReceipt /\ validate_receipt(receipt) /\ AcceptedReview(receipt)
  BY <1>1, ReceiptAtHand DEF TypeInv, TypeOK, SoundInv, StaleReview
<1>3. receipt.review \in Review /\ receipt.review.index_tree_after_accept # None
  BY <1>2 DEF TaskRunReceipt, AcceptedReview, validate_receipt
<1>4. QED
  BY <1>3 DEF Review

----------------------------------------------------------------------------
\* What each operation does, in the facts the invariants are about

\* A verification's receipt when its checks end.
LEMMA VerifyEffect ==
  ASSUME Inv, NEW v \in Verifier, VerifySaves(v)
  PROVE  /\ checking[v].receipt \in AtHand
         /\ receipt' \in TaskRunReceipt
         /\ receipt'.run_id = checking[v].receipt.run_id
         /\ receipt'.changeset_digest = checking[v].receipt.changeset_digest
         /\ receipt'.review = checking[v].receipt.review
         /\ receipt'.finish = None
         /\ receipt'.verification # None
         /\ receipt'.verification.index_tree_sha = checking[v].tree
         /\ (receipt'.verification.success => worktree \notin Broken)
         /\ validate_receipt(receipt')
<1> DEFINE r == checking[v].receipt
           h == checking[v].head
           t == checking[v].tree
<1>1. r \in TaskRunReceipt /\ h \in Commit /\ t \in Tree /\ r \in AtHand
  BY CheckingAtHand DEF VerifySaves, Inv, TypeInv, TypeOK, Captured
<1>2. validate_receipt(r) /\ reviewed_tree_ok(r, t)
  BY <1>1 DEF VerifySaves, Inv, SoundInv
<1>3. PICK success \in BOOLEAN :
        /\ success => worktree \notin Broken
        /\ receipt' = WithVerification(r, h, t, success)
  BY DEF VerifySaves
<1> HIDE DEF r, h, t
<1>4. validate_receipt(receipt')
  BY <1>1, <1>2, <1>3, VerificationKeepsValid
<1>5. /\ receipt' \in TaskRunReceipt
      /\ receipt'.run_id = r.run_id
      /\ receipt'.changeset_digest = r.changeset_digest
      /\ receipt'.review = r.review
      /\ receipt'.finish = None
      /\ receipt'.verification # None
      /\ receipt'.verification.index_tree_sha = t
      /\ receipt'.verification.success = success
  BY <1>1, <1>3, VerificationType
<1>6. QED
  BY <1>1, <1>3, <1>4, <1>5 DEF r, h, t

\* A commit of Finish: of the index, and the receipt names it.
LEMMA CommitEffect ==
  ASSUME Inv, CommitReviewed
  PROVE  /\ receipt \in TaskRunReceipt /\ receipt \in AtHand
         /\ AcceptedReview(receipt) /\ receipt.review.run_id = receipt.run_id
         /\ receipt.review.index_tree_after_accept = index
         /\ receipt' \in TaskRunReceipt /\ validate_receipt(receipt')
         /\ receipt'.run_id = receipt.run_id
         /\ receipt'.changeset_digest = receipt.changeset_digest
         /\ receipt'.review = receipt.review
         /\ receipt'.verification = receipt.verification
         /\ receipt'.finish.run_id = receipt.run_id
         /\ receipt'.finish.commit_sha \in Commit
         /\ trees[receipt'.finish.commit_sha] = None
         /\ trees' = [trees EXCEPT ![receipt'.finish.commit_sha] = index]
<1>1. PICK c \in Commit :
        /\ trees[c] = None /\ trees' = [trees EXCEPT ![c] = index]
        /\ head' = c
        /\ receipt' = WithFinish(Loaded, c, receipt.review.reviewed_paths)
  BY DEF CommitReviewed
<1>2. /\ receipt # None /\ Loaded = receipt
      /\ AcceptedReview(receipt) /\ receipt.review.run_id = receipt.run_id
      /\ receipt.review.index_tree_after_accept = index
      /\ receipt.review.reviewed_paths \in SUBSET Path
  BY ReadyIs DEF CommitReviewed, Inv
<1>3. receipt \in TaskRunReceipt /\ receipt \in AtHand /\ validate_receipt(receipt)
  BY <1>2, ReceiptAtHand DEF Inv, TypeInv, TypeOK, SoundInv
<1>4. /\ receipt' \in TaskRunReceipt /\ receipt'.run_id = receipt.run_id
      /\ receipt'.changeset_digest = receipt.changeset_digest
      /\ receipt'.review = receipt.review
      /\ receipt'.verification = receipt.verification
      /\ receipt'.finish.run_id = receipt.run_id /\ receipt'.finish.commit_sha = c
  BY <1>1, <1>2, <1>3, FinishType
<1>5. validate_receipt(receipt')
  BY <1>1, <1>2, <1>3, FinishKeepsValid
<1>6. QED
  BY <1>1, <1>2, <1>3, <1>4, <1>5

\* An Accept loads the receipt of its run, and reviews the tree it staged.
LEMMA AcceptLoadsEffect ==
  ASSUME Inv, AcceptLoads
  PROVE  /\ receipt # None /\ receipt' = Loaded /\ receipt' \in TaskRunReceipt
         /\ \/ /\ accepting'.receipt \in TaskRunReceipt
               /\ accepting'.receipt.changeset_digest = receipt.changeset_digest
               /\ accepting'.receipt.run_id = receipt.run_id
               /\ receipt.run_id = accepting.run
               /\ PreparedFor(accepting'.receipt, accepting.run)
               /\ accepting' = [accepting EXCEPT !.receipt = accepting'.receipt]
               /\ index' = index
            \/ /\ accepting' = None /\ index' = accepting.index_before
               /\ receipt.run_id # accepting.run
<1>1. accepting # None /\ accepting \in Acceptance /\ receipt # None
  BY DEF AcceptLoads, Inv, TypeInv, TypeOK
<1>2. receipt' = Loaded /\ receipt' \in TaskRunReceipt /\ receipt'.run_id = receipt.run_id
      /\ receipt'.changeset_digest = receipt.changeset_digest
  BY <1>1, LoadedIs DEF AcceptLoads, Inv
<1>3. CASE receipt'.run_id # accepting.run
  BY <1>1, <1>2, <1>3 DEF AcceptLoads
<1>4. CASE receipt'.run_id = accepting.run
  <2> DEFINE w == WithReview(receipt', "accepted", accepting.paths, index)
  <2>1. accepting' = [accepting EXCEPT !.receipt = w] /\ index' = index
    BY <1>4 DEF AcceptLoads
  <2>2. receipt.changeset_digest = accepting.paths
    BY <1>1, <1>2, <1>4, ReceiptAtHand DEF Inv, RunsInv
  <2>3. accepting.paths \in SUBSET Path /\ index \in Tree
    BY <1>1 DEF Acceptance, Inv, TypeInv, TypeOK
  <2>4. receipt'.changeset_digest # None
    BY <1>2, <2>2, <2>3, NoneAssumption DEF Digest
  <2>5. /\ w \in TaskRunReceipt /\ w.run_id = receipt'.run_id
        /\ w.finish = None /\ w.verification = None
        /\ w.changeset_digest = receipt'.changeset_digest
        /\ w.review # None /\ w.review.run_id = receipt'.run_id
        /\ w.review.index_tree_after_accept = index
    BY <1>2, <2>3, ReviewType
  <2>6. validate_receipt(w)
    BY <1>2, <2>3, <2>4, ReviewKeepsValid
  <2> HIDE DEF w
  <2>7. accepting'.receipt = w
    BY <1>1, <2>1 DEF Acceptance
  <2>8. PreparedFor(w, accepting.run)
    BY <1>4, <2>3, <2>5, <2>6 DEF PreparedFor
  <2>9. QED
    BY <1>1, <1>2, <1>4, <2>1, <2>5, <2>7, <2>8
<1>5. QED
  BY <1>3, <1>4

----------------------------------------------------------------------------
\* Type correctness

LEMMA LoadingType ==
  ASSUME TypeInv, receipt' = Loaded
  PROVE  receipt' \in TaskRunReceipt \cup {None} /\ (receipt # None => receipt' # None)
BY LoadedIs

LEMMA TypeStep == Inv /\ [Next]_vars => TypeInv'
<1> SUFFICES ASSUME Inv, [Next]_vars PROVE TypeInv'
  OBVIOUS
<1> USE DEF Inv, TypeInv, TypeOK
<1>1. Drops \in SUBSET (Run \X Tree)
  BY DropsType
<1>2. CASE finalize_execution_evidence
  <2>1. PICK run \in Run \ launched, digest \in ChangeSets \cup {None} :
          /\ receipt' = FreshReceipt(run, digest)
          /\ launched' = launched \cup {run}
    BY <1>2 DEF finalize_execution_evidence
  <2>2. digest \in Digest \cup {None}
    BY LedgerAssumption
  <2>3. receipt' \in TaskRunReceipt
    BY <2>1, <2>2 DEF FreshReceipt, TaskRunReceipt
  <2>4. QED
    BY <1>1, <1>2, <2>1, <2>3, NoneAssumption DEF finalize_execution_evidence, repo
<1>3. CASE PollReceipt
  BY <1>1, <1>3, LoadingType DEF PollReceipt, repo
<1>4. CASE AcceptStages
  <2>1. /\ receipt # None /\ receipt.run_id \in Run
        /\ receipt.changeset_digest \in SUBSET Path
    BY <1>4 DEF AcceptStages, TaskRunReceipt, Digest
  <2>2. accepting' \in Acceptance /\ accepting' # None
    BY <1>4, <2>1, LedgerNoneAssumption DEF AcceptStages, Acceptance
  <2>3. index' \in Tree /\ worktree' \in Tree
    BY <1>4 DEF AcceptStages, Tree
  <2>4. QED
    BY <1>1, <1>4, <2>1, <2>2, <2>3, LoadingType DEF AcceptStages
<1>5. CASE AcceptLoads
  <2>1. accepting \in Acceptance /\ accepting.index_before \in Tree
    BY <1>5 DEF AcceptLoads, Acceptance
  <2>2. accepting' \in Acceptance \cup {None} /\ index' \in Tree
    BY <2>1, <1>5, AcceptLoadsEffect DEF Acceptance
  <2>3. receipt' \in TaskRunReceipt
    BY <1>5, AcceptLoadsEffect
  <2>4. QED
    BY <1>1, <1>5, <2>2, <2>3, NoneAssumption DEF AcceptLoads
<1>6. CASE AcceptSaves
  <2>1. accepting \in Acceptance /\ accepting.receipt \in TaskRunReceipt
    BY <1>6 DEF AcceptSaves, Acceptance
  <2>2. accepting.receipt \in Prepared
    BY <1>6, <2>1 DEF AcceptSaves, Prepared
  <2>3. <<accepting.run, accepting.receipt.review.index_tree_after_accept>> \in Run \X Tree
    BY <2>1, <2>2 DEF SoundInv, PreparedFor, Acceptance
  <2>4. QED
    BY <1>1, <1>6, <2>1, <2>3 DEF AcceptSaves, repo
<1>7. ASSUME NEW v \in Verifier, VerifyStarts(v) PROVE TypeInv'
  <2>1. [receipt |-> Loaded, head |-> head, tree |-> index] \in Captured
    BY <1>7, LoadedIs DEF VerifyStarts, Captured
  <2>2. checking' \in [Verifier -> Captured \cup {None}]
    BY <1>7, <2>1 DEF VerifyStarts
  <2>3. QED
    BY <1>1, <1>7, <2>2, LoadingType DEF VerifyStarts, repo
<1>8. ASSUME NEW v \in Verifier, VerifySaves(v) PROVE TypeInv'
  <2>1. checking' \in [Verifier -> Captured \cup {None}]
    BY <1>8 DEF VerifySaves
  <2>2. receipt' \in TaskRunReceipt
    BY <1>8, VerifyEffect
  <2>3. QED
    BY <1>1, <1>8, <2>1, <2>2, NoneAssumption DEF VerifySaves, repo
<1>9. CASE CommitReviewed
  <2>1. trees' \in [Commit -> Tree \cup {None}] /\ receipt' \in TaskRunReceipt
    BY <1>9, CommitEffect
  <2>2. QED
    BY <1>9, <2>1, NoneAssumption DEF CommitReviewed
<1>10. CASE UserEdits
  <2>1. index' \in Tree /\ worktree' \in Tree
    BY <1>10 DEF UserEdits, Tree
  <2>2. edits' \in 0 .. MaxEdits
    BY <1>10, LedgerAssumption DEF UserEdits
  <2>3. QED
    BY <1>10, <2>1, <2>2 DEF UserEdits
<1>11. CASE UNCHANGED vars
  BY <1>11 DEF vars, repo
<1>12. QED
  BY <1>2, <1>3, <1>4, <1>5, <1>6, <1>7, <1>8, <1>9, <1>10, <1>11 DEF Next

----------------------------------------------------------------------------
\* Every receipt at hand is of a run in the ledger's past, with that run's ChangeSet.

LEMMA UseStep ==
  ASSUME Inv, [Next]_vars, ~ finalize_execution_evidence, NEW r \in AtHand' \cup Prepared'
  PROVE  \E s \in AtHand \cup Prepared :
           r.run_id = s.run_id /\ r.changeset_digest = s.changeset_digest
<1> DEFINE Known(x) == \E s \in AtHand \cup Prepared :
                          x.run_id = s.run_id /\ x.changeset_digest = s.changeset_digest
<1>1. \A s \in AtHand \cup Prepared : Known(s)
  OBVIOUS
<1>2. receipt # None => Known(Loaded)
  BY LoadedIs, ReceiptAtHand DEF Inv
<1>3. \A v \in Verifier : checking[v] # None => Known(checking[v].receipt)
  BY <1>1, CheckingAtHand DEF Inv
<1>4. accepting # None /\ accepting.receipt # None => Known(accepting.receipt)
  BY <1>1 DEF Prepared
<1>5. receipt # None => Known(receipt)
  BY <1>1, ReceiptAtHand
<1> HIDE DEF Known
<1>6. receipt' # None => Known(receipt')
  <2>1. CASE PollReceipt \/ AcceptStages \/ AcceptLoads \/ UserEdits \/ UNCHANGED vars
             \/ \E v \in Verifier : VerifyStarts(v)
    BY <2>1, <1>2, <1>5, LoadedIs DEF Inv, PollReceipt, AcceptStages, AcceptLoads, UserEdits,
       vars, VerifyStarts
  <2>2. CASE AcceptSaves
    BY <2>2, <1>4 DEF AcceptSaves
  <2>3. ASSUME NEW v \in Verifier, VerifySaves(v) PROVE Known(receipt')
    BY <2>3, VerifyEffect DEF Known
  <2>4. CASE CommitReviewed
    BY <2>4, CommitEffect DEF Known
  <2>5. QED
    BY <2>1, <2>2, <2>3, <2>4 DEF Next
<1>7. \A v \in Verifier : checking'[v] # None => Known(checking'[v].receipt)
  <2>1. CASE checking' = checking
    BY <2>1, <1>3
  <2>2. ASSUME NEW v \in Verifier, VerifyStarts(v)
        PROVE  \A w \in Verifier : checking'[w] # None => Known(checking'[w].receipt)
    BY <2>2, <1>2, <1>3 DEF VerifyStarts, Inv, TypeInv, TypeOK
  <2>3. ASSUME NEW v \in Verifier, VerifySaves(v)
        PROVE  \A w \in Verifier : checking'[w] # None => Known(checking'[w].receipt)
    BY <2>3, <1>3 DEF VerifySaves, Inv, TypeInv, TypeOK
  <2>4. QED
    BY <2>1, <2>2, <2>3
    DEF Next, PollReceipt, AcceptStages, AcceptLoads, AcceptSaves, CommitReviewed, UserEdits,
        vars
<1>8. accepting' # None /\ accepting'.receipt # None => Known(accepting'.receipt)
  <2>1. CASE AcceptLoads
    BY <2>1, AcceptLoadsEffect, ReceiptAtHand DEF Known
  <2>2. CASE accepting' = accepting
    BY <2>2, <1>4
  <2>3. QED
    BY <2>1, <2>2
    DEF Next, PollReceipt, AcceptStages, AcceptSaves, VerifyStarts, VerifySaves,
        CommitReviewed, UserEdits, vars
<1>9. Known(r)
  BY <1>6, <1>7, <1>8 DEF AtHand, Prepared
<1>10. QED
  BY <1>9 DEF Known

LEMMA RunsStep == Inv /\ [Next]_vars => RunsInv'
<1> SUFFICES ASSUME Inv, [Next]_vars PROVE RunsInv'
  OBVIOUS
<1>1. CASE finalize_execution_evidence
  <2>1. PICK run \in Run \ launched, digest \in ChangeSets \cup {None} :
          /\ receipt' = FreshReceipt(run, digest)
          /\ launched' = launched \cup {run}
    BY <1>1 DEF finalize_execution_evidence
  <2>2. accepting' = accepting /\ checking' = checking
    BY <1>1 DEF finalize_execution_evidence
  <2>3. receipt'.run_id = run
    BY <2>1 DEF FreshReceipt
  <2>4. \A r \in AtHand' \cup Prepared' : r = receipt' \/ r \in AtHand \cup Prepared
    BY <2>2 DEF AtHand, Prepared
  <2>5. \A r \in AtHand \cup Prepared : r.run_id \in launched /\ r.run_id # run
    BY <2>1 DEF Inv, RunsInv
  <2>6. QED
    BY <2>1, <2>2, <2>3, <2>4, <2>5 DEF Inv, RunsInv
<1>2. CASE ~ finalize_execution_evidence
  <2>1. \A r \in AtHand' \cup Prepared' : \E s \in AtHand \cup Prepared :
          r.run_id = s.run_id /\ r.changeset_digest = s.changeset_digest
    BY <1>2, UseStep
  <2>2. launched' = launched
    BY <1>2 DEF Next, PollReceipt, AcceptStages, AcceptLoads, AcceptSaves, VerifyStarts,
           VerifySaves, CommitReviewed, UserEdits, vars
  <2>3. \/ accepting' = None
        \/ /\ accepting # None
           /\ accepting'.run = accepting.run /\ accepting'.paths = accepting.paths
        \/ /\ receipt # None
           /\ accepting'.run = receipt.run_id
           /\ accepting'.paths = receipt.changeset_digest
    <3>1. CASE AcceptLoads
      <4>1. accepting # None /\ accepting \in Acceptance
        BY <3>1 DEF AcceptLoads, Inv, TypeInv, TypeOK
      <4>2. QED
        BY <3>1, <4>1, AcceptLoadsEffect DEF Acceptance
    <3>2. CASE AcceptStages
      BY <3>2 DEF AcceptStages
    <3>3. CASE accepting' \in {accepting, None}
      BY <3>3
    <3>4. QED
      BY <3>1, <3>2, <3>3, <1>2
      DEF Next, PollReceipt, AcceptSaves, VerifyStarts, VerifySaves, CommitReviewed,
          UserEdits, vars
  <2>4. receipt # None => receipt \in AtHand
    BY ReceiptAtHand
  <2>5. QED
    BY <2>1, <2>2, <2>3, <2>4 DEF Inv, RunsInv
<1>3. QED
  BY <1>1, <1>2

----------------------------------------------------------------------------
\* What is in the file, or may be saved to it, is valid and backed by an Accept.

LEMMA SoundStep == Inv /\ [Next]_vars => SoundInv'
<1> SUFFICES ASSUME Inv, [Next]_vars PROVE SoundInv'
  OBVIOUS
<1> DEFINE Good(r) == validate_receipt(r) /\ Backed(r, accepted', trees')
<1>1. AtHand \subseteq TaskRunReceipt /\ (receipt # None => receipt \in AtHand)
  BY InUseType, ReceiptAtHand DEF Inv
<1>2. /\ accepted \subseteq accepted'
      /\ \A c \in Commit : trees[c] # None => trees'[c] = trees[c]
  <2>1. CASE CommitReviewed
    BY <2>1, CommitEffect DEF CommitReviewed, Inv, TypeInv, TypeOK
  <2>2. CASE ~ CommitReviewed
    BY <2>2 DEF Next, finalize_execution_evidence, PollReceipt, AcceptStages, AcceptLoads,
       AcceptSaves, VerifyStarts, VerifySaves, UserEdits, vars, repo
  <2>3. QED
    BY <2>1, <2>2
<1>3. \A r \in AtHand : Good(r)
  <2> SUFFICES ASSUME NEW r \in AtHand PROVE Good(r)
    OBVIOUS
  <2>1. r \in TaskRunReceipt /\ validate_receipt(r) /\ Backed(r, accepted, trees)
    BY <1>1 DEF Inv, SoundInv
  <2>2. r.finish # None => r.finish.commit_sha \in Commit
    BY <2>1 DEF TaskRunReceipt, Finish
  <2>3. QED
    BY <1>2, <2>1, <2>2 DEF Backed
<1>4. receipt # None => Good(Loaded)
  <2> SUFFICES ASSUME receipt # None PROVE Good(Loaded)
    OBVIOUS
  <2>1. validate_receipt(Loaded)
    BY <1>1, <1>3, LoadKeepsValid DEF Loaded
  <2>2. Backed(Loaded, accepted', trees')
    BY <1>1, <1>3, LoadedIs DEF Backed, AcceptedReview, Inv
  <2>3. QED
    BY <2>1, <2>2
<1>5. \A r \in Prepared : PreparedFor(r, accepting.run)
  BY DEF Inv, SoundInv
<1>6. receipt' # None => Good(receipt')
  <2>1. CASE finalize_execution_evidence
    BY <2>1 DEF finalize_execution_evidence, FreshReceipt, validate_receipt, Backed,
       AcceptedReview
  <2>2. CASE receipt' \in {receipt, Loaded}
    BY <2>2, <1>1, <1>3, <1>4, LoadedIs DEF Inv
  <2>3. CASE AcceptSaves
    <3>1. receipt' = accepting.receipt /\ accepting.receipt \in Prepared
      BY <2>3 DEF AcceptSaves, Prepared
    <3>2. <<accepting.run, accepting.receipt.review.index_tree_after_accept>> \in accepted'
      BY <2>3 DEF AcceptSaves
    <3>3. QED
      BY <1>5, <3>1, <3>2 DEF PreparedFor, Backed
  <2>4. ASSUME NEW v \in Verifier, VerifySaves(v) PROVE Good(receipt')
    <3>1. Good(checking[v].receipt)
      BY <2>4, <1>3, VerifyEffect
    <3>2. QED
      BY <2>4, <3>1, VerifyEffect DEF Backed, AcceptedReview
  <2>5. CASE CommitReviewed
    <3> DEFINE c == receipt'.finish.commit_sha
    <3>1. /\ validate_receipt(receipt') /\ AcceptedReview(receipt)
          /\ receipt'.review = receipt.review
          /\ receipt'.finish.run_id = receipt.run_id
          /\ receipt.review.run_id = receipt.run_id
          /\ receipt.review.index_tree_after_accept = index
          /\ Good(receipt)
      BY <2>5, <1>3, CommitEffect
    <3>2. trees'[c] = index /\ index # None
      BY <2>5, CommitEffect, NoneAssumption DEF Inv, TypeInv, TypeOK
    <3>3. <<receipt.run_id, index>> \in accepted'
      BY <3>1 DEF Backed
    <3>4. QED
      BY <3>1, <3>2, <3>3 DEF Backed, AcceptedReview
  <2>6. QED
    BY <2>1, <2>2, <2>3, <2>4, <2>5
    DEF Next, PollReceipt, AcceptStages, AcceptLoads, VerifyStarts, UserEdits, vars
<1>7. \A v \in Verifier : checking'[v] # None =>
        /\ Good(checking'[v].receipt)
        /\ reviewed_tree_ok(checking'[v].receipt, checking'[v].tree)
  <2>1. \A v \in Verifier : checking[v] # None =>
          /\ Good(checking[v].receipt)
          /\ reviewed_tree_ok(checking[v].receipt, checking[v].tree)
    BY <1>3, CheckingAtHand DEF Inv, SoundInv
  <2> HIDE DEF Good
  <2>2. CASE checking' = checking
    BY <2>1, <2>2
  <2>3. ASSUME NEW v \in Verifier, VerifyStarts(v)
        PROVE  \A w \in Verifier : checking'[w] # None =>
                 /\ Good(checking'[w].receipt)
                 /\ reviewed_tree_ok(checking'[w].receipt, checking'[w].tree)
    BY <2>1, <2>3, <1>4 DEF VerifyStarts, Inv, TypeInv, TypeOK
  <2>4. ASSUME NEW v \in Verifier, VerifySaves(v)
        PROVE  \A w \in Verifier : checking'[w] # None =>
                 /\ Good(checking'[w].receipt)
                 /\ reviewed_tree_ok(checking'[w].receipt, checking'[w].tree)
    BY <2>1, <2>4 DEF VerifySaves, Inv, TypeInv, TypeOK
  <2>5. QED
    BY <2>2, <2>3, <2>4
    DEF Next, finalize_execution_evidence, PollReceipt, AcceptStages, AcceptLoads,
        AcceptSaves, CommitReviewed, UserEdits, vars
<1>8. \A r \in Prepared' : PreparedFor(r, accepting'.run)
  <2>1. CASE AcceptLoads
    <3>1. accepting \in Acceptance
      BY <2>1 DEF AcceptLoads, Inv, TypeInv, TypeOK
    <3>2. QED
      BY <2>1, <3>1, AcceptLoadsEffect DEF Prepared, Acceptance
  <2>2. CASE AcceptStages
    BY <2>2 DEF AcceptStages, Prepared
  <2>3. CASE accepting' \in {accepting, None}
    BY <1>5, <2>3 DEF Prepared
  <2>4. QED
    BY <2>1, <2>2, <2>3
    DEF Next, finalize_execution_evidence, PollReceipt, AcceptSaves, VerifyStarts,
        VerifySaves, CommitReviewed, UserEdits, vars
<1>9. \A r \in AtHand' : Good(r)
  BY <1>6, <1>7 DEF AtHand
<1>10. QED
  BY <1>7, <1>8, <1>9 DEF SoundInv

----------------------------------------------------------------------------
\* One operation at a time: what Verify and Accept captured still holds at their save.

\* A load drops the only approval the file could have, or none.
LEMMA LoadedStands ==
  ASSUME Inv, serial, receipt # None, AcceptedReview(Loaded)
  PROVE  /\ Loaded = receipt /\ Drops = {}
         /\ <<receipt.review.run_id, receipt.review.index_tree_after_accept>> \notin dropped
<1>1. Loaded = receipt
  BY LoadedIs DEF Inv, AcceptedReview
<1>2. receipt \in TaskRunReceipt
  BY DEF Inv, TypeInv, TypeOK
<1>3. ~ StaleReview(receipt, index)
  <2> SUFFICES ASSUME StaleReview(receipt, index) PROVE FALSE
    OBVIOUS
  <2>1. Loaded.review = None
    BY <1>2 DEF Loaded, load_receipt, invalidate_stale_review_tree, TaskRunReceipt
  <2>2. QED
    BY <2>1 DEF AcceptedReview
<1>4. QED
  BY <1>1, <1>3 DEF Drops, Inv, SerialInv

\* What a load leaves in the file is as sound as what it found.
LEMMA LoadingSerial ==
  ASSUME Inv, serial, receipt # None
  PROVE  /\ AcceptedReview(Loaded) =>
              <<Loaded.review.run_id, Loaded.review.index_tree_after_accept>>
                \notin dropped \cup Drops
         /\ Loaded.verification # None => Loaded = receipt
BY LoadedStands, LoadedIs DEF Inv

LEMMA SerialStep == Inv /\ [Next]_vars => SerialInv'
<1> SUFFICES ASSUME Inv, [Next]_vars, serial' PROVE SerialInv'
  BY DEF SerialInv
<1>1. serial' = serial
  BY DEF Next, finalize_execution_evidence, PollReceipt, AcceptStages, AcceptLoads,
     AcceptSaves, VerifyStarts, VerifySaves, CommitReviewed, UserEdits, vars
<1>2. CASE finalize_execution_evidence
  <2>1. /\ receipt'.review = None /\ receipt'.verification = None
        /\ accepting = None /\ \A v \in Verifier : checking[v] = None
    BY <1>1, <1>2 DEF finalize_execution_evidence, FreshReceipt, MayStart, InFlight
  <2>2. QED
    BY <1>1, <1>2, <2>1
    DEF finalize_execution_evidence, repo, Inv, SerialInv, AcceptedReview, SuccessMeansPassing
<1>3. CASE PollReceipt
  <2>1. /\ receipt # None /\ receipt' = Loaded /\ dropped' = dropped \cup Drops
        /\ accepting = None /\ \A v \in Verifier : checking[v] = None
        /\ UNCHANGED <<index, worktree, accepting, checking>>
    BY <1>1, <1>3, LoadedIs DEF PollReceipt, MayStart, InFlight, repo, Inv
  <2>2. QED
    BY <1>1, <2>1, LoadingSerial DEF Inv, SerialInv, SuccessMeansPassing
<1>4. CASE AcceptStages
  <2>1. /\ receipt # None /\ receipt' = Loaded /\ dropped' = dropped \cup Drops
        /\ \A v \in Verifier : checking[v] = None
        /\ accepting'.run = receipt.run_id /\ checking' = checking
    BY <1>1, <1>4 DEF AcceptStages, MayStart, InFlight
  <2>2. index = worktree => index' = worktree'
    BY <1>4 DEF AcceptStages
  <2>3. receipt'.run_id = receipt.run_id
    BY <2>1, LoadedIs DEF Inv
  <2>4. QED
    BY <1>1, <2>1, <2>2, <2>3, LoadingSerial DEF Inv, SerialInv, SuccessMeansPassing
<1>5. CASE AcceptLoads
  <2>1. /\ accepting # None /\ receipt # None /\ receipt.run_id = accepting.run
        /\ \A v \in Verifier : checking[v] = None
    BY <1>1, <1>5 DEF AcceptLoads, Inv, TypeInv, SerialInv
  <2>2. /\ receipt' = Loaded /\ index' = index
        /\ accepting' = [accepting EXCEPT !.receipt = accepting'.receipt]
    BY <1>5, <2>1, AcceptLoadsEffect
  <2>3. accepting'.run = accepting.run /\ receipt'.run_id = receipt.run_id
    BY <2>1, <2>2, LoadedIs DEF Inv, TypeInv, TypeOK, Acceptance
  <2>4. dropped' = dropped \cup Drops /\ UNCHANGED <<worktree, checking>>
    BY <1>5 DEF AcceptLoads
  <2>5. QED
    BY <1>1, <2>1, <2>2, <2>3, <2>4, LoadingSerial DEF Inv, SerialInv, SuccessMeansPassing
<1>6. CASE AcceptSaves
  <2>1. /\ accepting # None /\ accepting' = None
        /\ receipt' = accepting.receipt /\ receipt' \in Prepared
        /\ \A v \in Verifier : checking[v] = None
        /\ UNCHANGED <<index, worktree, checking>>
    BY <1>1, <1>6 DEF AcceptSaves, Prepared, repo, Inv, SerialInv
  <2>2. PreparedFor(receipt', accepting.run)
    BY <2>1 DEF Inv, SoundInv
  <2>3. <<accepting.run, receipt'.review.index_tree_after_accept>> \notin dropped'
    BY <1>6 DEF AcceptSaves
  <2>4. QED
    BY <1>1, <2>1, <2>2, <2>3 DEF Inv, SerialInv, PreparedFor, SuccessMeansPassing
<1>7. ASSUME NEW v \in Verifier, VerifyStarts(v) PROVE SerialInv'
  <2>1. /\ receipt # None /\ receipt' = Loaded /\ dropped' = dropped \cup Drops
        /\ accepting = None /\ \A w \in Verifier : checking[w] = None
        /\ UNCHANGED <<index, worktree, accepting>>
    BY <1>1, <1>7 DEF VerifyStarts, MayStart, InFlight, repo
  <2>2. \A w \in Verifier : checking'[w] # None =>
          w = v /\ checking'[w].receipt = Loaded /\ checking'[w].tree = index
    BY <1>7, <2>1 DEF VerifyStarts, Inv, TypeInv, TypeOK
  <2>3. QED
    BY <1>1, <2>1, <2>2, LoadingSerial DEF Inv, SerialInv, SuccessMeansPassing
<1>8. ASSUME NEW v \in Verifier, VerifySaves(v) PROVE SerialInv'
  <2>1. /\ checking[v] # None /\ checking[v].receipt = receipt /\ checking[v].tree = index
        /\ accepting = None /\ \A w \in Verifier : checking[w] # None => w = v
        /\ reviewed_tree_ok(receipt, index)
    BY <1>1, <1>8 DEF VerifySaves, Inv, SerialInv, SoundInv
  <2>2. receipt \in TaskRunReceipt /\ receipt # None /\ validate_receipt(receipt)
    BY <1>8, <2>1, VerifyEffect, NoneAssumption DEF Inv, SoundInv, TypeInv, TypeOK, Captured
  <2>3. ~ StaleReview(receipt, index)
    <3> SUFFICES ASSUME AcceptedReview(receipt), receipt.changeset_digest = None PROVE FALSE
      BY <2>1 DEF StaleReview, reviewed_tree_ok
    <3>1. receipt.review.changeset_digest = None
      BY <2>2 DEF validate_receipt, AcceptedReview
    <3>2. receipt.review \in Review
      BY <2>2 DEF AcceptedReview, TaskRunReceipt
    <3>3. QED
      BY <3>1, <3>2, NoneAssumption DEF Review
  <2>4. dropped' = dropped
    BY <1>8, <2>3 DEF VerifySaves, Drops
  <2>5. \A w \in Verifier : checking'[w] = None
    BY <1>8, <2>1 DEF VerifySaves, Inv, TypeInv, TypeOK
  <2>6. UNCHANGED <<index, worktree, accepting>>
    BY <1>8 DEF VerifySaves, repo
  <2>7. /\ receipt'.review = receipt.review
        /\ receipt'.verification.index_tree_sha = index
        /\ receipt'.verification.success => worktree \notin Broken
    BY <1>8, <2>1, VerifyEffect
  <2>8. AcceptedReview(receipt') => AcceptedReview(receipt)
    BY <2>7 DEF AcceptedReview
  <2>9. QED
    BY <1>1, <2>1, <2>2, <2>4, <2>5, <2>6, <2>7, <2>8
    DEF Inv, SerialInv, SuccessMeansPassing
<1>9. CASE CommitReviewed
  <2>1. /\ receipt \in TaskRunReceipt /\ AcceptedReview(receipt)
        /\ receipt'.review = receipt.review /\ receipt'.verification = receipt.verification
    BY <1>9, CommitEffect
  <2>2. /\ accepting = None /\ \A v \in Verifier : checking[v] = None
        /\ UNCHANGED <<index, worktree, accepting, checking, dropped>>
    BY <1>1, <1>9 DEF CommitReviewed, MayStart, InFlight
  <2>3. receipt # None
    BY <2>1, NoneAssumption
  <2>4. QED
    BY <1>1, <2>1, <2>2, <2>3 DEF Inv, SerialInv, SuccessMeansPassing
<1>10. CASE UserEdits
  <2>1. /\ accepting = None /\ \A v \in Verifier : checking[v] = None
        /\ UNCHANGED <<receipt, accepting, checking, dropped>>
        /\ (Tidy /\ worktree = index => worktree' = index')
    BY <1>1, <1>10 DEF UserEdits, MayStart, InFlight
  <2>2. QED
    BY <1>1, <2>1 DEF Inv, SerialInv, SuccessMeansPassing
<1>11. CASE UNCHANGED vars
  BY <1>11 DEF vars, repo, Inv, SerialInv, SuccessMeansPassing
<1>12. QED
  BY <1>2, <1>3, <1>4, <1>5, <1>6, <1>7, <1>8, <1>9, <1>10, <1>11 DEF Next

----------------------------------------------------------------------------
\* The theorems

LEMMA InitInv == Init => Inv
<1> SUFFICES ASSUME Init PROVE Inv
  OBVIOUS
<1>1. TypeInv
  BY LedgerAssumption DEF Init, TypeInv, TypeOK, Tree
<1>2. AtHand = {} /\ Prepared = {}
  BY DEF Init, AtHand, Prepared
<1>3. RunsInv /\ SoundInv /\ SerialInv
  BY <1>2 DEF Init, RunsInv, SoundInv, SerialInv, SuccessMeansPassing
<1>4. QED
  BY <1>1, <1>3 DEF Inv

LEMMA Invariance == Spec => []Inv
<1>1. Inv /\ [Next]_vars => Inv'
  BY TypeStep, RunsStep, SoundStep, SerialStep DEF Inv
<1>2. QED
  BY InitInv, <1>1, PTL DEF Spec

\* Every operation leaves repository, receipt and what it captured well typed
\* (receipt.rs, finish.rs, review.rs).
THEOREM TypeCorrect == Spec => []TypeOK
<1>1. Inv => TypeOK
  BY DEF Inv, TypeInv
<1>2. QED
  BY <1>1, Invariance, PTL

\* However the operations overlap, the file satisfies validate_receipt: no later load
\* refuses it as corrupt (receipt.rs).
THEOREM LedgerStaysValid == Spec => []LedgerValid
<1>1. Inv => LedgerValid
  BY ReceiptAtHand DEF Inv, SoundInv, LedgerValid
<1>2. QED
  BY <1>1, Invariance, PTL

\* However the operations overlap, recorded finish evidence names a commit whose tree a
\* human accepted for that run (finish.rs, receipt.rs).
THEOREM FinishIsOfAccepted == Spec => []FinishWasAccepted
<1>1. Inv => FinishWasAccepted
  BY ReceiptAtHand DEF Inv, SoundInv, Backed, FinishWasAccepted
<1>2. QED
  BY <1>1, Invariance, PTL

\* One operation at a time, a durably invalidated approval returns only by a new Accept
\* (receipt.rs: load_receipt).
THEOREM ApprovalStaysDropped == Spec => []NoResurrectedApproval
<1>1. Inv => NoResurrectedApproval
  <2> SUFFICES ASSUME Inv, serial, receipt # None, AcceptedReview(Loaded)
               PROVE  <<Loaded.review.run_id, Loaded.review.index_tree_after_accept>>
                        \notin dropped
    BY LoadedIs DEF NoResurrectedApproval, ApprovalStands, Inv
  <2>1. QED
    BY LoadedStands
<1>2. QED
  BY <1>1, Invariance, PTL

\* One operation at a time and nothing unstaged, a successful verification is of a tree
\* the checks pass on (finish.rs: run_verification).
THEOREM VerifiedIsPassing == Spec => []VerifiedTreePasses
<1>1. Inv => VerifiedTreePasses
  BY DEF Inv, SerialInv, VerifiedTreePasses
<1>2. QED
  BY <1>1, Invariance, PTL

----------------------------------------------------------------------------
\* The runs' specification: one of the two ledgers moves, and CommitGovernance starts
\* with nothing or from a run that is accepted, verified and linked.

LinkedEvidence == Earlier(LinkedReceipt, 1)

LEMMA FirstTryIsATree == FirstTry \in Tree /\ FirstCommit \in Commit
BY InstanceAssumption, GovernanceAssumption DEF FirstTry, Paths, Tree

\* The receipt of the linked run, field by field.
LEMMA LinkedEvidenceIs ==
  /\ LinkedEvidence \in Evidence /\ LinkedEvidence # None
  /\ LinkedEvidence.run_id = r1 /\ LinkedEvidence.changeset_digest = Path
  /\ LinkedEvidence.review =
       [run_id |-> r1, decision |-> "accepted", reviewed_paths |-> Path,
        changeset_digest |-> Path, index_tree_after_accept |-> FirstTry]
  /\ LinkedEvidence.verification =
       [run_id |-> r1, head_sha |-> FirstCommit, index_tree_sha |-> FirstTry,
        changeset_digest |-> Path, success |-> TRUE, verified_at |-> 1,
        ran |-> {"test"}, passed |-> {"test"}]
  /\ LinkedEvidence.finish = None
  /\ LinkedEvidence.review # None /\ LinkedEvidence.verification # None
<1> DEFINE yes == TRUE
           tests == {"test"}
           review ==
             [run_id |-> r1, decision |-> "accepted", reviewed_paths |-> Path,
              changeset_digest |-> Path, index_tree_after_accept |-> FirstTry]
           verification ==
             [run_id |-> r1, head_sha |-> FirstCommit, index_tree_sha |-> FirstTry,
              changeset_digest |-> Path, success |-> yes, verified_at |-> 1,
              ran |-> tests, passed |-> tests]
           fresh == FreshReceipt(r1, Path)
           r == WithReview(fresh, "accepted", Path, FirstTry)
<1>1. Paths = Path /\ Path \in Digest /\ Path # None /\ r1 \in Run
  BY InstanceAssumption, NoneAssumption DEF Paths, Digest
<1>2. review \in Review /\ review # None
  BY <1>1, FirstTryIsATree, NoneAssumption DEF Review
<1>3. verification \in CheckedVerification /\ verification # None
  <2>1. tests \in SUBSET Command /\ yes \in BOOLEAN
    BY InstanceAssumption DEF Command
  <2>2. verification \in CheckedVerification
    <3> HIDE DEF tests, yes
    <3>1. QED
      BY <1>1, <2>1, FirstTryIsATree DEF CheckedVerification
  <2>3. QED
    BY <2>2, GovernanceNoneAssumption
<1>4. /\ fresh \in Evidence /\ fresh.run_id = r1 /\ fresh.changeset_digest = Path
      /\ fresh.verification = None
  BY <1>1 DEF FreshReceipt, Evidence
<1>5. /\ r \in Evidence /\ r.run_id = r1 /\ r.changeset_digest = Path
      /\ r.review = review /\ r.verification = None /\ r.finish = None
  <2>1. r = [fresh EXCEPT !.review = review, !.verification = None, !.finish = None]
    BY <1>1, <1>4 DEF WithReview
  <2>2. QED
    <3> HIDE DEF review, fresh, r
    <3>1. QED
      BY <1>2, <1>4, <2>1 DEF Evidence
<1>6. LinkedReceipt = WithChecks([receipt |-> r, head |-> FirstCommit, tree |-> FirstTry],
                                 {"test"}, {"test"})
  BY <1>1 DEF LinkedReceipt
<1> DEFINE plain == [run_id |-> r1, head_sha |-> FirstCommit, index_tree_sha |-> FirstTry,
                     changeset_digest |-> Path, success |-> yes]
           told == [run_id |-> r1, head_sha |-> FirstCommit, index_tree_sha |-> FirstTry,
                    changeset_digest |-> Path, success |-> yes, verified_at |-> clock,
                    ran |-> tests, passed |-> tests]
           bare == [r EXCEPT !.verification = plain, !.finish = None]
<1> HIDE DEF r, fresh
<1>7. WithVerification(r, FirstCommit, FirstTry, yes) = bare
  BY <1>1, <1>5 DEF WithVerification
<1>8. bare.verification = plain /\ LinkedReceipt = [bare EXCEPT !.verification = told]
  <2>1. bare.verification = plain
    <3> HIDE DEF plain
    <3>1. QED
      BY <1>5 DEF Evidence
  <2>2. LinkedReceipt = [bare EXCEPT !.verification = told]
    <3> DEFINE c == [receipt |-> r, head |-> FirstCommit, tree |-> FirstTry]
    <3>1. WithVerification(c.receipt, c.head, c.tree, tests = tests) = bare
      <4>1. (tests = tests) = yes /\ c.receipt = r /\ c.head = FirstCommit /\ c.tree = FirstTry
        OBVIOUS
      <4>2. QED
        <5> HIDE DEF bare, tests, yes, c
        <5>1. QED
          BY <1>7, <4>1
    <3>2. /\ plain.run_id = r1 /\ plain.head_sha = FirstCommit /\ plain.success = yes
          /\ plain.index_tree_sha = FirstTry /\ plain.changeset_digest = Path
      OBVIOUS
    <3> HIDE DEF bare, tests, yes, c, plain
    <3>3. WithChecks(c, tests, tests) = [bare EXCEPT !.verification = told]
      BY <2>1, <3>1, <3>2 DEF WithChecks
    <3>4. QED
      BY <1>6, <3>3 DEF c, tests
  <2>3. QED
    BY <2>1, <2>2
<1>9. [told EXCEPT !.verified_at = 1] = verification
  <2> HIDE DEF yes, tests
  <2>1. QED
    OBVIOUS
<1>10. LinkedEvidence = [LinkedReceipt EXCEPT !.verification = verification]
  <2>1. LinkedReceipt.verification = told
    <3> HIDE DEF told, plain
    <3>1. QED
      BY <1>5, <1>8 DEF Evidence
  <2>2. QED
    <3> HIDE DEF told, verification, bare
    <3>1. [LinkedReceipt EXCEPT !.verification.verified_at = 1]
            = [LinkedReceipt EXCEPT !.verification = [@ EXCEPT !.verified_at = 1]]
      OBVIOUS
    <3>2. QED
      BY <1>9, <2>1, <3>1 DEF LinkedEvidence, Earlier
<1>11. /\ LinkedEvidence \in Evidence /\ LinkedEvidence.run_id = r1
       /\ LinkedEvidence.changeset_digest = Path /\ LinkedEvidence.review = review
       /\ LinkedEvidence.verification = verification /\ LinkedEvidence.finish = None
  <2> HIDE DEF told, plain, verification, review
  <2>1. QED
    BY <1>3, <1>5, <1>8, <1>10 DEF Evidence
<1>12. QED
  BY <1>2, <1>3, <1>11, GovernanceNoneAssumption

LEMMA LinkedTypes ==
  ASSUME FromLinked
  PROVE  GovernanceTypeInv
<1>1. GitOK
  <2>1. [x \in Path |-> FirstContent] \in Tree
    BY GovernanceAssumption DEF Tree
  <2>2. QED
    BY <2>1, FirstTryIsATree DEF FromLinked, GitOK
<1>2. FilesOK
  <2>1. contract \in Contract
    BY InstanceAssumption, GovernanceBounds DEF FromLinked, OnlyP, Contract
  <2>2. evidence \in Evidence
    BY LinkedEvidenceIs DEF FromLinked, LinkedEvidence
  <2>3. \A b \in bindings : b \in Binding
    <3>1. "test" \in Command /\ Paths \in Digest /\ r1 \in Run /\ "done" \in Criterion
      BY InstanceAssumption DEF Command, Paths, Digest
    <3>2. QED
      BY <3>1 DEF FromLinked, Binding
  <2>4. \A a, b \in bindings : a = b
    BY DEF FromLinked
  <2>5. QED
    BY <2>1, <2>2, <2>3, <2>4 DEF FilesOK
<1>3. JournalOK
  <2>1. Paths \in SUBSET Path /\ r1 \in Run
    BY InstanceAssumption DEF Paths
  <2>2. /\ [kind |-> "ChangeSetCreated", run |-> r1, files |-> Paths] \in Event
        /\ [kind |-> "ChangeSetReviewed", run |-> r1, decision |-> "accepted"] \in Event
        /\ [kind |-> "VerificationStarted", run |-> r1] \in Event
        /\ [kind |-> "VerificationFinished", run |-> r1, success |-> TRUE] \in Event
    BY <2>1 DEF Event
  <2>3. events \in Seq(Event) /\ Len(events) = 4
    BY <2>2 DEF FromLinked
  <2>4. room = MaxEvents /\ reliable = TRUE /\ lost = FALSE
    BY DEF FromLinked
  <2>5. MaxEvents \in Nat /\ 4 <= MaxEvents
    BY InstanceAssumption, GovernanceBounds
  <2>6. room \in 0 .. MaxEvents /\ Len(events) <= room
    BY <2>3, <2>4, <2>5
  <2>7. reliable \in BOOLEAN /\ lost \in BOOLEAN
    BY <2>4
  <2>8. QED
    BY <2>3, <2>6, <2>7 DEF JournalOK
<1>4. ThreadsOK /\ MainOK /\ BoundsOK
  <2>1. IdleMain \in MainThread /\ IdleMain.at = "idle"
    BY DEF IdleMain, MainThread
  <2>2. /\ main = IdleMain /\ ended = {r1, r2} /\ ending = None /\ checks = None
        /\ clock = 3 /\ user_git = MaxUserGit
    BY DEF FromLinked
  <2>3. QED
    BY <2>1, <2>2, InstanceAssumption, GovernanceBounds DEF ThreadsOK, MainOK, BoundsOK
<1>5. QED
  BY <1>1, <1>2, <1>3, <1>4 DEF GovernanceTypeInv

\* The journal of the linked run, event by event.
LEMMA LinkedJournalIs ==
  ASSUME FromLinked
  PROVE  /\ Kind("ChangeSetCreated") = {1}
         /\ \A run : KindOf("ChangeSetReviewed", run) \subseteq {2}
         /\ KindOf("ChangeSetReviewed", r1) = {2}
         /\ KindOf("VerificationStarted", r1) \cup KindOf("VerificationFinished", r1) = {3, 4}
         /\ Kind("HumanOverride") = {}
         /\ events[1] = [kind |-> "ChangeSetCreated", run |-> r1, files |-> Path]
         /\ events[2] = [kind |-> "ChangeSetReviewed", run |-> r1, decision |-> "accepted"]
<1>1. Paths = Path
  BY InstanceAssumption DEF Paths
<1>2. events = <<[kind |-> "ChangeSetCreated", run |-> r1, files |-> Path],
                 [kind |-> "ChangeSetReviewed", run |-> r1, decision |-> "accepted"],
                 [kind |-> "VerificationStarted", run |-> r1],
                 [kind |-> "VerificationFinished", run |-> r1, success |-> TRUE]>>
  BY <1>1 DEF FromLinked
<1>3. DOMAIN events = {1, 2, 3, 4}
  BY <1>2
<1>4. /\ events[1] = [kind |-> "ChangeSetCreated", run |-> r1, files |-> Path]
      /\ events[2] = [kind |-> "ChangeSetReviewed", run |-> r1, decision |-> "accepted"]
      /\ events[3] = [kind |-> "VerificationStarted", run |-> r1]
      /\ events[4] = [kind |-> "VerificationFinished", run |-> r1, success |-> TRUE]
  BY <1>2
<1>5. /\ events[1].kind = "ChangeSetCreated" /\ events[2].kind = "ChangeSetReviewed"
      /\ events[3].kind = "VerificationStarted" /\ events[4].kind = "VerificationFinished"
      /\ events[2].run = r1 /\ events[3].run = r1 /\ events[4].run = r1
  BY <1>4
<1>6. /\ Kind("ChangeSetCreated") = {1} /\ Kind("HumanOverride") = {}
      /\ Kind("ChangeSetReviewed") = {2} /\ Kind("VerificationStarted") = {3}
      /\ Kind("VerificationFinished") = {4}
  BY <1>3, <1>5 DEF Kind
<1>7. QED
  BY <1>4, <1>5, <1>6 DEF KindOf

\* The linked run keeps what the proofs above maintain.
LEMMA LinkedStarts ==
  ASSUME FromLinked
  PROVE  GovernanceInv
<1>1. GovernanceTypeInv
  BY LinkedTypes
<1>2. /\ main = IdleMain /\ ended = {r1, r2} /\ ending = None /\ checks = None /\ clock = 3
      /\ evidence = LinkedEvidence /\ lost = FALSE /\ contract.updated_at = 0
      /\ bindings = {[criterion |-> "done", run_id |-> r1, changeset_digest |-> Paths,
                      verified_at |-> 1, command |-> "test", linked_at |-> 2]}
      /\ linked = {[criterion |-> "done", run |-> r1, tree |-> FirstTry, passed |-> TRUE]}
  BY DEF FromLinked, LinkedEvidence
<1>3. Live = {LinkedEvidence}
  BY <1>2, LinkedEvidenceIs DEF Live, IdleMain
<1>4. ReceiptsInv
  <2>1. FirstTry # None /\ Path # None
    BY FirstTryIsATree, NoneAssumption DEF Digest
  <2>2. validate_receipt(LinkedEvidence)
    BY <2>1, LinkedEvidenceIs DEF validate_receipt, AcceptedReview
  <2>3. Sound(LinkedEvidence)
    BY <1>2, <2>1, <2>2, LinkedEvidenceIs DEF Sound
  <2>4. QED
    BY <1>3, <2>3 DEF ReceiptsInv
<1>5. TimesInv
  <2>1. Kind("HumanOverride") = {}
    BY LinkedJournalIs
  <2>2. QED
    BY <1>2, <2>1 DEF TimesInv
<1>6. LinksInv
  <2> DEFINE b == [criterion |-> "done", run_id |-> r1, changeset_digest |-> Paths,
                   verified_at |-> 1, command |-> "test", linked_at |-> 2]
  <2>1. LinkOf(b, LinkedEvidence.verification) =
          [criterion |-> "done", run |-> r1, tree |-> FirstTry, passed |-> TRUE]
    <3>1. /\ LinkedEvidence.verification.index_tree_sha = FirstTry
          /\ "test" \in LinkedEvidence.verification.passed
      BY LinkedEvidenceIs
    <3>2. ("test" \in LinkedEvidence.verification.passed) = TRUE
      BY <3>1
    <3>3. QED
      BY <3>1, <3>2 DEF LinkOf
  <2>2. bindings = {b} /\ LinkOf(b, LinkedEvidence.verification) \in linked
    BY <1>2, <2>1
  <2>3. QED
    BY <1>3, <2>2 DEF LinksInv
<1>7. ChangeSetsInv
  <2>1. /\ Kind("ChangeSetCreated") = {1} /\ events[1].run = r1 /\ events[1].files = Path
        /\ LinkedEvidence.changeset_digest = Path
    BY LinkedJournalIs, LinkedEvidenceIs
  <2>2. Path # {}
    BY InstanceAssumption
  <2>3. QED
    BY <1>2, <1>3, <2>1, <2>2 DEF ChangeSetsInv
<1>8. OverridesInv /\ AcceptanceInv
  BY <1>2, LinkedJournalIs DEF OverridesInv, AcceptanceInv, IdleMain
<1>9. ToldInv
  <2>1. JournalOK /\ DOMAIN events = 1 .. Len(events)
    BY <1>1 DEF GovernanceTypeInv, JournalOK
  <2>2. ReviewTold
    <3>1. KindOf("ChangeSetReviewed", r1) \in SUBSET DOMAIN events
      BY DEF KindOf, Kind
    <3>2. Latest(KindOf("ChangeSetReviewed", r1)) = events[2]
      BY <2>1, <3>1, LinkedJournalIs, LatestEvent
    <3>3. derive_review_state(r1) = "accepted"
      BY <3>2, LinkedJournalIs DEF derive_review_state
    <3>4. QED
      BY <1>2, <3>3, LinkedEvidenceIs DEF ReviewTold
  <2>3. CommitTold
    BY <1>2, LinkedEvidenceIs DEF CommitTold
  <2>4. VerificationTold
    BY <1>2, LinkedEvidenceIs DEF VerificationTold
  <2>5. ContractTold
    BY LinkedJournalIs DEF ContractTold
  <2>6. QED
    BY <2>2, <2>3, <2>4, <2>5 DEF ToldInv
<1>10. QED
  BY <1>1, <1>4, <1>5, <1>6, <1>7, <1>8, <1>9 DEF GovernanceInv

LEMMA BothInvariant == MCSpec => [](Inv /\ GovernanceInv)
<1>1. MCInit => Inv /\ GovernanceInv
  BY InitInv, GovernanceStarts, LinkedStarts
     DEF MCInit, LedgerParked, PolicyParked, FromTheStart
<1>2. Inv /\ GovernanceInv /\ [MCNext]_<<vars, governanceVars, focus>>
        => (Inv /\ GovernanceInv)'
  <2> SUFFICES ASSUME Inv, GovernanceInv, [MCNext]_<<vars, governanceVars, focus>>
               PROVE  Inv' /\ GovernanceInv'
    OBVIOUS
  <2>1. [Next]_vars /\ [GovernanceNext]_governanceVars
    BY DEF MCNext
  <2>2. Inv'
    BY <2>1, TypeStep, RunsStep, SoundStep, SerialStep DEF Inv
  <2>3. GovernanceInv'
    BY <2>1, GovernanceKept
  <2>4. QED
    BY <2>2, <2>3
<1>3. QED
  BY <1>1, <1>2, PTL DEF MCSpec

\* Ledger and commit policy keep to their types, whichever of them moves, also from a run
\* that is accepted, verified and linked (receipt.rs, work_item_contract.rs,
\* acceptance_evidence.rs).
THEOREM LedgerTypesCorrect == MCSpec => []LedgerTypesOK
<1>1. Inv => TypeOK
  BY DEF Inv, TypeInv
<1>2. GovernanceInv => GovernanceTypeOK
  BY GovernanceTyped
<1>3. QED
  BY <1>1, <1>2, BothInvariant, PTL DEF LedgerTypesOK

\* What the commit policy promises holds from the linked run too: overrides are those a
\* human saw, acceptance is of the commit, and Changes tells what Finish would decide
\* (commit_policy.rs, acceptance_evidence.rs, change_governance.rs).
THEOREM LinkedRunIsGoverned ==
  MCSpec => [](OverrideCoversViolation /\ AcceptanceIsOfTheCommit /\ ChangesTellsTheTruth)
BY BothInvariant, OverridesCovered, AcceptanceFollows, ChangesFollow, PTL
=============================================================================
