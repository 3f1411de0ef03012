--------------------------- MODULE FinishRecovery ---------------------------
(***************************************************************************)
(* Finish: the bounded `git commit` of an accepted and verified changeset, *)
(* made retry-safe by a durable intent (workflow/finish_recovery.rs around *)
(* workflow/finish.rs).                                                    *)
(*                                                                         *)
(* One Finish call is a sequence of steps, each of which reads or writes   *)
(* one durable thing: the receipt file, the intent file, the index or      *)
(* HEAD.  Between two steps the process may crash, the user may edit the   *)
(* repository with Git, another RepoDesk surface may load the receipt and, *)
(* when Interleaved, the other Work commands may run.  A write to a file   *)
(* is atomic (sibling temporary, fsync, rename), and a write that reports  *)
(* an error may or may not have taken place (the directory sync comes      *)
(* after the rename).                                                      *)
(***************************************************************************)
EXTENDS Naturals, FiniteSets, Phase

CONSTANTS
  Root,          \* the commit the repository starts from
  BaseContent,   \* what every path holds in it
  ChangeSets,    \* the path sets a run may report as changed
  Interleaved,   \* other Work commands may run while a Finish is in flight
  FollowCta,     \* the user only ever presses the primary call to action
  MaxExternal,   \* bound on the user's own Git edits
  MaxFaults      \* bound on crashes, failed writes and misbehaving hooks

ASSUME FinishAssumption ==
  /\ Root \in Commit /\ BaseContent \in Content
  /\ ChangeSets \subseteq Digest \ {{}}
  /\ Interleaved \in BOOLEAN /\ FollowCta \in BOOLEAN
  /\ MaxExternal \in Nat /\ MaxFaults \in Nat

CommitObject == [tree : Tree, parents : SUBSET Commit]

FinishIntentRecord ==
  [run_id : Run, parent_head_sha : Commit, reviewed_tree_sha : Tree,
   changeset_digest : Digest, committed_paths : SUBSET Path,
   commit_sha : Commit \cup {None}]

\* What the Finish gate takes from the Safe Commit Manifest.
Manifest == [run_id : Run, reviewed_tree_sha : Tree, staged_paths : SUBSET Path]

ASSUME FinishNoneAssumption ==
  /\ None \notin CommitObject /\ None \notin FinishIntentRecord
  /\ None \notin Manifest

VARIABLES
  objects,    \* the commit objects that exist
  head,       \* the commit HEAD names
  index,      \* the staged tree
  receipt,    \* task-run-receipt.json
  intent,     \* finish-intent.json
  launched,   \* the run ids already used
  pc,         \* where the Finish call in flight stands
  mem,        \* what that call holds in memory
  external, faults,     \* how much of the two bounds is used
  accepted, verified,   \* history: the trees accepted, and verified, per run
  unrecorded  \* history: the commit at HEAD Finish made and has not recorded

repo == <<objects, head, index>>
files == <<receipt, intent>>
call == <<pc, mem>>
history == <<accepted, verified, unrecorded>>
vars == <<repo, files, launched, call, external, faults, history>>

\* The locals of a Finish call: the receipt it works on, the intent it read,
\* the manifest that authorised it and the commit it is about to record.
Memory == [receipt : TaskRunReceipt \cup {None},
           intent : FinishIntentRecord \cup {None},
           manifest : Manifest \cup {None}, commit : Commit \cup {None}]

NoMem == [receipt |-> None, intent |-> None, manifest |-> None, commit |-> None]

----------------------------------------------------------------------------
\* Definitions shared by the steps

StagedPaths == DiffPaths(objects[head].tree, index)

\* validate_intent_against_receipt
IntentMatches(i, r) ==
  /\ i.run_id = r.run_id
  /\ r.changeset_digest = i.changeset_digest
  /\ BoundReview(r)
  /\ r.review.index_tree_after_accept = i.reviewed_tree_sha
  /\ i.committed_paths = r.review.reviewed_paths
  /\ r.verification # None
  /\ r.verification.run_id = r.run_id
  /\ valid_for(r.verification, i.parent_head_sha, i.reviewed_tree_sha,
               i.changeset_digest)

\* Mutant: any single child of the verified parent will do.
AnyChildCandidate(i, c) ==
  objects[c] # None /\ objects[c].parents = {i.parent_head_sha}

\* validate_recovery_candidate: the reviewed tree, as the single child of the
\* verified parent.
RecoveryCandidate(i, c) ==
  /\ objects[c] # None
  /\ objects[c].tree = i.reviewed_tree_sha
  /\ objects[c].parents = {i.parent_head_sha}

\* The three results of recoverable_commit_sha: Ok(None), Ok(Some(_)), Err.
NothingCommitted(i) == i.commit_sha = None /\ head = i.parent_head_sha
CandidateOf(i) == IF i.commit_sha = None THEN head ELSE i.commit_sha
\* Mutant: only a commit the intent already names is recovered.
OnlyPromotedRecoverable(i) ==
  i.commit_sha # None /\ RecoveryCandidate(i, i.commit_sha)

CommitRecoverable(i) ==
  ~ NothingCommitted(i) /\ RecoveryCandidate(i, CandidateOf(i))

\* The guards of prepare_finish_intent, and the record it returns.
FinishPrepared(r) ==
  /\ r.changeset_digest # None
  /\ BoundReview(r)
  /\ reviewed_tree_ok(r, index)
  /\ r.verification # None
  /\ r.verification.run_id = r.run_id
  /\ valid_for(r.verification, head, index, r.changeset_digest)
  /\ StagedPaths # {}
  /\ StagedPaths \subseteq r.review.reviewed_paths

PreparedIntent(r) ==
  [run_id |-> r.run_id, parent_head_sha |-> head,
   reviewed_tree_sha |-> r.review.index_tree_after_accept,
   changeset_digest |-> r.changeset_digest, committed_paths |-> StagedPaths,
   commit_sha |-> None]

ManifestReady(r) == manifest_ready(r, head, index, StagedPaths)

\* The evidence the Work surface derives its phases from; scope, preparation
\* and a successful run in the chosen mode are given here.
WorkEvidence ==
  [scope_ok |-> TRUE, prepare_ok |-> TRUE, mode_matches |-> TRUE,
   succeeded |-> TRUE, receipt |-> load_receipt(receipt, index),
   head_sha |-> head, index_tree_sha |-> index, finish_commit_exists |-> TRUE]

\* The user may press the control of this phase now.
Offered(phase) == FollowCta => CurrentPhase(WorkEvidence) = phase

Idle == pc = "idle"
OthersMayRun == Interleaved \/ Idle

Step(from, to) == pc = from /\ pc' = to
Return(from) == Step(from, "idle") /\ mem' = NoMem
Fault == faults < MaxFaults /\ faults' = faults + 1

----------------------------------------------------------------------------
\* The rest of the Work flow, one atomic step each

Init ==
  /\ objects = [c \in Commit |-> IF c = Root
                  THEN [tree |-> [p \in Path |-> BaseContent], parents |-> {}]
                  ELSE None]
  /\ head = Root
  /\ index = [p \in Path |-> BaseContent]
  /\ receipt = None /\ intent = None /\ launched = {}
  /\ pc = "idle" /\ mem = NoMem
  /\ external = 0 /\ faults = 0
  /\ accepted = {} /\ verified = {} /\ unrecorded = None

\* A run ends: its receipt overwrites that of the run before it.
finalize_execution_evidence ==
  /\ OthersMayRun
  /\ Offered("execute")
  /\ \E run \in Run \ launched, digest \in ChangeSets \cup {None} :
       /\ receipt' = FreshReceipt(run, digest)
       /\ launched' = launched \cup {run}
  /\ UNCHANGED <<repo, intent, call, external, faults, history>>

\* Accept stages the working-tree bytes of the run's paths, whatever they are by
\* then, and binds the review to the tree this leaves in the index.
Accept ==
  /\ OthersMayRun
  /\ Offered("review")
  /\ receipt # None
  /\ receipt.changeset_digest # None
  /\ \E bytes \in [receipt.changeset_digest -> Content] :
       index' = [p \in Path |-> IF p \in receipt.changeset_digest
                                THEN bytes[p] ELSE index[p]]
  /\ receipt' = WithReview(receipt, "accepted", receipt.changeset_digest, index')
  /\ accepted' = accepted \cup {<<receipt.run_id, index'>>}
  /\ UNCHANGED <<objects, head, intent, launched, call, external, faults,
                 verified, unrecorded>>

\* Reject restores the run's paths to HEAD, or leaves an isolated run's alone.
Reject ==
  /\ OthersMayRun
  /\ Offered("review")
  /\ receipt # None
  /\ receipt.changeset_digest # None
  /\ \/ index' = index
     \/ index' = [p \in Path |-> IF p \in receipt.changeset_digest
                                 THEN objects[head].tree[p] ELSE index[p]]
  /\ receipt' = WithReview(receipt, "rejected", receipt.changeset_digest, index)
  /\ UNCHANGED <<objects, head, intent, launched, call, external, faults, history>>

\* run_verification, from its gate to the receipt it saves.
run_verification ==
  /\ OthersMayRun
  /\ Offered("verify")
  /\ receipt # None
  /\ LET r == load_receipt(receipt, index) IN
     /\ reviewed_tree_ok(r, index)
     /\ \E success \in BOOLEAN :
          /\ receipt' = WithVerification(r, head, index, success)
          /\ verified' = IF success THEN verified \cup {<<r.run_id, index>>}
                         ELSE verified
  /\ UNCHANGED <<repo, intent, launched, call, external, faults, accepted,
                 unrecorded>>

\* Any surface reads the evidence, which may drop a stale approval durably.
PollReceipt ==
  /\ receipt' = load_receipt(receipt, index)
  /\ receipt' # receipt
  /\ UNCHANGED <<repo, intent, launched, call, external, faults, history>>

----------------------------------------------------------------------------
\* The user's own Git commands, at any moment

ExternalEdit(action) ==
  /\ external < MaxExternal
  /\ external' = external + 1
  /\ action
  /\ UNCHANGED <<files, launched, call, faults, accepted, verified>>

ExternalStage ==
  \E p \in Path, c \in Content :
    /\ index' = [index EXCEPT ![p] = c]
    /\ UNCHANGED <<objects, head, unrecorded>>

\* `git commit` or `git commit --amend` of whatever is staged.
ExternalCommit ==
  \E c \in Commit, parents \in {{head}, objects[head].parents} :
    /\ objects[c] = None
    /\ objects' = [objects EXCEPT ![c] = [tree |-> index, parents |-> parents]]
    /\ head' = c
    /\ unrecorded' = None
    /\ UNCHANGED index

\* `git reset --soft`, or a checkout or reset that carries the index along.
ExternalReset ==
  \E c \in Commit \ {head} :
    /\ objects[c] # None
    /\ head' = c
    /\ index' \in {index, objects[c].tree}
    /\ unrecorded' = None
    /\ UNCHANGED objects

External ==
  \/ ExternalEdit(ExternalStage)
  \/ ExternalEdit(ExternalCommit)
  \/ ExternalEdit(ExternalReset)

----------------------------------------------------------------------------
\* One Finish call: finish_recovery::commit_reviewed_index

\* No finish evidence yet: go on to the intent.
BeginFinish ==
  /\ Step("idle", "read_intent")
  /\ Offered("finish")
  /\ receipt # None
  /\ receipt' = load_receipt(receipt, index)
  /\ receipt'.finish = None
  /\ mem' = [NoMem EXCEPT !.receipt = receipt']
  /\ UNCHANGED <<repo, intent, launched, external, faults, history>>

\* existing_finish_outcome: already finished, so only tidy the intent away.
FinishAlreadyRecorded ==
  /\ Idle
  /\ receipt # None
  /\ receipt.finish # None
  /\ intent # None
  /\ intent' = None
  /\ UNCHANGED <<repo, receipt, launched, call, external, faults, history>>

\* Mutant: an intent left by an earlier attempt is not looked at.
RetryIgnoringIntent ==
  /\ Step("read_intent", "prepare")
  /\ mem' = [mem EXCEPT !.intent = None]
  /\ UNCHANGED <<repo, files, launched, external, faults, history>>

\* Nothing was committed under the intent, if there is one: (re)prepare.
RetryOrPrepare ==
  /\ Step("read_intent", "prepare")
  /\ intent # None => IntentMatches(intent, mem.receipt) /\ NothingCommitted(intent)
  /\ mem' = [mem EXCEPT !.intent = intent]
  /\ UNCHANGED <<repo, files, launched, external, faults, history>>

\* The commit exists already: bind the intent to it durably, then record it.
PromoteIntent(from, to, i) ==
  /\ Step(from, to)
  /\ CommitRecoverable(i)
  /\ intent' = [i EXCEPT !.commit_sha = CandidateOf(i)]
  /\ mem' = [mem EXCEPT !.intent = i, !.commit = CandidateOf(i)]
  /\ UNCHANGED <<repo, receipt, launched, external, faults, history>>

RecoverOnRetry ==
  /\ pc = "read_intent"
  /\ intent # None
  /\ IntentMatches(intent, mem.receipt)
  /\ PromoteIntent("read_intent", "persist_recovered", intent)

BlockedByIntent ==
  /\ Return("read_intent")
  /\ intent # None
  /\ \/ ~ IntentMatches(intent, mem.receipt)
     \/ ~ NothingCommitted(intent) /\ ~ CommitRecoverable(intent)
  /\ UNCHANGED <<repo, files, launched, external, faults, history>>

\* A first attempt writes the intent; a retry must find the same boundary.
PrepareIntent ==
  /\ pc = "prepare"
  /\ FinishPrepared(mem.receipt)
  /\ \/ /\ mem.intent = None
        /\ intent' = PreparedIntent(mem.receipt)
     \/ /\ mem.intent = PreparedIntent(mem.receipt)
        /\ UNCHANGED intent
  /\ \/ Step("prepare", "manifest") /\ UNCHANGED <<mem, faults>>
     \/ Return("prepare") /\ mem.intent = None /\ Fault
  /\ UNCHANGED <<repo, receipt, launched, external, history>>

BlockedBeforeCommit ==
  /\ Return("prepare")
  /\ \/ ~ FinishPrepared(mem.receipt)
     \/ mem.intent # None /\ mem.intent # PreparedIntent(mem.receipt)
  /\ UNCHANGED <<repo, files, launched, external, faults, history>>

----------------------------------------------------------------------------
\* The commit itself: finish::commit_reviewed_index

ReadManifest ==
  /\ Step("manifest", "reload")
  /\ receipt' = load_receipt(receipt, index)
  /\ ManifestReady(receipt')
  /\ mem' = [mem EXCEPT !.manifest =
       [run_id |-> receipt'.run_id, staged_paths |-> StagedPaths,
        reviewed_tree_sha |-> receipt'.review.index_tree_after_accept]]
  /\ UNCHANGED <<repo, intent, launched, external, faults, history>>

\* The manifest is not Ready, for a policy of the project if nothing else.
ManifestBlocks ==
  /\ Step("manifest", "failed")
  /\ receipt' = load_receipt(receipt, index)
  /\ \/ ~ ManifestReady(receipt') /\ UNCHANGED faults
     \/ ManifestReady(receipt') /\ Fault
  /\ UNCHANGED <<repo, intent, mem, launched, external, history>>

ReloadReceipt ==
  /\ pc = "reload"
  /\ receipt' = load_receipt(receipt, index)
  /\ \/ /\ receipt'.run_id = mem.manifest.run_id
        /\ pc' = "git_commit"
        /\ mem' = [mem EXCEPT !.receipt = receipt']
     \/ /\ receipt'.run_id # mem.manifest.run_id
        /\ pc' = "failed"
        /\ UNCHANGED mem
  /\ UNCHANGED <<repo, intent, launched, external, faults, history>>

\* `git commit -m` of the index as it is now.
CommitTree(tree) ==
  /\ Step("git_commit", "check_tree")
  /\ tree # objects[head].tree
  /\ \E c \in Commit :
       /\ objects[c] = None
       /\ objects' = [objects EXCEPT ![c] = [tree |-> tree, parents |-> {head}]]
       /\ head' = c
       /\ unrecorded' = c
  /\ index' = tree
  /\ UNCHANGED <<files, launched, mem, external, accepted, verified>>

GitCommit == CommitTree(index) /\ UNCHANGED faults

\* A pre-commit hook rewrites what is staged.
HookMutatesCommit == \E tree \in Tree \ {index} : CommitTree(tree) /\ Fault

\* Nothing is staged any more, or a hook refuses.
GitCommitFails ==
  /\ Step("git_commit", "failed")
  /\ \/ index = objects[head].tree /\ UNCHANGED faults
     \/ index # objects[head].tree /\ Fault
  /\ UNCHANGED <<repo, files, launched, mem, external, history>>

\* Mutant: the commit is recorded without looking at what it holds.
CommittedTreeUnchecked ==
  /\ Step("check_tree", "save_finish")
  /\ mem' = [mem EXCEPT !.commit = head]
  /\ UNCHANGED <<repo, files, launched, external, faults, history>>

\* Mutant: the id of the commit is not read back from Git.
CommittedTreeUnnamed ==
  /\ Step("check_tree", "save_finish")
  /\ objects[head].tree = mem.manifest.reviewed_tree_sha
  /\ UNCHANGED <<repo, files, launched, mem, external, faults, history>>

\* The commit at HEAD must hold exactly the authorised tree.
CheckCommittedTree ==
  /\ pc = "check_tree"
  /\ \/ /\ objects[head].tree = mem.manifest.reviewed_tree_sha
        /\ pc' = "save_finish"
        /\ mem' = [mem EXCEPT !.commit = head]
     \/ /\ objects[head].tree # mem.manifest.reviewed_tree_sha
        /\ pc' = "failed"
        /\ UNCHANGED mem
  /\ UNCHANGED <<repo, files, launched, external, faults, history>>

\* save_receipt of the finish evidence; it may report an error either way.
Record(from, to, r, failed) ==
  /\ \/ Step(from, to) /\ receipt' = r /\ UNCHANGED <<mem, faults>>
     \/ failed /\ receipt' \in {r, load_receipt(receipt, index)} /\ Fault
  /\ unrecorded' = IF receipt' = r THEN None ELSE unrecorded
  /\ UNCHANGED <<repo, intent, launched, external, accepted, verified>>

SaveFinish ==
  Record("save_finish", "cleanup",
         WithFinish(mem.receipt, mem.commit, mem.manifest.staged_paths),
         Step("save_finish", "failed") /\ UNCHANGED mem)

\* Removing the intent is best effort.
Cleanup ==
  /\ Return("cleanup")
  /\ \/ intent' = None /\ UNCHANGED faults
     \/ UNCHANGED intent /\ Fault
  /\ UNCHANGED <<repo, receipt, launched, external, history>>

----------------------------------------------------------------------------
\* After a failed commit: inspect the durable boundary

RecoverAfterFailure ==
  intent # None /\ PromoteIntent("failed", "reload_latest", intent)

\* Nothing was committed: the attempt was harmless, so its intent goes.
DropHarmlessIntent ==
  /\ Return("failed")
  /\ intent # None
  /\ NothingCommitted(intent)
  /\ \/ intent' = None /\ UNCHANGED faults
     \/ UNCHANGED intent /\ Fault
  /\ UNCHANGED <<repo, receipt, launched, external, history>>

FailureUnresolved ==
  /\ Return("failed")
  /\ intent # None => ~ NothingCommitted(intent) /\ ~ CommitRecoverable(intent)
  /\ UNCHANGED <<repo, files, launched, external, faults, history>>

ReloadLatest ==
  /\ Step("reload_latest", "persist_recovered")
  /\ receipt' = load_receipt(receipt, index)
  /\ mem' = [mem EXCEPT !.receipt = receipt']
  /\ UNCHANGED <<repo, intent, launched, external, faults, history>>

\* persist_recovered_finish
PersistRecovered ==
  /\ pc = "persist_recovered"
  /\ IntentMatches(mem.intent, mem.receipt)
  /\ RecoveryCandidate(mem.intent, mem.commit)
  /\ Record("persist_recovered", "cleanup",
            WithFinish(mem.receipt, mem.commit, mem.intent.committed_paths),
            Return("persist_recovered"))

RecoveryRefused ==
  /\ Return("persist_recovered")
  /\ ~ IntentMatches(mem.intent, mem.receipt)
  /\ UNCHANGED <<repo, files, launched, external, faults, history>>

\* The process dies; only the files and the repository survive.
Crash ==
  /\ ~ Idle
  /\ pc' = "idle" /\ mem' = NoMem
  /\ Fault
  /\ UNCHANGED <<repo, files, launched, external, history>>

FinishStep ==
  \/ RetryOrPrepare \/ RecoverOnRetry \/ BlockedByIntent
  \/ PrepareIntent \/ BlockedBeforeCommit
  \/ ReadManifest \/ ManifestBlocks \/ ReloadReceipt
  \/ GitCommit \/ HookMutatesCommit \/ GitCommitFails
  \/ CheckCommittedTree \/ SaveFinish \/ Cleanup
  \/ RecoverAfterFailure \/ DropHarmlessIntent \/ FailureUnresolved
  \/ ReloadLatest \/ PersistRecovered \/ RecoveryRefused

Next ==
  \/ finalize_execution_evidence \/ Accept \/ Reject \/ run_verification
  \/ PollReceipt \/ External
  \/ BeginFinish \/ FinishAlreadyRecorded \/ FinishStep \/ Crash

Spec == Init /\ [][Next]_vars

\* Fairness: a Finish call that is running goes on, and the user keeps pressing
\* the control the Work surface offers (the errors say "Retry Finish").
FairSpec ==
  /\ Spec
  /\ WF_vars(FinishStep) /\ WF_vars(BeginFinish)

\* The user also presses "Run verification" whenever it is what is offered, and
\* it passes now and then.
VerificationPasses == run_verification /\ receipt'.verification.success
DiligentSpec == FairSpec /\ SF_vars(VerificationPasses)

----------------------------------------------------------------------------
\* Properties

TypeOK ==
  /\ objects \in [Commit -> CommitObject \cup {None}]
  /\ head \in Commit /\ index \in Tree
  /\ receipt \in TaskRunReceipt \cup {None}
  /\ intent \in FinishIntentRecord \cup {None}
  /\ launched \in SUBSET Run
  /\ pc \in {"idle", "read_intent", "prepare", "manifest", "reload", "git_commit",
            "check_tree", "save_finish", "failed", "reload_latest",
            "persist_recovered", "cleanup"}
  /\ mem \in Memory
  /\ external \in 0 .. MaxExternal /\ faults \in 0 .. MaxFaults
  /\ accepted \in SUBSET (Run \X Tree) /\ verified \in SUBSET (Run \X Tree)
  /\ unrecorded \in Commit \cup {None}

\* Recorded finish evidence names an existing commit whose tree the human
\* accepted, and a verification passed on, for that very run - whatever crashed,
\* was edited or ran in between (finish.rs, finish_recovery.rs).
FinishTreeReviewed ==
  receipt # None /\ receipt.finish # None =>
    LET f == receipt.finish IN
    /\ objects[f.commit_sha] # None
    /\ <<f.run_id, objects[f.commit_sha].tree>> \in accepted \cap verified

Committing == pc = "git_commit" /\ pc' = "check_tree"

\* RepoDesk does not run `git commit` again while HEAD is a commit it made and
\* has not recorded (finish_recovery.rs: "never issues a second `git commit`
\* for the same pending Finish").
NoSecondCommit == [][Committing => unrecorded = None]_vars

\* RepoDesk only commits under a durable intent that names no commit yet.
IntentBeforeCommit ==
  [][Committing => intent # None /\ intent.commit_sha = None]_vars

\* Step by step, with its files, crashes and interleavings, Finish keeps the
\* contract of FinishContract.
Contract == INSTANCE FinishContract WITH
  NoEvidence <- None,
  approved <- accepted \cap verified,
  outstanding <- unrecorded # None,
  recorded <- IF receipt = None \/ receipt.finish = None THEN None
              ELSE <<receipt.finish.run_id, objects[receipt.finish.commit_sha].tree>>

FinishKeepsContract == Contract!ContractSpec

\* The evidence ledger obeys its own invariants whatever is interleaved with a
\* Finish, so no later load refuses the file as corrupt.
ReceiptValid == receipt # None => validate_receipt(receipt)

\* The reviewed commit c is at HEAD, the index still holds its tree, and the
\* run and review it came from are current, but Finish is not recorded.
LandedUnrecorded(c) ==
  /\ intent # None /\ receipt # None
  /\ receipt.finish = None
  /\ head = c /\ ~ NothingCommitted(intent) /\ CandidateOf(intent) = c
  /\ RecoveryCandidate(intent, c)
  /\ index = intent.reviewed_tree_sha
  /\ BoundReview(receipt) /\ receipt.run_id = intent.run_id

\* Something other than Finish changed what LandedUnrecorded is about.
Disturbed(c) ==
  \/ head # c \/ index # objects[c].tree
  \/ receipt = None
  \/ ~ BoundReview(receipt)
  \/ receipt.review.index_tree_after_accept # objects[c].tree

FinishRecorded == receipt # None /\ receipt.finish # None

\* A reviewed commit that Finish made but could not record, because of a crash or
\* a failed write, is recorded by a retry, provided the verification it was made
\* under is still in the ledger.
RetryRecordsCommit ==
  \A c \in Commit :
    LandedUnrecorded(c) /\ IntentMatches(intent, receipt)
      ~> \/ FinishRecorded \/ Disturbed(c)
         \/ intent = None \/ ~ IntentMatches(intent, receipt)

\* The same without that proviso: pressing what the Work surface offers, and
\* Finish in particular, ends in recorded evidence of the commit.
CommitIsEventuallyRecorded ==
  \A c \in Commit : LandedUnrecorded(c) ~> FinishRecorded \/ Disturbed(c)
=============================================================================
