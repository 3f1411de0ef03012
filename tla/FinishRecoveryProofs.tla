------------------------ MODULE FinishRecoveryProofs ------------------------
(***************************************************************************)
(* Theorems about FinishRecovery, for every repository, every number of    *)
(* runs, commits, user edits and faults, with or without other Work        *)
(* commands interleaved with a Finish.                                     *)
(***************************************************************************)
EXTENDS FinishRecovery, ReceiptProofs

\* What each step of a Finish call finds in memory.
PcOK ==
  /\ pc # "idle" => receipt # None /\ mem.receipt # None
  /\ pc \in {"reload", "git_commit", "check_tree", "save_finish"} =>
       mem.manifest # None
  /\ pc \in {"reload_latest", "persist_recovered"} => mem.intent # None
  /\ pc \in {"save_finish", "reload_latest", "persist_recovered"} =>
       mem.commit # None

TypeInv == TypeOK /\ objects[head] # None /\ PcOK

LEMMA NoMemType == NoMem \in Memory
BY DEF NoMem, Memory

LEMMA InitType == Init => TypeInv
<1> SUFFICES ASSUME Init PROVE TypeInv
  OBVIOUS
<1> DEFINE root == [tree |-> [p \in Path |-> BaseContent], parents |-> {}]
<1>1. root.tree \in Tree /\ root \in CommitObject
  BY FinishAssumption DEF Tree, CommitObject
<1>2. root # None
  BY <1>1, FinishNoneAssumption
<1> HIDE DEF root
<1>3. objects = [c \in Commit |-> IF c = Root THEN root ELSE None]
  BY DEF Init, root
<1>4. /\ objects \in [Commit -> CommitObject \cup {None}]
      /\ objects[head] # None
  BY <1>1, <1>2, <1>3, FinishAssumption DEF Init
<1>5. head \in Commit /\ index \in Tree
  BY FinishAssumption DEF Init, Tree
<1>6. mem \in Memory
  BY NoMemType DEF Init
<1>7. external \in 0 .. MaxExternal /\ faults \in 0 .. MaxFaults
  BY FinishAssumption DEF Init
<1>8. QED
  BY <1>4, <1>5, <1>6, <1>7 DEF Init, TypeInv, TypeOK, PcOK

----------------------------------------------------------------------------
\* Type correctness, one lemma per group of actions

\* A load of the receipt, in any state.
LEMMA LoadHere ==
  ASSUME TypeInv
  PROVE  /\ load_receipt(receipt, index) \in TaskRunReceipt \cup {None}
         /\ load_receipt(receipt, index) = None <=> receipt = None
<1>1. receipt \in TaskRunReceipt \cup {None}
  BY DEF TypeInv, TypeOK
<1>2. CASE receipt = None
  BY <1>2 DEF load_receipt
<1>3. CASE receipt # None
  BY <1>1, <1>3, LoadEffect
<1>4. QED
  BY <1>2, <1>3

LEMMA WorkType ==
  ASSUME TypeInv,
         finalize_execution_evidence \/ Accept \/ Reject \/ run_verification
           \/ PollReceipt
  PROVE  TypeInv'
<1> USE DEF TypeInv
<1>1. CASE finalize_execution_evidence
  <2>1. PICK run \in Run \ launched, digest \in ChangeSets \cup {None} :
          /\ receipt' = FreshReceipt(run, digest)
          /\ launched' = launched \cup {run}
    BY <1>1 DEF finalize_execution_evidence
  <2>2. receipt' \in TaskRunReceipt
    BY <2>1, FinishAssumption DEF FreshReceipt, TaskRunReceipt
  <2>3. receipt' # None
    BY <2>2, NoneAssumption
  <2>4. launched' \in SUBSET Run
    BY <2>1 DEF TypeOK
  <2>5. QED
    BY <1>1, <2>2, <2>3, <2>4
    DEF finalize_execution_evidence, TypeOK, PcOK, repo, call, history
<1>2. CASE Accept
  <2>1. PICK bytes \in [receipt.changeset_digest -> Content] :
          index' = [p \in Path |-> IF p \in receipt.changeset_digest
                                   THEN bytes[p] ELSE index[p]]
    BY <1>2 DEF Accept
  <2>2. index' \in Tree
    BY <2>1 DEF TypeOK, Tree
  <2>3. receipt \in TaskRunReceipt /\ receipt.changeset_digest \in SUBSET Path
    BY <1>2 DEF Accept, TypeOK, TaskRunReceipt, Digest
  <2>4. receipt' \in TaskRunReceipt
    BY <1>2, <2>2, <2>3, ReviewType DEF Accept
  <2>5. receipt' # None
    BY <2>4, NoneAssumption
  <2>6. accepted' \in SUBSET (Run \X Tree)
    BY <1>2, <2>2, <2>3 DEF Accept, TypeOK, TaskRunReceipt
  <2>7. QED
    BY <1>2, <2>2, <2>4, <2>5, <2>6 DEF Accept, TypeOK, PcOK, call
<1>3. CASE Reject
  <2>1. objects[head].tree \in Tree
    BY DEF TypeOK, CommitObject
  <2>2. index' \in Tree
    BY <1>3, <2>1 DEF Reject, TypeOK, Tree
  <2>3. receipt \in TaskRunReceipt /\ receipt.changeset_digest \in SUBSET Path
    BY <1>3 DEF Reject, TypeOK, TaskRunReceipt, Digest
  <2>4. index \in Tree
    BY DEF TypeOK
  <2>5. receipt' \in TaskRunReceipt
    BY <1>3, <2>3, <2>4, ReviewType DEF Reject
  <2>6. receipt' # None
    BY <2>5, NoneAssumption
  <2>7. QED
    BY <1>3, <2>2, <2>5, <2>6 DEF Reject, TypeOK, PcOK, call, history
<1>4. CASE run_verification
  <2> DEFINE r == load_receipt(receipt, index)
  <2>1. PICK success \in BOOLEAN :
          /\ receipt' = WithVerification(r, head, index, success)
          /\ verified' = IF success THEN verified \cup {<<r.run_id, index>>}
                         ELSE verified
    BY <1>4 DEF run_verification
  <2>2. r \in TaskRunReceipt
    BY <1>4, LoadHere DEF run_verification
  <2> HIDE DEF r
  <2>3. head \in Commit /\ index \in Tree
    BY DEF TypeOK
  <2>4. receipt' \in TaskRunReceipt
    BY <2>1, <2>2, <2>3, VerificationType
  <2>5. receipt' # None
    BY <2>4, NoneAssumption
  <2>6. verified' \in SUBSET (Run \X Tree)
    BY <2>1, <2>2, <2>3 DEF TypeOK, TaskRunReceipt
  <2>7. QED
    BY <1>4, <2>4, <2>5, <2>6 DEF run_verification, TypeOK, PcOK, repo, call
<1>5. CASE PollReceipt
  BY <1>5, LoadHere DEF PollReceipt, TypeOK, PcOK, repo, call, history
<1>6. QED
  BY <1>1, <1>2, <1>3, <1>4, <1>5

LEMMA ExternalType ==
  ASSUME TypeInv, External
  PROVE  TypeInv'
<1> USE DEF TypeInv
<1>1. /\ external' \in 0 .. MaxExternal
      /\ UNCHANGED <<files, launched, call, faults, accepted, verified>>
  BY FinishAssumption DEF External, ExternalEdit, TypeOK
<1>2. CASE ExternalStage
  <2>1. index' \in Tree
    BY <1>2 DEF ExternalStage, TypeOK, Tree
  <2>2. QED
    BY <1>1, <1>2, <2>1 DEF ExternalStage, TypeOK, PcOK, files, call
<1>3. CASE ExternalCommit
  <2>1. PICK c \in Commit, parents \in {{head}, objects[head].parents} :
          /\ objects' = [objects EXCEPT ![c] = [tree |-> index, parents |-> parents]]
          /\ head' = c
          /\ unrecorded' = None
          /\ UNCHANGED index
    BY <1>3 DEF ExternalCommit
  <2>2. parents \in SUBSET Commit
    BY DEF TypeOK, CommitObject
  <2>3. [tree |-> index, parents |-> parents] \in CommitObject
    BY <2>2 DEF TypeOK, CommitObject
  <2>4. /\ objects' \in [Commit -> CommitObject \cup {None}]
        /\ objects'[head'] # None
    BY <2>1, <2>3, FinishNoneAssumption DEF TypeOK
  <2>5. QED
    BY <1>1, <2>1, <2>4 DEF TypeOK, PcOK, files, call
<1>4. CASE ExternalReset
  <2>1. PICK c \in Commit \ {head} :
          /\ objects[c] # None
          /\ head' = c
          /\ index' \in {index, objects[c].tree}
          /\ unrecorded' = None
          /\ UNCHANGED objects
    BY <1>4 DEF ExternalReset
  <2>2. index' \in Tree
    BY <2>1 DEF TypeOK, CommitObject
  <2>3. QED
    BY <1>1, <2>1, <2>2 DEF TypeOK, PcOK, files, call
<1>5. QED
  BY <1>2, <1>3, <1>4 DEF External, ExternalEdit

\* What Fault and a return leave well typed.
LEMMA FaultType == ASSUME TypeInv, Fault PROVE faults' \in 0 .. MaxFaults
BY FinishAssumption DEF TypeInv, TypeOK, Fault

\* The steps before the commit.
BeforeCommit ==
  \/ BeginFinish \/ FinishAlreadyRecorded
  \/ RetryOrPrepare \/ RecoverOnRetry \/ BlockedByIntent
  \/ PrepareIntent \/ BlockedBeforeCommit

\* The steps of the commit.
DuringCommit ==
  \/ ReadManifest \/ ManifestBlocks \/ ReloadReceipt
  \/ GitCommit \/ HookMutatesCommit \/ GitCommitFails
  \/ CheckCommittedTree \/ SaveFinish \/ Cleanup

\* The steps after a failed commit, and the crash.
AfterFailure ==
  \/ RecoverAfterFailure \/ DropHarmlessIntent \/ FailureUnresolved
  \/ ReloadLatest \/ PersistRecovered \/ RecoveryRefused \/ Crash

LEMMA PromoteType ==
  ASSUME TypeInv, NEW from, NEW to, NEW i \in FinishIntentRecord,
         PromoteIntent(from, to, i), mem.receipt # None, receipt # None,
         to \in {"persist_recovered", "reload_latest"}
  PROVE  TypeInv'
<1> USE DEF TypeInv
<1>1. CandidateOf(i) \in Commit
  BY DEF CandidateOf, FinishIntentRecord, TypeOK
<1>2. CandidateOf(i) # None /\ i # None
  BY <1>1, NoneAssumption, FinishNoneAssumption
<1>3. intent' \in FinishIntentRecord
  BY <1>1 DEF PromoteIntent, FinishIntentRecord
<1>4. mem \in Memory /\ mem' = [mem EXCEPT !.intent = i, !.commit = CandidateOf(i)]
  BY DEF PromoteIntent, TypeOK
<1>5. /\ mem' \in Memory
      /\ mem'.intent = i /\ mem'.commit = CandidateOf(i)
      /\ mem'.receipt = mem.receipt
  BY <1>1, <1>4 DEF Memory
<1>6. QED
  BY <1>2, <1>3, <1>5 DEF PromoteIntent, Step, TypeOK, PcOK, repo, history

LEMMA PreparedIsIntent ==
  ASSUME TypeInv, pc = "prepare", FinishPrepared(mem.receipt)
  PROVE  /\ PreparedIntent(mem.receipt) \in FinishIntentRecord
         /\ PreparedIntent(mem.receipt) # None
<1>1. mem.receipt \in TaskRunReceipt
  BY DEF TypeInv, TypeOK, PcOK, Memory
<1>2. mem.receipt.review.index_tree_after_accept = index
  BY DEF FinishPrepared, reviewed_tree_ok
<1>3. mem.receipt.changeset_digest \in Digest
  BY <1>1 DEF FinishPrepared, TaskRunReceipt
<1>4. PreparedIntent(mem.receipt) \in FinishIntentRecord
  BY <1>1, <1>2, <1>3
  DEF PreparedIntent, FinishIntentRecord, TaskRunReceipt, StagedPaths, DiffPaths,
      TypeInv, TypeOK
<1>5. QED
  BY <1>4, FinishNoneAssumption

LEMMA BeforeCommitType ==
  ASSUME TypeInv, BeforeCommit
  PROVE  TypeInv'
<1> USE DEF TypeInv
<1>1. CASE BeginFinish
  <2>1. receipt' \in TaskRunReceipt /\ receipt' # None
    BY <1>1, LoadHere DEF BeginFinish
  <2>2. mem' \in Memory /\ mem'.receipt = receipt'
    BY <1>1, <2>1, NoMemType DEF BeginFinish, Memory
  <2>3. QED
    BY <1>1, <2>1, <2>2 DEF BeginFinish, Step, TypeOK, PcOK, repo, history
<1>2. CASE FinishAlreadyRecorded
  BY <1>2 DEF FinishAlreadyRecorded, TypeOK, PcOK, repo, call, history
<1>3. CASE RetryOrPrepare
  <2>1. mem' \in Memory /\ mem'.receipt = mem.receipt
    BY <1>3 DEF RetryOrPrepare, TypeOK, Memory
  <2>2. QED
    BY <1>3, <2>1 DEF RetryOrPrepare, Step, TypeOK, PcOK, repo, files, history
<1>4. CASE RecoverOnRetry
  BY <1>4, PromoteType DEF RecoverOnRetry, TypeOK, PcOK
<1>5. CASE BlockedByIntent
  BY <1>5, NoMemType
  DEF BlockedByIntent, Return, Step, TypeOK, PcOK, repo, files, history
<1>6. CASE PrepareIntent
  <2>1. PreparedIntent(mem.receipt) \in FinishIntentRecord
    BY <1>6, PreparedIsIntent DEF PrepareIntent
  <2>2. intent' \in FinishIntentRecord \cup {None}
    BY <1>6, <2>1 DEF PrepareIntent, TypeOK
  <2>3. mem' \in Memory
    BY <1>6, NoMemType DEF PrepareIntent, Return, TypeOK
  <2>4. faults' \in 0 .. MaxFaults
    BY <1>6, FaultType DEF PrepareIntent, TypeOK
  <2>5. PcOK'
    BY <1>6 DEF PrepareIntent, PcOK, Return, Step
  <2>6. QED
    BY <1>6, <2>2, <2>3, <2>4, <2>5
    DEF PrepareIntent, Return, Step, TypeOK, repo, history
<1>7. CASE BlockedBeforeCommit
  BY <1>7, NoMemType
  DEF BlockedBeforeCommit, Return, Step, TypeOK, PcOK, repo, files, history
<1>8. QED
  BY <1>1, <1>2, <1>3, <1>4, <1>5, <1>6, <1>7 DEF BeforeCommit

LEMMA CommitTreeType ==
  ASSUME TypeInv, NEW tree \in Tree, CommitTree(tree), faults' \in 0 .. MaxFaults
  PROVE  TypeInv'
<1> USE DEF TypeInv
<1>1. PICK c \in Commit :
        /\ objects' = [objects EXCEPT ![c] = [tree |-> tree, parents |-> {head}]]
        /\ head' = c
        /\ unrecorded' = c
  BY DEF CommitTree
<1>2. [tree |-> tree, parents |-> {head}] \in CommitObject
  BY DEF TypeOK, CommitObject
<1>3. /\ objects' \in [Commit -> CommitObject \cup {None}]
      /\ objects'[head'] # None
  BY <1>1, <1>2, FinishNoneAssumption DEF TypeOK
<1>4. index' = tree
  BY DEF CommitTree
<1>5. QED
  BY <1>1, <1>3, <1>4 DEF CommitTree, Step, TypeOK, PcOK, files

\* Recording a typed receipt, whether or not the write reports an error.
LEMMA RecordType ==
  ASSUME TypeInv, NEW from, NEW r \in TaskRunReceipt, NEW ACTION failed,
         Record(from, "cleanup", r, failed), pc # "idle",
         failed => /\ mem' \in {mem, NoMem}
                   /\ pc' \in {"idle", "failed"}
                   /\ pc' = "failed" => mem' = mem
  PROVE  TypeInv'
<1> USE DEF TypeInv
<1>1. receipt' \in {r, load_receipt(receipt, index)}
  BY DEF Record
<1>2. receipt # None
  BY DEF PcOK
<1>3. receipt' \in TaskRunReceipt /\ receipt' # None
  BY <1>1, <1>2, LoadHere, NoneAssumption
<1>4. mem' \in Memory
  BY NoMemType DEF Record, TypeOK
<1>5. faults' \in 0 .. MaxFaults
  BY FaultType DEF Record, TypeOK
<1>6. unrecorded' \in Commit \cup {None}
  BY DEF Record, TypeOK
<1>7. PcOK'
  BY <1>3 DEF Record, Step, PcOK
<1>8. pc' \in {"idle", "failed", "cleanup"}
  BY DEF Record, Step
<1>9. QED
  BY <1>3, <1>4, <1>5, <1>6, <1>7, <1>8 DEF Record, TypeOK, repo

LEMMA DuringCommitType ==
  ASSUME TypeInv, DuringCommit
  PROVE  TypeInv'
<1> USE DEF TypeInv
<1>1. CASE ReadManifest
  <2>1. receipt' \in TaskRunReceipt /\ receipt' # None
    BY <1>1, LoadHere DEF ReadManifest, Step, PcOK
  <2>2. receipt'.review.index_tree_after_accept = index
    BY <1>1 DEF ReadManifest, ManifestReady, manifest_ready
  <2> DEFINE m == [run_id |-> receipt'.run_id, staged_paths |-> StagedPaths,
                   reviewed_tree_sha |-> receipt'.review.index_tree_after_accept]
  <2>3. m \in Manifest
    BY <2>1, <2>2 DEF Manifest, TaskRunReceipt, StagedPaths, DiffPaths, TypeOK
  <2>4. m # None
    BY <2>3, FinishNoneAssumption
  <2>5. mem' = [mem EXCEPT !.manifest = m]
    BY <1>1 DEF ReadManifest
  <2> HIDE DEF m
  <2>6. mem' \in Memory /\ mem'.manifest = m /\ mem'.receipt = mem.receipt
    BY <2>3, <2>5 DEF TypeOK, Memory
  <2>7. QED
    BY <1>1, <2>1, <2>4, <2>6 DEF ReadManifest, Step, TypeOK, PcOK, repo, history
<1>2. CASE ManifestBlocks
  <2>1. receipt' \in TaskRunReceipt /\ receipt' # None
    BY <1>2, LoadHere DEF ManifestBlocks, Step, PcOK
  <2>2. faults' \in 0 .. MaxFaults
    BY <1>2, FaultType DEF ManifestBlocks, TypeOK
  <2>3. QED
    BY <1>2, <2>1, <2>2 DEF ManifestBlocks, Step, TypeOK, PcOK, repo, history
<1>3. CASE ReloadReceipt
  <2>1. receipt' \in TaskRunReceipt /\ receipt' # None
    BY <1>3, LoadHere DEF ReloadReceipt, PcOK
  <2>2. mem' \in Memory /\ mem'.manifest = mem.manifest /\ mem'.receipt # None
    BY <1>3, <2>1 DEF ReloadReceipt, TypeOK, Memory, PcOK
  <2>3. QED
    BY <1>3, <2>1, <2>2 DEF ReloadReceipt, TypeOK, PcOK, repo, history
<1>4. CASE GitCommit
  <2>1. index \in Tree /\ CommitTree(index) /\ faults' \in 0 .. MaxFaults
    BY <1>4 DEF GitCommit, TypeOK
  <2>2. QED
    BY <2>1, CommitTreeType
<1>5. CASE HookMutatesCommit
  <2>1. PICK tree \in Tree : CommitTree(tree) /\ Fault
    BY <1>5 DEF HookMutatesCommit
  <2>2. QED
    BY <2>1, CommitTreeType, FaultType
<1>6. CASE GitCommitFails
  <2>1. faults' \in 0 .. MaxFaults
    BY <1>6, FaultType DEF GitCommitFails, TypeOK
  <2>2. QED
    BY <1>6, <2>1 DEF GitCommitFails, Step, TypeOK, PcOK, repo, files, history
<1>7. CASE CheckCommittedTree
  <2>1. head # None
    BY NoneAssumption DEF TypeOK
  <2>2. /\ mem' \in Memory
        /\ mem'.receipt = mem.receipt /\ mem'.manifest = mem.manifest
        /\ pc' = "save_finish" => mem'.commit = head
    BY <1>7 DEF CheckCommittedTree, TypeOK, Memory
  <2>3. QED
    BY <1>7, <2>1, <2>2 DEF CheckCommittedTree, TypeOK, PcOK, repo, files, history
<1>8. CASE SaveFinish
  <2> DEFINE r == WithFinish(mem.receipt, mem.commit, mem.manifest.staged_paths)
  <2>1. pc = "save_finish"
    BY <1>8 DEF SaveFinish, Record, Step
  <2>2. /\ mem.receipt \in TaskRunReceipt /\ mem.commit \in Commit
        /\ mem.manifest.staged_paths \in SUBSET Path
    BY <2>1 DEF PcOK, TypeOK, Memory, Manifest
  <2>3. r \in TaskRunReceipt
    BY <2>2, FinishType
  <2> HIDE DEF r
  <2>4. Record("save_finish", "cleanup", r,
               Step("save_finish", "failed") /\ UNCHANGED mem)
    BY <1>8 DEF SaveFinish, r
  <2>5. QED
    BY <2>1, <2>3, <2>4, RecordType DEF Step
<1>9. CASE Cleanup
  <2>1. faults' \in 0 .. MaxFaults
    BY <1>9, FaultType DEF Cleanup, TypeOK
  <2>2. QED
    BY <1>9, <2>1, NoMemType
    DEF Cleanup, Return, Step, TypeOK, PcOK, repo, history
<1>10. QED
  BY <1>1, <1>2, <1>3, <1>4, <1>5, <1>6, <1>7, <1>8, <1>9 DEF DuringCommit

LEMMA AfterFailureType ==
  ASSUME TypeInv, AfterFailure
  PROVE  TypeInv'
<1> USE DEF TypeInv
<1>1. CASE RecoverAfterFailure
  BY <1>1, PromoteType DEF RecoverAfterFailure, PromoteIntent, Step, TypeOK, PcOK
<1>2. CASE DropHarmlessIntent
  <2>1. faults' \in 0 .. MaxFaults
    BY <1>2, FaultType DEF DropHarmlessIntent, TypeOK
  <2>2. QED
    BY <1>2, <2>1, NoMemType
    DEF DropHarmlessIntent, Return, Step, TypeOK, PcOK, repo, history
<1>3. CASE FailureUnresolved
  BY <1>3, NoMemType
  DEF FailureUnresolved, Return, Step, TypeOK, PcOK, repo, files, history
<1>4. CASE ReloadLatest
  <2>1. receipt' \in TaskRunReceipt /\ receipt' # None
    BY <1>4, LoadHere DEF ReloadLatest, Step, PcOK
  <2>2. /\ mem' \in Memory /\ mem'.receipt # None
        /\ mem'.intent = mem.intent /\ mem'.commit = mem.commit
    BY <1>4, <2>1 DEF ReloadLatest, TypeOK, Memory
  <2>3. QED
    BY <1>4, <2>1, <2>2 DEF ReloadLatest, Step, TypeOK, PcOK, repo, history
<1>5. CASE PersistRecovered
  <2> DEFINE r == WithFinish(mem.receipt, mem.commit, mem.intent.committed_paths)
  <2>1. pc = "persist_recovered"
    BY <1>5 DEF PersistRecovered
  <2>2. /\ mem.receipt \in TaskRunReceipt /\ mem.commit \in Commit
        /\ mem.intent.committed_paths \in SUBSET Path
    BY <2>1 DEF PcOK, TypeOK, Memory, FinishIntentRecord
  <2>3. r \in TaskRunReceipt
    BY <2>2, FinishType
  <2> HIDE DEF r
  <2>4. Record("persist_recovered", "cleanup", r, Return("persist_recovered"))
    BY <1>5 DEF PersistRecovered, r
  <2>5. QED
    BY <2>1, <2>3, <2>4, RecordType DEF Return, Step
<1>6. CASE RecoveryRefused
  BY <1>6, NoMemType
  DEF RecoveryRefused, Return, Step, TypeOK, PcOK, repo, files, history
<1>7. CASE Crash
  BY <1>7, NoMemType, FaultType DEF Crash, TypeOK, PcOK, repo, files, history
<1>8. QED
  BY <1>1, <1>2, <1>3, <1>4, <1>5, <1>6, <1>7 DEF AfterFailure

\* The alternatives of Next, grouped as the proofs take them.
LEMMA NextCases ==
  Next => \/ finalize_execution_evidence \/ Accept \/ Reject \/ run_verification
               \/ PollReceipt
          \/ External \/ BeforeCommit \/ DuringCommit \/ AfterFailure
BY DEF Next, FinishStep, BeforeCommit, DuringCommit, AfterFailure

LEMMA TypeStep == TypeInv /\ [Next]_vars => TypeInv'
<1> SUFFICES ASSUME TypeInv, [Next]_vars PROVE TypeInv'
  OBVIOUS
<1>1. CASE Next
  BY <1>1, NextCases, WorkType, ExternalType, BeforeCommitType,
     DuringCommitType, AfterFailureType
<1>2. CASE UNCHANGED vars
  BY <1>2 DEF TypeInv, TypeOK, PcOK, vars, repo, files, call, history
<1>3. QED
  BY <1>1, <1>2

\* Every state of the repository, of the files and of the Finish call in flight has
\* its type: in particular no step of Finish unwraps a receipt, an intent, a
\* manifest or a commit that is not there (finish_recovery.rs, finish.rs).
THEOREM TypeCorrect == Spec => []TypeOK
<1>1. TypeInv => TypeOK
  BY DEF TypeInv
<1>2. QED
  BY <1>1, InitType, TypeStep, PTL DEF Spec

LEMMA TypeInvariant == Spec => []TypeInv
BY InitType, TypeStep, PTL DEF Spec

-----------------------------------------------------------------------------
(* The safety of Finish: the ledger stays valid, the evidence recorded is of a
   tree that was accepted and verified, and no second commit is made.  Then,
   that FinishRecovery implements FinishContract. *)


\* All but four commands and two steps only load the receipt, or less.
LEMMA StepKinds ==
  ASSUME TypeInv, Next
  PROVE  \/ finalize_execution_evidence \/ Accept \/ Reject \/ run_verification
         \/ SaveFinish \/ PersistRecovered
         \/ /\ receipt' \in {receipt, load_receipt(receipt, index)}
            /\ mem'.receipt \in {mem.receipt, None, receipt'}
            /\ UNCHANGED <<accepted, verified>>
<1> DEFINE Kind == /\ receipt' \in {receipt, load_receipt(receipt, index)}
                   /\ mem'.receipt \in {mem.receipt, None, receipt'}
                   /\ UNCHANGED <<accepted, verified>>
<1>1. mem \in Memory /\ NoMem.receipt = None
  BY DEF TypeInv, TypeOK, NoMem
<1>2. CASE PollReceipt \/ External
  BY <1>2
  DEF PollReceipt, External, ExternalEdit, ExternalStage, ExternalCommit,
      ExternalReset, call, files, history
<1>3. CASE BeforeCommit
  BY <1>1, <1>3
  DEF BeforeCommit, BeginFinish, FinishAlreadyRecorded, RetryOrPrepare,
      RecoverOnRetry, PromoteIntent, BlockedByIntent, PrepareIntent,
      BlockedBeforeCommit, Return, call, files, history, NoMem, Memory
<1>4. CASE ReadManifest
  BY <1>1, <1>4 DEF ReadManifest, history, Memory
<1>5. CASE ManifestBlocks \/ ReloadReceipt
  BY <1>1, <1>5 DEF ManifestBlocks, ReloadReceipt, history, Memory
<1>6. CASE GitCommit \/ HookMutatesCommit \/ GitCommitFails
             \/ CheckCommittedTree \/ Cleanup
  BY <1>1, <1>6
  DEF GitCommit, HookMutatesCommit, CommitTree, GitCommitFails,
      CheckCommittedTree, Cleanup, Return, files, history, Memory
<1>7. CASE AfterFailure /\ ~ PersistRecovered
  BY <1>1, <1>7
  DEF AfterFailure, RecoverAfterFailure, PromoteIntent, DropHarmlessIntent,
      FailureUnresolved, ReloadLatest, RecoveryRefused, Crash, Return, files,
      history, Memory
<1>8. QED
  BY <1>2, <1>3, <1>4, <1>5, <1>6, <1>7, NextCases DEF DuringCommit

\* Where the receipts that a step leaves come from.
LEMMA LoadedIs ==
  ASSUME TypeInv
  PROVE  receipt # None =>
           /\ receipt \in TaskRunReceipt
           /\ load_receipt(receipt, index) \in TaskRunReceipt
           /\ \/ load_receipt(receipt, index) = receipt
              \/ /\ load_receipt(receipt, index).review = None
                 /\ load_receipt(receipt, index).verification = None
                 /\ load_receipt(receipt, index).finish = None
<1>1. receipt # None => receipt \in TaskRunReceipt
  BY DEF TypeInv, TypeOK
<1>2. QED
  BY <1>1, LoadEffect

LEMMA MemReceiptType ==
  TypeInv /\ mem.receipt # None => mem.receipt \in TaskRunReceipt
BY DEF TypeInv, TypeOK, Memory

\* What SaveFinish and PersistRecovered write.
LEMMA SaveFinishWrites ==
  ASSUME TypeInv, SaveFinish
  PROVE  /\ pc = "save_finish"
         /\ mem.receipt \in TaskRunReceipt
         /\ mem.commit \in Commit /\ mem.manifest.staged_paths \in SUBSET Path
         /\ receipt' \in {WithFinish(mem.receipt, mem.commit,
                                     mem.manifest.staged_paths),
                          load_receipt(receipt, index)}
         /\ mem' = mem
         /\ UNCHANGED <<repo, intent, accepted, verified>>
BY DEF SaveFinish, Record, Step, TypeInv, TypeOK, PcOK, Memory, Manifest

LEMMA PersistRecoveredWrites ==
  ASSUME TypeInv, PersistRecovered
  PROVE  /\ pc = "persist_recovered"
         /\ mem.receipt \in TaskRunReceipt
         /\ mem.commit \in Commit /\ mem.intent.committed_paths \in SUBSET Path
         /\ receipt' \in {WithFinish(mem.receipt, mem.commit,
                                     mem.intent.committed_paths),
                          load_receipt(receipt, index)}
         /\ mem' \in {mem, NoMem}
         /\ UNCHANGED <<repo, intent, accepted, verified>>
BY DEF PersistRecovered, Record, Return, Step, TypeInv, TypeOK, PcOK, Memory,
       FinishIntentRecord

----------------------------------------------------------------------------
\* The ledger obeys validate_receipt

LedgerInv ==
  /\ ReceiptValid
  /\ mem.receipt # None => validate_receipt(mem.receipt)

LEMMA LedgerStep == TypeInv /\ LedgerInv /\ [Next]_vars => LedgerInv'
<1> SUFFICES ASSUME TypeInv, LedgerInv, [Next]_vars PROVE LedgerInv'
  OBVIOUS
<1> DEFINE loaded == load_receipt(receipt, index)
<1>1. receipt # None => validate_receipt(receipt)
  BY DEF LedgerInv, ReceiptValid
<1>2. receipt # None => validate_receipt(loaded)
  BY <1>1, LoadedIs, LoadKeepsValid
<1>3. loaded = None <=> receipt = None
  BY LoadHere
<1> HIDE DEF loaded
<1>4. CASE finalize_execution_evidence
  BY <1>4
  DEF finalize_execution_evidence, FreshReceipt, validate_receipt, LedgerInv,
      ReceiptValid, call
<1>5. CASE Accept
  <2>1. receipt \in TaskRunReceipt /\ receipt.changeset_digest \in SUBSET Path
    BY <1>5 DEF Accept, TypeInv, TypeOK, TaskRunReceipt, Digest
  <2>2. index' \in Tree
    BY <1>5, WorkType DEF TypeInv, TypeOK
  <2>3. validate_receipt(receipt')
    BY <1>5, <2>1, <2>2, ReviewKeepsValid DEF Accept
  <2>4. QED
    BY <1>5, <2>3 DEF Accept, LedgerInv, ReceiptValid, call
<1>6. CASE Reject
  <2>1. receipt \in TaskRunReceipt /\ receipt.changeset_digest \in SUBSET Path
    BY <1>6 DEF Reject, TypeInv, TypeOK, TaskRunReceipt, Digest
  <2>2. index \in Tree
    BY DEF TypeInv, TypeOK
  <2>3. validate_receipt(receipt')
    BY <1>6, <2>1, <2>2, ReviewKeepsValid DEF Reject
  <2>4. QED
    BY <1>6, <2>3 DEF Reject, LedgerInv, ReceiptValid, call
<1>7. CASE run_verification
  <2>1. PICK success \in BOOLEAN :
          receipt' = WithVerification(loaded, head, index, success)
    BY <1>7 DEF run_verification, loaded
  <2>2. loaded \in TaskRunReceipt /\ reviewed_tree_ok(loaded, index)
    BY <1>7, LoadedIs DEF run_verification, loaded
  <2>3. head \in Commit /\ index \in Tree /\ validate_receipt(loaded)
    BY <1>2, <1>7 DEF run_verification, TypeInv, TypeOK
  <2>4. validate_receipt(receipt')
    BY <2>1, <2>2, <2>3, VerificationKeepsValid
  <2>5. QED
    BY <1>7, <2>4 DEF run_verification, LedgerInv, ReceiptValid, call
<1>8. CASE SaveFinish \/ PersistRecovered
  <2>1. /\ mem.receipt \in TaskRunReceipt
        /\ mem' \in {mem, NoMem}
        /\ \/ receipt' = loaded
           \/ \E paths \in SUBSET Path :
                mem.commit \in Commit
                /\ receipt' = WithFinish(mem.receipt, mem.commit, paths)
    BY <1>8, SaveFinishWrites, PersistRecoveredWrites DEF loaded
  <2>2. mem.receipt # None /\ validate_receipt(mem.receipt)
    BY <2>1, NoneAssumption DEF LedgerInv
  <2>3. receipt' # None => validate_receipt(receipt')
    BY <1>2, <1>3, <2>1, <2>2, FinishKeepsValid
  <2>4. mem'.receipt \in {mem.receipt, None}
    BY <2>1 DEF NoMem
  <2>5. QED
    BY <2>2, <2>3, <2>4 DEF LedgerInv, ReceiptValid
<1>9. CASE /\ receipt' \in {receipt, loaded}
           /\ mem'.receipt \in {mem.receipt, None, receipt'}
  BY <1>1, <1>2, <1>3, <1>9 DEF LedgerInv, ReceiptValid
<1>10. CASE UNCHANGED vars
  BY <1>10 DEF LedgerInv, ReceiptValid, vars, files, call
<1>11. QED
  BY <1>4, <1>5, <1>6, <1>7, <1>8, <1>9, <1>10, StepKinds DEF loaded

\* No interleaving of the Work commands with a Finish, its crashes and its retries
\* makes RepoDesk write a receipt that a later load refuses (receipt.rs:
\* validate_receipt).
THEOREM ReceiptStaysValid == Spec => []ReceiptValid
<1>1. Init => LedgerInv
  BY DEF Init, LedgerInv, ReceiptValid, NoMem
<1>2. LedgerInv => ReceiptValid
  BY DEF LedgerInv
<1>3. QED
  BY <1>1, <1>2, LedgerStep, TypeInvariant, PTL DEF Spec

----------------------------------------------------------------------------
\* Recorded evidence is of a tree that was accepted and verified

\* What a receipt claims is backed by what happened: objs, acc and ver stand for
\* objects, accepted and verified.
BackedBy(r, objs, acc, ver) ==
  /\ AcceptedReview(r) =>
       <<r.review.run_id, r.review.index_tree_after_accept>> \in acc
  /\ r.verification # None /\ r.verification.success =>
       <<r.verification.run_id, r.verification.index_tree_sha>> \in ver
  /\ r.finish # None =>
       /\ objs[r.finish.commit_sha] # None
       /\ <<r.finish.run_id, objs[r.finish.commit_sha].tree>> \in acc \cap ver

\* The receipts in the file and in memory are backed, so is the manifest, and the
\* commit about to be recorded is the one the manifest authorised.
EvidenceInv ==
  /\ receipt # None => BackedBy(receipt, objects, accepted, verified)
  /\ mem.receipt # None => BackedBy(mem.receipt, objects, accepted, verified)
  /\ mem.manifest # None =>
       <<mem.manifest.run_id, mem.manifest.reviewed_tree_sha>>
         \in accepted \cap verified
  /\ pc \in {"git_commit", "check_tree", "save_finish"} =>
       mem.receipt.run_id = mem.manifest.run_id
  /\ pc = "save_finish" =>
       /\ objects[mem.commit] # None
       /\ objects[mem.commit].tree = mem.manifest.reviewed_tree_sha

\* Commit objects are immutable.
LEMMA ObjectsGrow ==
  ASSUME TypeInv, [Next]_vars
  PROVE  \A c \in Commit : objects[c] # None => objects'[c] = objects[c]
<1>1. CASE ExternalCommit
  BY <1>1 DEF ExternalCommit, TypeInv, TypeOK
<1>2. CASE \E tree \in Tree : CommitTree(tree)
  BY <1>2 DEF CommitTree, TypeInv, TypeOK
<1>3. CASE UNCHANGED objects
  BY <1>3
<1>4. UNCHANGED vars => UNCHANGED objects
  BY DEF vars, repo
<1>5. External => ExternalCommit \/ UNCHANGED objects
  BY DEF External, ExternalEdit, ExternalStage, ExternalReset
<1>6. GitCommit \/ HookMutatesCommit => \E tree \in Tree : CommitTree(tree)
  BY DEF GitCommit, HookMutatesCommit, TypeInv, TypeOK
<1>7. finalize_execution_evidence \/ Accept \/ Reject \/ run_verification
        \/ PollReceipt => UNCHANGED objects
  BY DEF finalize_execution_evidence, Accept, Reject, run_verification,
         PollReceipt, repo
<1>8. BeforeCommit => UNCHANGED objects
  BY DEF BeforeCommit, BeginFinish, FinishAlreadyRecorded, RetryOrPrepare,
         RecoverOnRetry, PromoteIntent, BlockedByIntent, PrepareIntent,
         BlockedBeforeCommit, repo
<1>9. DuringCommit => GitCommit \/ HookMutatesCommit \/ UNCHANGED objects
  BY DEF DuringCommit, ReadManifest, ManifestBlocks, ReloadReceipt,
         GitCommitFails, CheckCommittedTree, SaveFinish, Record, Cleanup, repo
<1>10. AfterFailure => UNCHANGED objects
  BY DEF AfterFailure, RecoverAfterFailure, PromoteIntent, DropHarmlessIntent,
         FailureUnresolved, ReloadLatest, PersistRecovered, Record,
         RecoveryRefused, Crash, repo
<1>11. QED
  BY <1>1, <1>2, <1>3, <1>4, <1>5, <1>6, <1>7, <1>8, <1>9, <1>10, NextCases

\* Acceptances and verifications are only added.
LEMMA HistoryGrows ==
  ASSUME TypeInv, [Next]_vars
  PROVE  accepted \subseteq accepted' /\ verified \subseteq verified'
<1>1. UNCHANGED vars => UNCHANGED <<accepted, verified>>
  BY DEF vars, history
<1>2. finalize_execution_evidence \/ Reject => UNCHANGED <<accepted, verified>>
  BY DEF finalize_execution_evidence, Reject, history
<1>3. Accept => accepted \subseteq accepted' /\ verified' = verified
  BY DEF Accept
<1>4. run_verification => accepted' = accepted /\ verified \subseteq verified'
  BY DEF run_verification
<1>5. SaveFinish \/ PersistRecovered => UNCHANGED <<accepted, verified>>
  BY DEF SaveFinish, PersistRecovered, Record
<1>6. QED
  BY <1>1, <1>2, <1>3, <1>4, <1>5, StepKinds

LEMMA BackedGrows ==
  ASSUME NEW r \in TaskRunReceipt, NEW objs, NEW objs2, NEW acc, NEW acc2,
         NEW ver, NEW ver2,
         BackedBy(r, objs, acc, ver),
         acc \subseteq acc2, ver \subseteq ver2,
         \A c \in Commit : objs[c] # None => objs2[c] = objs[c]
  PROVE  BackedBy(r, objs2, acc2, ver2)
<1>1. r.finish # None => r.finish.commit_sha \in Commit
  BY DEF TaskRunReceipt, Finish
<1>2. QED
  BY <1>1 DEF BackedBy

LEMMA LoadKeepsBacked ==
  ASSUME NEW r \in TaskRunReceipt, NEW tree, NEW objs, NEW acc, NEW ver,
         BackedBy(r, objs, acc, ver)
  PROVE  BackedBy(load_receipt(r, tree), objs, acc, ver)
<1>1. CASE load_receipt(r, tree) = r
  BY <1>1
<1>2. CASE load_receipt(r, tree) # r
  BY <1>2, LoadEffect DEF BackedBy, AcceptedReview
<1>3. QED
  BY <1>1, <1>2

\* The receipts, whatever step is taken.
LEMMA ReceiptsBacked ==
  ASSUME TypeInv, EvidenceInv, [Next]_vars
  PROVE  /\ receipt' # None => BackedBy(receipt', objects', accepted', verified')
         /\ mem'.receipt # None =>
              BackedBy(mem'.receipt, objects', accepted', verified')
<1> DEFINE loaded == load_receipt(receipt, index)
           Grown(r) == BackedBy(r, objects', accepted', verified')
<1>1. /\ \A c \in Commit : objects[c] # None => objects'[c] = objects[c]
      /\ accepted \subseteq accepted' /\ verified \subseteq verified'
  BY ObjectsGrow, HistoryGrows
<1>2. receipt # None => Grown(receipt)
  BY <1>1, LoadedIs, BackedGrows DEF EvidenceInv
<1>3. loaded = None <=> receipt = None
  BY LoadHere
<1>4. receipt # None => Grown(loaded)
  BY <1>2, LoadedIs, LoadKeepsBacked
<1>5. mem.receipt # None => Grown(mem.receipt)
  BY <1>1, MemReceiptType, BackedGrows DEF EvidenceInv
<1> HIDE DEF loaded
<1>6. CASE finalize_execution_evidence
  <2>1. Grown(receipt')
    BY <1>6 DEF finalize_execution_evidence, FreshReceipt, BackedBy, AcceptedReview
  <2>2. QED
    BY <1>5, <1>6, <2>1 DEF finalize_execution_evidence, call
<1>7. CASE Accept
  <2>1. receipt \in TaskRunReceipt /\ receipt.changeset_digest \in SUBSET Path
    BY <1>7 DEF Accept, TypeInv, TypeOK, TaskRunReceipt, Digest
  <2>2. index' \in Tree
    BY <1>7, WorkType DEF TypeInv, TypeOK
  <2>3. /\ receipt'.review.run_id = receipt.run_id
        /\ receipt'.review.index_tree_after_accept = index'
        /\ receipt'.verification = None /\ receipt'.finish = None
    BY <1>7, <2>1, <2>2, ReviewType DEF Accept
  <2>4. <<receipt.run_id, index'>> \in accepted'
    BY <1>7 DEF Accept
  <2>5. Grown(receipt')
    BY <2>3, <2>4 DEF BackedBy
  <2>6. QED
    BY <1>5, <1>7, <2>5 DEF Accept, call
<1>8. CASE Reject
  <2>1. receipt \in TaskRunReceipt /\ receipt.changeset_digest \in SUBSET Path
    BY <1>8 DEF Reject, TypeInv, TypeOK, TaskRunReceipt, Digest
  <2>2. index \in Tree
    BY DEF TypeInv, TypeOK
  <2>3. /\ receipt'.review.decision = "rejected"
        /\ receipt'.verification = None /\ receipt'.finish = None
    BY <1>8, <2>1, <2>2, ReviewType DEF Reject
  <2>4. Grown(receipt')
    BY <2>3 DEF BackedBy, AcceptedReview
  <2>5. QED
    BY <1>5, <1>8, <2>4 DEF Reject, call
<1>9. CASE run_verification
  <2>1. PICK success \in BOOLEAN :
          /\ receipt' = WithVerification(loaded, head, index, success)
          /\ verified' = IF success
                         THEN verified \cup {<<loaded.run_id, index>>}
                         ELSE verified
    BY <1>9 DEF run_verification, loaded
  <2>2. loaded \in TaskRunReceipt /\ head \in Commit /\ index \in Tree
    BY <1>9, LoadedIs DEF run_verification, loaded, TypeInv, TypeOK
  <2>3. /\ receipt'.review = loaded.review /\ receipt'.finish = None
        /\ receipt'.verification.run_id = loaded.run_id
        /\ receipt'.verification.index_tree_sha = index
        /\ receipt'.verification.success = success
    BY <2>1, <2>2, VerificationType
  <2>4. Grown(loaded)
    BY <1>4, <1>9 DEF run_verification
  <2>5. Grown(receipt')
    BY <2>1, <2>3, <2>4 DEF BackedBy, AcceptedReview
  <2>6. QED
    BY <1>5, <1>9, <2>5 DEF run_verification, call
<1>10. CASE SaveFinish
  <2> DEFINE r == WithFinish(mem.receipt, mem.commit, mem.manifest.staged_paths)
  <2>1. /\ r.review = mem.receipt.review
        /\ r.verification = mem.receipt.verification
        /\ r.finish.run_id = mem.receipt.run_id
        /\ r.finish.commit_sha = mem.commit
    BY <1>10, SaveFinishWrites, FinishType
  <2>2. Grown(mem.receipt)
    BY <1>5, <1>10, SaveFinishWrites, NoneAssumption
  <2>3. /\ objects[mem.commit] # None
        /\ <<mem.receipt.run_id, objects[mem.commit].tree>>
             \in accepted \cap verified
    BY <1>10, SaveFinishWrites DEF EvidenceInv, TypeInv, PcOK
  <2>4. objects' = objects /\ accepted' = accepted /\ verified' = verified
    BY <1>10, SaveFinishWrites DEF repo
  <2> HIDE DEF r
  <2>5. Grown(r)
    BY <2>1, <2>2, <2>3, <2>4 DEF BackedBy, AcceptedReview
  <2>6. receipt' \in {r, loaded} /\ mem' = mem
    BY <1>10, SaveFinishWrites DEF r, loaded
  <2>7. QED
    BY <1>3, <1>4, <1>5, <2>5, <2>6
<1>11. CASE PersistRecovered
  <2> DEFINE r == WithFinish(mem.receipt, mem.commit, mem.intent.committed_paths)
  <2>1. /\ r.review = mem.receipt.review
        /\ r.verification = mem.receipt.verification
        /\ r.finish.run_id = mem.receipt.run_id
        /\ r.finish.commit_sha = mem.commit
    BY <1>11, PersistRecoveredWrites, FinishType
  <2>2. mem.receipt # None
    BY <1>11, PersistRecoveredWrites, NoneAssumption
  <2>3. /\ IntentMatches(mem.intent, mem.receipt)
        /\ RecoveryCandidate(mem.intent, mem.commit)
    BY <1>11 DEF PersistRecovered
  <2>4. /\ objects[mem.commit] # None
        /\ objects[mem.commit].tree = mem.intent.reviewed_tree_sha
    BY <2>3 DEF RecoveryCandidate
  <2>5. <<mem.receipt.run_id, mem.intent.reviewed_tree_sha>>
          \in accepted \cap verified
    BY <2>2, <2>3
    DEF IntentMatches, BoundReview, valid_for, EvidenceInv, BackedBy
  <2>6. objects' = objects /\ accepted' = accepted /\ verified' = verified
    BY <1>11, PersistRecoveredWrites DEF repo
  <2> HIDE DEF r
  <2>7. Grown(r)
    BY <1>5, <2>1, <2>2, <2>4, <2>5, <2>6 DEF BackedBy, AcceptedReview
  <2>8. receipt' \in {r, loaded} /\ mem'.receipt \in {mem.receipt, None}
    BY <1>11, PersistRecoveredWrites DEF r, loaded, NoMem
  <2>9. QED
    BY <1>3, <1>4, <1>5, <2>7, <2>8
<1>12. CASE /\ receipt' \in {receipt, loaded}
            /\ mem'.receipt \in {mem.receipt, None, receipt'}
  BY <1>2, <1>3, <1>4, <1>5, <1>12
<1>13. CASE UNCHANGED vars
  BY <1>2, <1>5, <1>13 DEF vars, files, call
<1>14. QED
  BY <1>6, <1>7, <1>8, <1>9, <1>10, <1>11, <1>12, <1>13, StepKinds DEF loaded

ManifestAuthorised ==
  mem.manifest # None =>
    <<mem.manifest.run_id, mem.manifest.reviewed_tree_sha>>
      \in accepted \cap verified

CommitAuthorised ==
  /\ pc \in {"git_commit", "check_tree", "save_finish"} =>
       mem.receipt.run_id = mem.manifest.run_id
  /\ pc = "save_finish" =>
       /\ objects[mem.commit] # None
       /\ objects[mem.commit].tree = mem.manifest.reviewed_tree_sha

\* The manifest and the commit, whatever step is taken.
LEMMA CommitStaysAuthorised ==
  ASSUME TypeInv, EvidenceInv, [Next]_vars
  PROVE  ManifestAuthorised' /\ CommitAuthorised'
<1>1. /\ accepted \subseteq accepted' /\ verified \subseteq verified'
      /\ \A c \in Commit : objects[c] # None => objects'[c] = objects[c]
  BY HistoryGrows, ObjectsGrow
<1>2. mem \in Memory /\ NoMem.manifest = None
  BY DEF TypeInv, TypeOK, NoMem
<1>3. CASE UNCHANGED call
  <2>1. pc = "save_finish" => mem.commit \in Commit
    BY DEF TypeInv, TypeOK, PcOK, Memory
  <2>2. QED
    BY <1>1, <1>3, <2>1 DEF call, EvidenceInv, ManifestAuthorised, CommitAuthorised
<1>4. CASE /\ mem'.manifest \in {mem.manifest, None}
           /\ pc' \notin {"git_commit", "check_tree", "save_finish"}
  BY <1>1, <1>4 DEF EvidenceInv, ManifestAuthorised, CommitAuthorised
<1>5. CASE ReadManifest
  <2>1. /\ manifest_ready(receipt', head, index, StagedPaths)
        /\ BackedBy(receipt', objects', accepted', verified')
    BY <1>5, ReceiptsBacked DEF ReadManifest, ManifestReady, manifest_ready
  <2>2. <<receipt'.run_id, receipt'.review.index_tree_after_accept>>
          \in accepted' \cap verified'
    BY <2>1 DEF manifest_ready, BoundReview, valid_for, BackedBy
  <2>3. /\ mem'.manifest.run_id = receipt'.run_id
        /\ mem'.manifest.reviewed_tree_sha
             = receipt'.review.index_tree_after_accept
        /\ pc' = "reload"
    BY <1>2, <1>5 DEF ReadManifest, Step, Memory
  <2>4. QED
    BY <2>2, <2>3 DEF ManifestAuthorised, CommitAuthorised
<1>6. CASE ReloadReceipt
  <2>1. /\ mem'.manifest = mem.manifest
        /\ pc' \in {"git_commit", "failed"}
        /\ pc' = "git_commit" => mem'.receipt.run_id = mem'.manifest.run_id
    BY <1>2, <1>6 DEF ReloadReceipt, Memory
  <2>2. QED
    BY <1>1, <2>1 DEF EvidenceInv, ManifestAuthorised, CommitAuthorised
<1>7. CASE GitCommit \/ HookMutatesCommit
  BY <1>1, <1>7
  DEF GitCommit, HookMutatesCommit, CommitTree, Step, EvidenceInv,
      ManifestAuthorised, CommitAuthorised
<1>8. CASE CheckCommittedTree
  <2>1. CASE pc' = "failed"
    BY <1>1, <1>2, <1>8, <2>1
    DEF CheckCommittedTree, EvidenceInv, ManifestAuthorised, CommitAuthorised
  <2>2. CASE pc' # "failed"
    <3>1. /\ mem'.manifest = mem.manifest /\ mem'.receipt = mem.receipt
          /\ mem'.commit = head
          /\ pc = "check_tree" /\ pc' = "save_finish"
          /\ objects[head].tree = mem.manifest.reviewed_tree_sha
          /\ objects' = objects
      BY <1>2, <1>8, <2>2 DEF CheckCommittedTree, Memory, repo
    <3>2. objects[head] # None
      BY DEF TypeInv
    <3>3. QED
      BY <1>1, <3>1, <3>2 DEF EvidenceInv, ManifestAuthorised, CommitAuthorised
  <2>3. QED
    BY <2>1, <2>2
<1>9. UNCHANGED vars \/ External \/ finalize_execution_evidence \/ Accept
        \/ Reject \/ run_verification \/ PollReceipt => UNCHANGED call
  BY DEF vars, External, ExternalEdit, finalize_execution_evidence, Accept,
         Reject, run_verification, PollReceipt
<1>10. BeforeCommit /\ ~ UNCHANGED call =>
         /\ mem'.manifest \in {mem.manifest, None}
         /\ pc' \notin {"git_commit", "check_tree", "save_finish"}
  BY <1>2
  DEF BeforeCommit, BeginFinish, FinishAlreadyRecorded, RetryOrPrepare,
      RecoverOnRetry, PromoteIntent, BlockedByIntent, PrepareIntent,
      BlockedBeforeCommit, Return, Step, Memory, NoMem
<1>11. ManifestBlocks \/ GitCommitFails \/ SaveFinish \/ Cleanup =>
         /\ mem'.manifest \in {mem.manifest, None}
         /\ pc' \notin {"git_commit", "check_tree", "save_finish"}
  BY <1>2
  DEF ManifestBlocks, GitCommitFails, SaveFinish, Record, Cleanup, Return, Step
<1>12. AfterFailure =>
         /\ mem'.manifest \in {mem.manifest, None}
         /\ pc' \notin {"git_commit", "check_tree", "save_finish"}
  BY <1>2
  DEF AfterFailure, RecoverAfterFailure, PromoteIntent, DropHarmlessIntent,
      FailureUnresolved, ReloadLatest, PersistRecovered, Record,
      RecoveryRefused, Crash, Return, Step, Memory
<1>13. QED
  BY <1>3, <1>4, <1>5, <1>6, <1>7, <1>8, <1>9, <1>10, <1>11, <1>12, NextCases
  DEF DuringCommit

LEMMA EvidenceStep == TypeInv /\ EvidenceInv /\ [Next]_vars => EvidenceInv'
BY ReceiptsBacked, CommitStaysAuthorised
DEF EvidenceInv, ManifestAuthorised, CommitAuthorised

LEMMA EvidenceInvariant == Spec => []EvidenceInv
<1>1. Init => EvidenceInv
  BY DEF Init, EvidenceInv, NoMem
<1>2. QED
  BY <1>1, EvidenceStep, TypeInvariant, PTL DEF Spec

\* Whatever crashes, is edited or runs beside a Finish, the commit that recorded
\* finish evidence names holds the tree a human accepted, and a verification
\* passed on, for that run (finish.rs: the manifest and the tree check;
\* finish_recovery.rs: validate_recovery_candidate).
THEOREM EvidenceIsOfReviewedTree == Spec => []FinishTreeReviewed
<1>1. TypeInv /\ EvidenceInv => FinishTreeReviewed
  BY DEF EvidenceInv, BackedBy, FinishTreeReviewed
<1>2. QED
  BY <1>1, EvidenceInvariant, TypeInvariant, PTL

----------------------------------------------------------------------------
\* No second commit, and none without a durable intent

\* A commit that waits to be recorded is at HEAD, under an intent that says it was
\* made: so nothing that looks at the intent can take the attempt for harmless.
CommitAwaited ==
  unrecorded # None =>
    /\ receipt # None /\ receipt.finish = None
    /\ head = unrecorded /\ intent # None
    /\ intent.commit_sha # None \/ intent.parent_head_sha # unrecorded

\* On the way to a commit none waits, and the intent stands for this attempt.
CommitPrepared ==
  /\ pc \in {"prepare", "manifest", "reload", "git_commit", "cleanup"} =>
       unrecorded = None
  /\ pc = "prepare" => mem.intent = intent
  /\ pc \in {"manifest", "reload", "git_commit"} =>
       intent # None /\ intent.commit_sha = None
  /\ pc \in {"reload", "git_commit"} => receipt.finish = None

PendingInv ==
  /\ intent # None => objects[intent.parent_head_sha] # None
  /\ CommitAwaited /\ CommitPrepared

\* An attempt under which nothing was committed leaves no commit waiting.
LEMMA HarmlessIntent ==
  ASSUME CommitAwaited, intent # None => NothingCommitted(intent)
  PROVE  unrecorded = None
BY DEF CommitAwaited, NothingCommitted

\* A load does not bring back finish evidence.
LEMMA LoadBringsNoFinish ==
  ASSUME TypeInv, receipt # None, receipt.finish = None
  PROVE  /\ load_receipt(receipt, index) # None
         /\ load_receipt(receipt, index).finish = None
BY LoadedIs, LoadHere

LEMMA WorkPending ==
  ASSUME TypeInv, PendingInv,
         finalize_execution_evidence \/ Accept \/ Reject \/ run_verification
           \/ PollReceipt
  PROVE  PendingInv'
<1>1. /\ UNCHANGED <<objects, head, intent, call, unrecorded>>
  BY DEF finalize_execution_evidence, Accept, Reject, run_verification,
         PollReceipt, repo, history
<1>2. receipt' # None /\ (receipt'.finish = None \/ receipt'.finish = receipt.finish)
  <2>1. CASE finalize_execution_evidence
    <3>1. receipt' # None
      BY <2>1, WorkType, FinishAssumption, NoneAssumption
      DEF finalize_execution_evidence, FreshReceipt, TaskRunReceipt
    <3>2. QED
      BY <2>1, <3>1 DEF finalize_execution_evidence, FreshReceipt
  <2>2. CASE Accept
    <3>1. receipt \in TaskRunReceipt /\ receipt.changeset_digest \in SUBSET Path
      BY <2>2 DEF Accept, TypeInv, TypeOK, TaskRunReceipt, Digest
    <3>2. index' \in Tree
      BY <2>2, WorkType DEF TypeInv, TypeOK
    <3>3. QED
      BY <2>2, <3>1, <3>2, ReviewType, NoneAssumption DEF Accept
  <2>3. CASE Reject
    <3>1. receipt \in TaskRunReceipt /\ receipt.changeset_digest \in SUBSET Path
      BY <2>3 DEF Reject, TypeInv, TypeOK, TaskRunReceipt, Digest
    <3>2. index \in Tree
      BY DEF TypeInv, TypeOK
    <3>3. QED
      BY <2>3, <3>1, <3>2, ReviewType, NoneAssumption DEF Reject
  <2>4. CASE run_verification
    <3>1. /\ load_receipt(receipt, index) \in TaskRunReceipt
          /\ head \in Commit /\ index \in Tree
      BY <2>4, LoadedIs DEF run_verification, TypeInv, TypeOK
    <3>2. QED
      BY <2>4, <3>1, VerificationType, NoneAssumption DEF run_verification
  <2>5. CASE PollReceipt
    BY <2>5, LoadedIs, LoadHere DEF PollReceipt
  <2>6. QED
    BY <2>1, <2>2, <2>3, <2>4, <2>5
<1>3. QED
  BY <1>1, <1>2 DEF PendingInv, CommitAwaited, CommitPrepared, call

LEMMA ExternalPending ==
  ASSUME TypeInv, PendingInv, External
  PROVE  PendingInv'
<1>1. UNCHANGED <<receipt, intent, call>>
  BY DEF External, ExternalEdit, files
<1>2. intent # None => intent.parent_head_sha \in Commit
  BY DEF TypeInv, TypeOK, FinishIntentRecord
<1>3. intent' # None => objects'[intent'.parent_head_sha] # None
  BY <1>1, <1>2, ObjectsGrow DEF PendingInv, Next
<1>4. unrecorded' = None \/ UNCHANGED <<head, unrecorded>>
  BY DEF External, ExternalEdit, ExternalStage, ExternalCommit, ExternalReset
<1>5. QED
  BY <1>1, <1>3, <1>4 DEF PendingInv, CommitAwaited, CommitPrepared, call

LEMMA PromotePending ==
  ASSUME TypeInv, PendingInv, intent # None, NEW from, NEW to,
         PromoteIntent(from, to, intent),
         to \in {"persist_recovered", "reload_latest"}
  PROVE  PendingInv'
<1>1. CandidateOf(intent) \in Commit
  BY DEF CandidateOf, FinishIntentRecord, TypeInv, TypeOK
<1>2. CandidateOf(intent) # None
  BY <1>1, NoneAssumption
<1>3. intent \in FinishIntentRecord
  BY DEF TypeInv, TypeOK
<1>4. /\ intent'.parent_head_sha = intent.parent_head_sha
      /\ intent'.commit_sha # None
      /\ intent' \in FinishIntentRecord
  BY <1>1, <1>2, <1>3 DEF PromoteIntent, FinishIntentRecord
<1>5. intent' # None
  BY <1>4, FinishNoneAssumption
<1>6. QED
  BY <1>4, <1>5
  DEF PromoteIntent, Step, PendingInv, CommitAwaited, CommitPrepared, repo, history

LEMMA BeforeCommitPending ==
  ASSUME TypeInv, PendingInv, BeforeCommit
  PROVE  PendingInv'
<1> USE DEF PendingInv
<1>1. CASE BeginFinish
  BY <1>1, LoadBringsNoFinish
  DEF BeginFinish, Step, CommitAwaited, CommitPrepared, repo, history
<1>2. CASE FinishAlreadyRecorded
  BY <1>2
  DEF FinishAlreadyRecorded, CommitAwaited, CommitPrepared, repo, call, history,
      Idle
<1>3. CASE RetryOrPrepare
  <2>1. unrecorded = None
    BY <1>3, HarmlessIntent DEF RetryOrPrepare
  <2>2. mem'.intent = intent
    BY <1>3 DEF RetryOrPrepare, TypeInv, TypeOK, Memory
  <2>3. QED
    BY <1>3, <2>1, <2>2
    DEF RetryOrPrepare, Step, CommitAwaited, CommitPrepared, repo, files, history
<1>4. CASE RecoverOnRetry
  BY <1>4, PromotePending DEF RecoverOnRetry
<1>5. CASE BlockedByIntent
  BY <1>5
  DEF BlockedByIntent, Return, Step, CommitAwaited, CommitPrepared, repo, files,
      history
<1>6. CASE PrepareIntent
  <2>1. unrecorded = None /\ unrecorded' = None
    BY <1>6 DEF PrepareIntent, CommitPrepared, history
  <2>2. intent' = PreparedIntent(mem.receipt)
    BY <1>6 DEF PrepareIntent, CommitPrepared
  <2>3. intent' \in FinishIntentRecord \cup {None}
    BY <1>6, BeforeCommitType DEF BeforeCommit, TypeInv, TypeOK
  <2>4. /\ intent'.parent_head_sha = head /\ intent'.commit_sha = None
    BY <2>2 DEF PreparedIntent
  <2>5. intent' # None
    BY <1>6, <2>2, PreparedIsIntent DEF PrepareIntent
  <2>6. objects'[head] # None
    BY <1>6 DEF PrepareIntent, TypeInv, repo
  <2>7. pc' \in {"manifest", "idle"}
    BY <1>6 DEF PrepareIntent, Return, Step
  <2>8. QED
    BY <2>1, <2>4, <2>5, <2>6, <2>7 DEF CommitAwaited, CommitPrepared
<1>7. CASE BlockedBeforeCommit
  BY <1>7
  DEF BlockedBeforeCommit, Return, Step, CommitAwaited, CommitPrepared, repo,
      files, history
<1>8. QED
  BY <1>1, <1>2, <1>3, <1>4, <1>5, <1>6, <1>7 DEF BeforeCommit

\* A commit made now waits to be recorded, and is not the parent of its intent.
LEMMA CommitTreePending ==
  ASSUME TypeInv, PendingInv, NEW tree \in Tree, CommitTree(tree)
  PROVE  PendingInv'
<1>1. PICK c \in Commit :
        /\ objects[c] = None
        /\ objects' = [objects EXCEPT ![c] = [tree |-> tree, parents |-> {head}]]
        /\ head' = c
        /\ unrecorded' = c
  BY DEF CommitTree
<1>2. /\ pc = "git_commit" /\ pc' = "check_tree"
      /\ UNCHANGED <<receipt, intent>>
  BY DEF CommitTree, Step, files
<1>3. /\ intent # None /\ intent.parent_head_sha # c
      /\ receipt # None /\ receipt.finish = None
  BY <1>1, <1>2 DEF PendingInv, CommitPrepared, TypeInv, PcOK
<1>4. objects'[intent.parent_head_sha] # None
  BY <1>1, <1>3 DEF PendingInv, TypeInv, TypeOK, FinishIntentRecord
<1>5. QED
  BY <1>1, <1>2, <1>3, <1>4 DEF PendingInv, CommitAwaited, CommitPrepared

\* Recording ends the wait; a write that changed nothing leaves it.
LEMMA RecordPending ==
  ASSUME TypeInv, PendingInv, NEW from, NEW r, NEW ACTION failed,
         Record(from, "cleanup", r, failed), receipt # None,
         failed => pc' \in {"idle", "failed"}
  PROVE  PendingInv'
<1>1. /\ pc' \in {"idle", "failed", "cleanup"}
      /\ pc' = "cleanup" => receipt' = r
  BY DEF Record, Step
<1>2. /\ receipt' = r => unrecorded' = None
      /\ receipt' # r => /\ receipt' = load_receipt(receipt, index)
                         /\ unrecorded' = unrecorded
      /\ UNCHANGED <<objects, head, intent>>
  BY DEF Record, repo
<1>3. CASE receipt' = r
  BY <1>1, <1>2, <1>3 DEF PendingInv, CommitAwaited, CommitPrepared
<1>4. CASE receipt' # r
  BY <1>1, <1>2, <1>4, LoadBringsNoFinish
  DEF PendingInv, CommitAwaited, CommitPrepared
<1>5. QED
  BY <1>3, <1>4

LEMMA DuringCommitPending ==
  ASSUME TypeInv, PendingInv, DuringCommit
  PROVE  PendingInv'
<1> USE DEF PendingInv
<1>1. CASE ReadManifest
  BY <1>1
  DEF ReadManifest, ManifestReady, manifest_ready, Step, CommitAwaited,
      CommitPrepared, repo, history
<1>2. CASE ManifestBlocks
  BY <1>2, LoadBringsNoFinish
  DEF ManifestBlocks, Step, CommitAwaited, CommitPrepared, repo, history
<1>3. CASE ReloadReceipt
  <2>1. receipt # None
    BY <1>3 DEF ReloadReceipt, TypeInv, PcOK
  <2>2. QED
    BY <1>3, <2>1, LoadBringsNoFinish
    DEF ReloadReceipt, CommitAwaited, CommitPrepared, repo, history
<1>4. CASE GitCommit \/ HookMutatesCommit
  <2>1. \E tree \in Tree : CommitTree(tree)
    BY <1>4 DEF GitCommit, HookMutatesCommit, TypeInv, TypeOK
  <2>2. QED
    BY <2>1, CommitTreePending
<1>5. CASE GitCommitFails \/ CheckCommittedTree
  BY <1>5
  DEF GitCommitFails, CheckCommittedTree, Step, CommitAwaited, CommitPrepared,
      repo, files, history
<1>6. CASE SaveFinish
  <2>1. receipt # None
    BY <1>6, SaveFinishWrites DEF TypeInv, PcOK
  <2>2. QED
    BY <1>6, <2>1, RecordPending DEF SaveFinish, Step
<1>7. CASE Cleanup
  BY <1>7
  DEF Cleanup, Return, Step, CommitAwaited, CommitPrepared, repo, history
<1>8. QED
  BY <1>1, <1>2, <1>3, <1>4, <1>5, <1>6, <1>7 DEF DuringCommit

LEMMA AfterFailurePending ==
  ASSUME TypeInv, PendingInv, AfterFailure
  PROVE  PendingInv'
<1> USE DEF PendingInv
<1>1. CASE RecoverAfterFailure
  BY <1>1, PromotePending DEF RecoverAfterFailure
<1>2. CASE DropHarmlessIntent
  <2>1. unrecorded = None
    BY <1>2, HarmlessIntent DEF DropHarmlessIntent
  <2>2. QED
    BY <1>2, <2>1
    DEF DropHarmlessIntent, Return, Step, CommitAwaited, CommitPrepared, repo,
        history
<1>3. CASE FailureUnresolved \/ RecoveryRefused \/ Crash
  BY <1>3
  DEF FailureUnresolved, RecoveryRefused, Crash, Return, Step, CommitAwaited,
      CommitPrepared, repo, files, history
<1>4. CASE ReloadLatest
  BY <1>4, LoadBringsNoFinish
  DEF ReloadLatest, Step, CommitAwaited, CommitPrepared, repo, history
<1>5. CASE PersistRecovered
  <2>1. receipt # None
    BY <1>5, PersistRecoveredWrites DEF TypeInv, PcOK
  <2>2. QED
    BY <1>5, <2>1, RecordPending DEF PersistRecovered, Return, Step
<1>6. QED
  BY <1>1, <1>2, <1>3, <1>4, <1>5 DEF AfterFailure

LEMMA PendingStep == TypeInv /\ PendingInv /\ [Next]_vars => PendingInv'
<1> SUFFICES ASSUME TypeInv, PendingInv, [Next]_vars PROVE PendingInv'
  OBVIOUS
<1>1. CASE UNCHANGED vars
  BY <1>1
  DEF PendingInv, CommitAwaited, CommitPrepared, vars, repo, files, call, history
<1>2. QED
  BY <1>1, NextCases, WorkPending, ExternalPending, BeforeCommitPending,
     DuringCommitPending, AfterFailurePending

LEMMA PendingInvariant == Spec => []PendingInv
<1>1. Init => PendingInv
  BY DEF Init, PendingInv, CommitAwaited, CommitPrepared
<1>2. QED
  BY <1>1, PendingStep, TypeInvariant, PTL DEF Spec

\* RepoDesk never runs `git commit` again on top of a commit of its own that it has
\* not recorded, however often Finish crashes and is retried
\* (finish_recovery.rs: "never issues a second `git commit`").
THEOREM FinishCommitsOnce == Spec => NoSecondCommit
<1>1. PendingInv /\ [Next]_vars => [Committing => unrecorded = None]_vars
  BY DEF PendingInv, CommitPrepared, Committing
<1>2. QED
  BY <1>1, PendingInvariant, PTL DEF Spec, NoSecondCommit

\* Every `git commit` of RepoDesk runs under an intent that is on disk and names no
\* commit yet, so a crash right after it can be recovered.
THEOREM CommitHasIntent == Spec => IntentBeforeCommit
<1>1. PendingInv /\ [Next]_vars =>
        [Committing => intent # None /\ intent.commit_sha = None]_vars
  BY DEF PendingInv, CommitPrepared, Committing
<1>2. QED
  BY <1>1, PendingInvariant, PTL DEF Spec, IntentBeforeCommit
----------------------------------------------------------------------------
\* FinishRecovery implements FinishContract: every step is a step of the contract,
\* or leaves what the contract speaks of as it is.

\* What the refinement mapping of Contract substitutes.
Approved == accepted \cap verified
Outstanding == unrecorded # None
Recorded ==
  IF receipt = None \/ receipt.finish = None THEN None
  ELSE <<receipt.finish.run_id, objects[receipt.finish.commit_sha].tree>>

\* The evidence recorded stays, or is withdrawn, unless this step records it.
RecordedStands == Recorded' \in {Recorded, None}

LEMMA LoadsStand ==
  ASSUME TypeInv, EvidenceInv, [Next]_vars,
         receipt' \in {receipt, load_receipt(receipt, index)}
  PROVE  RecordedStands
<1>1. CASE receipt = None
  BY <1>1, LoadHere DEF RecordedStands, Recorded
<1>2. CASE receipt # None /\ receipt.finish = None
  BY <1>2, LoadedIs DEF RecordedStands, Recorded
<1>3. CASE receipt # None /\ receipt.finish # None
  <2>1. receipt \in TaskRunReceipt
    BY <1>3, LoadedIs
  <2>2. receipt' = receipt
    BY <1>3, <2>1, LoadKeepsFinish
  <2>3. /\ receipt.finish.commit_sha \in Commit
        /\ objects[receipt.finish.commit_sha] # None
    BY <1>3, <2>1 DEF EvidenceInv, BackedBy, TaskRunReceipt, Finish
  <2>4. objects'[receipt.finish.commit_sha] = objects[receipt.finish.commit_sha]
    BY <2>3, ObjectsGrow
  <2>5. Recorded' = Recorded
    BY <2>2, <2>4 DEF Recorded
  <2>6. QED
    BY <2>5 DEF RecordedStands
<1>4. QED
  BY <1>1, <1>2, <1>3

\* A new run, a review and a verification withdraw the evidence.
LEMMA WorkWithdraws ==
  ASSUME TypeInv,
         finalize_execution_evidence \/ Accept \/ Reject \/ run_verification
  PROVE  receipt'.finish = None /\ UNCHANGED unrecorded
<1>1. CASE finalize_execution_evidence
  BY <1>1 DEF finalize_execution_evidence, FreshReceipt, history
<1>2. CASE Accept
  <2>1. receipt \in TaskRunReceipt /\ receipt.changeset_digest \in SUBSET Path
    BY <1>2 DEF Accept, TypeInv, TypeOK, TaskRunReceipt, Digest
  <2>2. index' \in Tree
    BY <1>2, WorkType DEF TypeInv, TypeOK
  <2>3. QED
    BY <1>2, <2>1, <2>2, ReviewType DEF Accept
<1>3. CASE Reject
  <2>1. receipt \in TaskRunReceipt /\ receipt.changeset_digest \in SUBSET Path
    BY <1>3 DEF Reject, TypeInv, TypeOK, TaskRunReceipt, Digest
  <2>2. index \in Tree
    BY DEF TypeInv, TypeOK
  <2>3. QED
    BY <1>3, <2>1, <2>2, ReviewType DEF Reject, history
<1>4. CASE run_verification
  <2>1. /\ load_receipt(receipt, index) \in TaskRunReceipt
        /\ head \in Commit /\ index \in Tree
    BY <1>4, LoadedIs DEF run_verification, TypeInv, TypeOK
  <2>2. QED
    BY <1>4, <2>1, VerificationType DEF run_verification
<1>5. QED
  BY <1>1, <1>2, <1>3, <1>4

LEMMA ReworkStep ==
  ASSUME RecordedStands, Approved \subseteq Approved', Outstanding' = Outstanding
  PROVE  Contract!Rework
BY DEF Contract!Rework, RecordedStands, Recorded, Approved, Outstanding

LEMMA LandStep ==
  ASSUME TypeInv, PendingInv, NEW tree \in Tree, CommitTree(tree)
  PROVE  Contract!Land
<1>1. /\ pc = "git_commit"
      /\ UNCHANGED <<receipt, accepted, verified>>
      /\ unrecorded' \in Commit
  BY DEF CommitTree, Step, files
<1>2. unrecorded = None /\ receipt.finish = None
  BY <1>1 DEF PendingInv, CommitPrepared
<1>3. unrecorded' # None
  BY <1>1, NoneAssumption
<1>4. QED
  BY <1>1, <1>2, <1>3 DEF Contract!Land

\* A write of finish evidence records what was approved, or changes nothing.
LEMMA RecordStep ==
  ASSUME TypeInv, EvidenceInv, [Next]_vars, NEW from, NEW commit \in Commit,
         NEW paths \in SUBSET Path, NEW ACTION failed,
         mem.receipt \in TaskRunReceipt,
         Record(from, "cleanup", WithFinish(mem.receipt, commit, paths), failed),
         <<mem.receipt.run_id, objects[commit].tree>> \in Approved
  PROVE  Contract!RecordEvidence \/ Contract!Rework
<1> DEFINE r == WithFinish(mem.receipt, commit, paths)
<1>1. /\ r # None /\ r.finish # None
      /\ r.finish.run_id = mem.receipt.run_id /\ r.finish.commit_sha = commit
  BY FinishType, NoneAssumption
<1> HIDE DEF r
<1>2. UNCHANGED <<objects, accepted, verified>>
  BY DEF Record, repo
<1>3. /\ receipt' \in {r, load_receipt(receipt, index)}
      /\ unrecorded' = IF receipt' = r THEN None ELSE unrecorded
  BY DEF Record, r
<1>4. CASE receipt' = r
  <2>1. Recorded' = <<mem.receipt.run_id, objects[commit].tree>>
    BY <1>1, <1>2, <1>4 DEF Recorded
  <2>2. Approved' = Approved /\ Outstanding' = FALSE
    BY <1>2, <1>3, <1>4 DEF Approved, Outstanding
  <2>3. QED
    BY <2>1, <2>2 DEF Contract!RecordEvidence, Recorded, Approved, Outstanding
<1>5. CASE receipt' # r
  <2>1. RecordedStands
    BY <1>3, <1>5, LoadsStand
  <2>2. Approved' = Approved /\ Outstanding' = Outstanding
    BY <1>2, <1>3, <1>5 DEF Approved, Outstanding
  <2>3. QED
    BY <2>1, <2>2, ReworkStep
<1>6. QED
  BY <1>4, <1>5

LEMMA ContractStep ==
  ASSUME TypeInv, EvidenceInv, PendingInv, [Next]_vars
  PROVE  [Contract!ContractNext]_(Contract!contract)
<1> USE DEF Contract!ContractNext
<1>1. Approved \subseteq Approved'
  BY HistoryGrows DEF Approved
<1>2. CASE finalize_execution_evidence \/ Accept \/ Reject \/ run_verification
  <2>1. RecordedStands /\ Outstanding' = Outstanding
    BY <1>2, WorkWithdraws DEF RecordedStands, Recorded, Outstanding
  <2>2. QED
    BY <1>1, <2>1, ReworkStep
<1>3. CASE SaveFinish
  <2>1. <<mem.receipt.run_id, objects[mem.commit].tree>> \in Approved
    BY <1>3, SaveFinishWrites DEF EvidenceInv, TypeInv, PcOK, Approved
  <2>2. QED
    BY <1>3, <2>1, SaveFinishWrites, RecordStep DEF SaveFinish
<1>4. CASE PersistRecovered
  <2>1. mem.receipt # None
    BY <1>4, PersistRecoveredWrites, NoneAssumption
  <2>2. /\ IntentMatches(mem.intent, mem.receipt)
        /\ objects[mem.commit].tree = mem.intent.reviewed_tree_sha
    BY <1>4 DEF PersistRecovered, RecoveryCandidate
  <2>3. <<mem.receipt.run_id, objects[mem.commit].tree>> \in Approved
    BY <2>1, <2>2
    DEF IntentMatches, BoundReview, valid_for, EvidenceInv, BackedBy, Approved
  <2>4. QED
    BY <1>4, <2>3, PersistRecoveredWrites, RecordStep DEF PersistRecovered
<1>5. CASE GitCommit \/ HookMutatesCommit
  <2>1. \E tree \in Tree : CommitTree(tree)
    BY <1>5 DEF GitCommit, HookMutatesCommit, TypeInv, TypeOK
  <2>2. QED
    BY <2>1, LandStep
<1>6. CASE External
  <2>1. UNCHANGED <<receipt, accepted, verified>>
    BY <1>6 DEF External, ExternalEdit, files
  <2>2. RecordedStands
    BY <2>1, LoadsStand
  <2>3. CASE UNCHANGED unrecorded
    BY <1>1, <2>2, <2>3, ReworkStep DEF Outstanding
  <2>4. CASE unrecorded' = None
    <3>1. Recorded' = Recorded
      <4>1. CASE receipt = None \/ receipt.finish = None
        BY <2>1, <4>1 DEF Recorded
      <4>2. CASE receipt # None /\ receipt.finish # None
        <5>1. /\ receipt.finish.commit_sha \in Commit
              /\ objects[receipt.finish.commit_sha] # None
          BY <4>2, LoadedIs DEF EvidenceInv, BackedBy, TaskRunReceipt, Finish
        <5>2. QED
          BY <2>1, <5>1, ObjectsGrow DEF Recorded
      <4>3. QED
        BY <4>1, <4>2
    <3>2. QED
      BY <2>1, <2>4, <3>1 DEF Contract!MoveOn, Recorded
  <2>5. QED
    BY <1>6, <2>3, <2>4
    DEF External, ExternalEdit, ExternalStage, ExternalCommit, ExternalReset
<1>7. CASE /\ receipt' \in {receipt, load_receipt(receipt, index)}
           /\ UNCHANGED unrecorded
  BY <1>1, <1>7, LoadsStand, ReworkStep DEF Outstanding
<1>8. UNCHANGED vars => receipt' = receipt /\ UNCHANGED unrecorded
  BY DEF vars, files, history
<1>9. PollReceipt => UNCHANGED unrecorded
  BY DEF PollReceipt, history
<1>10. BeforeCommit => UNCHANGED unrecorded
  BY DEF BeforeCommit, BeginFinish, FinishAlreadyRecorded, RetryOrPrepare,
         RecoverOnRetry, PromoteIntent, BlockedByIntent, PrepareIntent,
         BlockedBeforeCommit, history
<1>11. ReadManifest \/ ManifestBlocks \/ ReloadReceipt \/ GitCommitFails
         \/ CheckCommittedTree \/ Cleanup => UNCHANGED unrecorded
  BY DEF ReadManifest, ManifestBlocks, ReloadReceipt, GitCommitFails,
         CheckCommittedTree, Cleanup, history
<1>12. AfterFailure /\ ~ PersistRecovered => UNCHANGED unrecorded
  BY DEF AfterFailure, RecoverAfterFailure, PromoteIntent, DropHarmlessIntent,
         FailureUnresolved, ReloadLatest, RecoveryRefused, Crash, history
<1>13. QED
  BY <1>2, <1>3, <1>4, <1>5, <1>6, <1>7, <1>8, <1>9, <1>10, <1>11, <1>12,
     StepKinds, NextCases DEF DuringCommit

\* Finish keeps its contract: at most one commit is ever outstanding, commits land
\* only while nothing is recorded, and what gets recorded was approved for that run,
\* through every crash, failed write, retry, hook and edit of the repository.
THEOREM FinishImplementsContract == Spec => FinishKeepsContract
<1>1. Init => Contract!ContractInit
  BY DEF Init, Contract!ContractInit
<1>2. TypeInv /\ EvidenceInv /\ PendingInv /\ [Next]_vars
        => [Contract!ContractNext]_(Contract!contract)
  BY ContractStep
<1>3. QED
  BY <1>1, <1>2, TypeInvariant, EvidenceInvariant, PendingInvariant, PTL
  DEF Spec, FinishKeepsContract, Contract!ContractSpec
=============================================================================
