--------------------------- MODULE CommitGovernance ---------------------------
(***************************************************************************)
(* What lets a reviewed and verified ChangeSet be committed: the contract  *)
(* of the Work Item (which paths a change may touch, what it must show),   *)
(* human overrides and acceptance evidence (engineering/commit_policy.rs,  *)
(* acceptance_evidence.rs, safe_commit_manifest.rs), beside the gate that  *)
(* the Changes surface derives from the journal (change_governance.rs,     *)
(* change_verification.rs).                                                *)
(*                                                                         *)
(* Contract, overrides, links and Finish run on the desktop's main thread, *)
(* one at a time; runs, reviews and checks on workers, the user's Git      *)
(* commands anywhere between two steps.  Timestamps are ticks of a clock.  *)
(* The intent around Finish, its faults and retries are FinishRecovery's.  *)
(***************************************************************************)
EXTENDS Receipt, Integers, Sequences, FiniteSetsExt

CONSTANTS
  Criterion,     \* acceptance criteria
  Suites,        \* the sets of commands the project's checks may consist of
  Rules,         \* the contracts the user may save, without their timestamps
  RunFiles,      \* the path sets a run may report as changed
  WorkTrees,     \* what the working tree may hold
  FirstCommit, FirstContent,
  MaxEvents,     \* bound on the journal
  MaxClock,      \* bound on timestamps
  MaxUserGit     \* bound on the user's own Git commands

Rule == [allowed : SUBSET Path \cup {None}, protected : SUBSET Path, criteria : SUBSET Criterion]
Contract == [rules : Rules, updated_at : 0 .. MaxClock]

ASSUME GovernanceAssumption ==
  /\ Rules \subseteq Rule /\ RunFiles \subseteq SUBSET Path /\ WorkTrees \subseteq Tree
  /\ FirstCommit \in Commit /\ FirstContent \in Content
  /\ MaxEvents \in Nat /\ MaxClock \in Nat /\ MaxUserGit \in Nat

\* A verification names its checks and its time.
Command == UNION Suites
CheckedVerification ==
  [run_id : Run, head_sha : Commit, index_tree_sha : Tree, changeset_digest : Digest,
   success : BOOLEAN, verified_at : Nat, ran : SUBSET Command, passed : SUBSET Command]
Evidence ==
  [run_id : Run, changeset_digest : Digest \cup {None}, review : Review \cup {None},
   verification : CheckedVerification \cup {None}, finish : Finish \cup {None}]

Ending == [run : Run, files : SUBSET Path]
Running == [at : {"running"}, receipt : Evidence, head : Commit, tree : Tree]
Reporting == [at : {"reporting"}, run : Run, success : BOOLEAN]

MainThread ==
  [at : {"idle", "override", "acceptance", "scope", "decide", "reload", "commit", "record"},
   receipt : Evidence \cup {None}, criteria : SUBSET Criterion,
   saved : Evidence \cup {None}, commit : Commit \cup {None},
   run : Run \cup {None}, files : SUBSET Path]

Event ==
  [kind : {"ChangeSetCreated"}, run : Run, files : SUBSET Path]
    \cup [kind : {"ChangeSetReviewed"}, run : Run, decision : {"accepted", "rejected"}]
    \cup [kind : {"VerificationStarted", "CommitCreated"}, run : Run]
    \cup [kind : {"VerificationFinished"}, run : Run, success : BOOLEAN]
    \cup [kind : {"ScopeChanged"}]
    \cup [kind : {"HumanOverride"}, run : Run, files : SUBSET Path, at : Nat]

Binding ==
  [criterion : Criterion, run_id : Run, changeset_digest : Digest, verified_at : Nat,
   command : Command, linked_at : Nat]

ASSUME GovernanceNoneAssumption ==
  /\ None \notin Contract /\ None \notin CheckedVerification /\ None \notin Evidence
  /\ None \notin Ending /\ None \notin Running /\ None \notin Reporting

VARIABLES
  base,       \* HEAD
  objects,    \* commit -> tree
  staged,     \* the index
  evidence,   \* task-run-receipt.json
  contract,   \* work-item-contract.json
  bindings,   \* acceptance-evidence.json
  events,     \* the journal of the Work Item
  clock,
  ended,      \* the runs that have ended
  ending,     \* a run in the journal whose receipt is not saved yet
  checks,     \* the verification in flight: what it loaded and captured
  main,       \* what the main thread is at, with its locals
  user_git,   \* the user's own Git commands left
  room,       \* a configuration: the bound on the journal in this behaviour
  reliable,   \* a configuration: no best-effort append fails
  lost,       \* has one failed?
  linked      \* history: the links made, with the tree each was about

git == <<base, objects, staged>>
worker == <<ended, ending, checks>>
bounds == <<room, reliable>>
governanceVars == <<git, evidence, contract, bindings, events, clock, worker, main,
                    user_git, bounds, lost, linked>>

IdleMain ==
  [at |-> "idle", receipt |-> None, criteria |-> {}, saved |-> None, commit |-> None,
   run |-> None, files |-> {}]

GovernanceInit ==
  /\ base = FirstCommit
  /\ objects = [c \in {FirstCommit} |-> [p \in Path |-> FirstContent]]
  /\ staged = objects[FirstCommit]
  /\ evidence = None
  /\ contract \in {[rules |-> r, updated_at |-> 0] : r \in Rules} \cup {None}
  /\ bindings = {} /\ events = <<>> /\ clock \in 1 .. MaxClock
  /\ ended = {} /\ ending = None /\ checks = None
  /\ main = IdleMain
  /\ user_git \in 0 .. MaxUserGit /\ linked = {}
  /\ room \in 0 .. MaxEvents /\ reliable \in BOOLEAN /\ lost = FALSE

----------------------------------------------------------------------------
(* The contract and what it says of a set of changed files. *)

ProtectedFiles(rules, files) == files \cap rules.protected
OutOfScope(rules, files) ==
  IF rules.allowed = None THEN {} ELSE files \ (rules.allowed \cup rules.protected)
Violating(rules, files) == ProtectedFiles(rules, files) \cup OutOfScope(rules, files)

derive_scope_compliance(held, files) ==
  IF files = {} THEN "not_evaluated"
  ELSE IF held = None \/ (held.rules.allowed = None /\ held.rules.protected = {})
  THEN "unconfigured"
  ELSE IF Violating(held.rules, files) = {} THEN "compliant" ELSE "violation"

(* The policy of the commit: overrides count for this run's ChangeSet and not
   when the contract has been saved since. *)
Overrides(run) ==
  {i \in DOMAIN events : events[i].kind = "HumanOverride" /\ events[i].run = run}

\* Mutant: an override outlives the contract it was given under.
AnyOverrideOfRun(held, run) == Overrides(run)
ValidOverrides(held, run) == {i \in Overrides(run) : events[i].at >= held.updated_at}

derive_commit_scope_policy(held, files, run) ==
  LET status == derive_scope_compliance(held, files)
      overridden == status = "violation" /\ ValidOverrides(held, run) # {}
  IN [status |-> status, overridden |-> overridden,
      allowed |-> status # "violation" \/ overridden]

(* Is the verification of this receipt still about the code?  After a commit of
   Finish it follows that commit's tree. *)
active_verification_is_fresh(r) ==
  /\ r.verification # None
  /\ r.verification.run_id = r.run_id
  /\ r.verification.changeset_digest =
       (IF r.changeset_digest = None THEN {} ELSE r.changeset_digest)
  /\ IF r.finish # None
     THEN /\ r.finish.run_id = r.run_id
          /\ r.finish.commit_sha \in DOMAIN objects
          /\ objects[r.finish.commit_sha] = r.verification.index_tree_sha
     ELSE r.verification.head_sha = base /\ r.verification.index_tree_sha = staged

(* The latest link of a criterion, which counts while run, ChangeSet, verification
   and tree are those it was made for. *)
BoundTo(binding, r) ==
  /\ binding.run_id = r.run_id
  /\ binding.changeset_digest = (IF r.changeset_digest = None THEN {} ELSE r.changeset_digest)

\* Mutant: a link to an earlier verification of the run still counts.
CurrentLinkOfRun(binding, r) == BoundTo(binding, r) /\ r.verification # None

CurrentLink(binding, r) ==
  /\ BoundTo(binding, r)
  /\ r.verification # None
  /\ binding.verified_at = r.verification.verified_at

derive_criterion(criterion, r, fresh) ==
  LET links == {b \in bindings : b.criterion = criterion}
      binding == CHOOSE b \in links : \A o \in links : o.linked_at <= b.linked_at
      counts == /\ links # {} /\ r # None
                /\ CurrentLink(binding, r) /\ fresh
                /\ binding.command \in r.verification.ran
  IN IF ~ counts THEN "unproven"
     ELSE IF binding.command \in r.verification.passed THEN "proven" ELSE "failed"

\* The acceptance report of receipt r: a status for each criterion.
derive_acceptance_evidence(r) ==
  LET fresh == r # None /\ active_verification_is_fresh(r)
      criteria == IF contract = None THEN {} ELSE contract.rules.criteria
  IN [c \in criteria |-> derive_criterion(c, r, fresh)]

----------------------------------------------------------------------------
(* The gate of the Changes surface, from the journal. *)

Kind(kind) == {i \in DOMAIN events : events[i].kind = kind}
KindOf(kind, run) == {i \in Kind(kind) : events[i].run = run}
Latest(indices) == events[Max(indices)]

HasChangeSet == Kind("ChangeSetCreated") # {}
ChangeSetIndex == Max(Kind("ChangeSetCreated"))
CurrentRun == events[ChangeSetIndex].run
ChangedFiles == events[ChangeSetIndex].files

derive_review_state(run) ==
  IF KindOf("ChangeSetReviewed", run) = {} THEN "proposed"
  ELSE Latest(KindOf("ChangeSetReviewed", run)).decision

derive_verification(run) ==
  LET attempts == KindOf("VerificationStarted", run) \cup KindOf("VerificationFinished", run)
  IN IF attempts = {} THEN "not_run"
     ELSE IF Latest(attempts).kind = "VerificationStarted" THEN "running"
     ELSE IF Latest(attempts).success THEN "passed" ELSE "failed"

derive_valid_scope_override(run) ==
  LET given == {i \in Overrides(run) : i > ChangeSetIndex}
  IN given # {} /\ \A s \in Kind("ScopeChanged") : s <= Max(given)

derive_gate(run, fresh) ==
  LET review == derive_review_state(run)
      verification == derive_verification(run)
  IN IF KindOf("CommitCreated", run) # {} THEN "committed"
     ELSE IF review = "rejected" THEN "rejected"
     ELSE IF /\ derive_scope_compliance(contract, ChangedFiles) = "violation"
             /\ ~ derive_valid_scope_override(run)
     THEN "scope_violation"
     ELSE IF review # "accepted" THEN "needs_review"
     ELSE IF verification = "not_run" THEN "verification_required"
     ELSE IF verification = "running" THEN "verification_running"
     ELSE IF verification = "failed" THEN "verification_failed"
     ELSE IF ~ fresh THEN "verification_stale"
     ELSE "ready"

\* Mutant: a passed verification in the journal is enough.
JournalGate(r) == IF HasChangeSet THEN derive_gate(CurrentRun, TRUE) ELSE "no_changeset"

\* work_engineering_intelligence: the gate, reconciled with receipt r and Git.
ChangesGate(r) ==
  IF HasChangeSet THEN derive_gate(CurrentRun, r # None /\ active_verification_is_fresh(r))
  ELSE "no_changeset"

----------------------------------------------------------------------------
(* What is appended and saved. *)

\* Appending to the journal is best-effort, but for an override; a step appends two
\* events at most.
Kept(new) ==
  {new} \cup IF reliable \/ lost THEN {} ELSE {<<>>} \cup {<<new[i]>> : i \in DOMAIN new}

Appends(new) ==
  /\ Len(events) + Len(new) <= room
  /\ \E kept \in Kept(new) :
       /\ events' = events \o kept
       /\ lost' = (lost \/ kept # new)

review_changed(previous, r) ==
  /\ r.review # None
  /\ previous = None \/ previous.run_id # r.run_id \/ previous.review # r.review

\* The journal hears of a review that a save brings.
ReviewEvent(previous, r) ==
  IF review_changed(previous, r)
  THEN <<[kind |-> "ChangeSetReviewed", run |-> r.run_id, decision |-> r.review.decision]>>
  ELSE <<>>

\* save_receipt(r) with the index as it is then, and the event its caller adds.
Saves(r, index, after) ==
  /\ validate_receipt(r)
  /\ evidence' = r
  /\ Appends(ReviewEvent(load_receipt(evidence, index), r) \o after)

\* What a load returns, which it also leaves in the file.
Held == load_receipt(evidence, staged)
Ticks == clock < MaxClock /\ clock' = clock + 1

----------------------------------------------------------------------------
(* Workers: runs, reviews and checks. *)

\* A run that ends is in the journal before its receipt is in the file.
record_orchestration_run ==
  /\ ending = None
  /\ \E run \in Run \ ended, files \in RunFiles :
       /\ ended' = ended \cup {run}
       /\ ending' = [run |-> run, files |-> files]
       /\ Appends(IF files = {} THEN <<>>
                  ELSE <<[kind |-> "ChangeSetCreated", run |-> run, files |-> files]>>)
  /\ UNCHANGED <<git, evidence, contract, bindings, clock, checks, main, user_git, linked,
                 bounds>>

FinalizeEvidence ==
  /\ ending # None
  /\ evidence' = FreshReceipt(ending.run, IF ending.files = {} THEN None ELSE ending.files)
  /\ ending' = None
  /\ UNCHANGED <<git, contract, bindings, events, clock, ended, checks, main, user_git,
                 lost, linked, bounds>>

\* Accept stages what the working tree holds, Reject takes the paths back to HEAD.
ReviewRun(decision) ==
  /\ evidence # None /\ evidence.changeset_digest # None
  /\ \E source \in IF decision = "accepted" THEN WorkTrees ELSE {objects[base]} :
       /\ staged' = [p \in Path |-> IF p \in evidence.changeset_digest THEN source[p]
                                   ELSE staged[p]]
       /\ LET r == load_receipt(evidence, staged')
          IN Saves(WithReview(r, decision, r.changeset_digest, staged'), staged', <<>>)
  /\ UNCHANGED <<base, objects, contract, bindings, clock, worker, main, user_git, linked,
                 bounds>>

VerificationStarts ==
  /\ checks = None
  /\ Held # None /\ reviewed_tree_ok(Held, staged)
  /\ evidence' = Held
  /\ checks' = [at |-> "running", receipt |-> Held, head |-> base, tree |-> staged]
  /\ Appends(<<[kind |-> "VerificationStarted", run |-> Held.run_id]>>)
  /\ UNCHANGED <<git, contract, bindings, clock, ended, ending, main, user_git, linked,
                 bounds>>

FinishedEvent(run, success) ==
  <<[kind |-> "VerificationFinished", run |-> run, success |-> success]>>

\* The receipt of run_verification with its checks and its time.
WithChecks(c, ran, passed) ==
  LET r == WithVerification(c.receipt, c.head, c.tree, ran = passed)
      v == r.verification
  IN [r EXCEPT !.verification =
        [run_id |-> v.run_id, head_sha |-> v.head_sha, index_tree_sha |-> v.index_tree_sha,
         changeset_digest |-> v.changeset_digest, success |-> v.success,
         verified_at |-> clock, ran |-> ran, passed |-> passed]]

\* The checks end: the receipt is saved, ...
VerificationSaves ==
  /\ checks # None /\ checks.at = "running" /\ Ticks
  /\ \E ran \in Suites : \E passed \in SUBSET ran :
       /\ Saves(WithChecks(checks, ran, passed), staged, <<>>)
       /\ checks' = [at |-> "reporting", run |-> checks.receipt.run_id,
                     success |-> ran = passed]
  /\ UNCHANGED <<git, contract, bindings, ended, ending, main, user_git, linked, bounds>>

\* ... then the journal is told.
VerificationReports ==
  /\ checks # None /\ checks.at = "reporting"
  /\ Appends(FinishedEvent(checks.run, checks.success))
  /\ checks' = None
  /\ UNCHANGED <<git, evidence, contract, bindings, clock, ended, ending, main, user_git,
                 linked, bounds>>

\* The checks cannot be run, or the save fails, of which the journal does not hear.
VerificationErrs ==
  /\ checks # None /\ checks.at = "running"
  /\ \/ Appends(FinishedEvent(checks.receipt.run_id, FALSE))
     \/ UNCHANGED <<events, lost>>
  /\ checks' = None
  /\ UNCHANGED <<git, evidence, contract, bindings, clock, ended, ending, main, user_git,
                 linked, bounds>>

----------------------------------------------------------------------------
(* The main thread: contract, override, link. *)

save_active_work_item_contract ==
  /\ main.at = "idle" /\ Ticks
  /\ \E rules \in Rules : contract' = [rules |-> rules, updated_at |-> clock]
  /\ Appends(<<[kind |-> "ScopeChanged"]>>)
  /\ UNCHANGED <<git, evidence, bindings, worker, main, user_git, linked, bounds>>

\* An override is for the scope violation that Changes shows ...
OverrideReads ==
  /\ main.at = "idle"
  /\ HasChangeSet /\ derive_gate(CurrentRun, TRUE) = "scope_violation"
  /\ main' = [main EXCEPT !.at = "override", !.run = CurrentRun,
                          !.files = Violating(contract.rules, ChangedFiles)]
  /\ UNCHANGED <<git, evidence, contract, bindings, events, clock, worker, user_git, lost,
                 linked, bounds>>

\* ... and is recorded, or reported as failed.
OverrideAppends ==
  /\ main.at = "override"
  /\ \/ /\ Ticks /\ Len(events) < room
        /\ events' = Append(events, [kind |-> "HumanOverride", run |-> main.run,
                                     files |-> main.files, at |-> clock])
     \/ UNCHANGED <<events, clock>>
  /\ main' = IdleMain
  /\ UNCHANGED <<git, evidence, contract, bindings, worker, user_git, lost, linked, bounds>>

OtherLinks(criterion, run) == {b \in bindings : ~ (b.criterion = criterion /\ b.run_id = run)}

\* A link replaces the one of the same criterion and run.
link_active_acceptance_evidence ==
  /\ main.at = "idle" /\ Ticks
  /\ contract # None
  /\ Held # None /\ active_verification_is_fresh(Held)
  /\ evidence' = Held
  /\ \E c \in contract.rules.criteria, command \in Held.verification.ran :
       LET v == Held.verification
           binding == [criterion |-> c, run_id |-> Held.run_id,
                       changeset_digest |-> v.changeset_digest,
                       verified_at |-> v.verified_at, command |-> command,
                       linked_at |-> clock]
       IN /\ bindings' = OtherLinks(c, Held.run_id) \cup {binding}
          /\ linked' = linked \cup {[criterion |-> c, run |-> Held.run_id,
                                     tree |-> v.index_tree_sha,
                                     passed |-> command \in v.passed]}
  /\ UNCHANGED <<git, contract, events, worker, main, user_git, lost, bounds>>

----------------------------------------------------------------------------
(* Finish, and the user at the same repository. *)

\* load_active_safe_commit_manifest reads the receipt ...
FinishLoads ==
  /\ main.at = "idle"
  /\ Held # None
  /\ evidence' = Held
  /\ main' = [main EXCEPT !.at = "acceptance", !.receipt = Held]
  /\ UNCHANGED <<git, contract, bindings, events, clock, worker, user_git, lost, linked,
                 bounds>>

\* ... the acceptance report, which loads it again ...
FinishAcceptance ==
  /\ main.at = "acceptance"
  /\ evidence' = Held
  /\ LET report == derive_acceptance_evidence(Held) IN
       IF \A c \in DOMAIN report : report[c] = "proven"
       THEN main' = [main EXCEPT !.at = "scope", !.criteria = DOMAIN report]
       ELSE main' = IdleMain
  /\ UNCHANGED <<git, contract, bindings, events, clock, worker, user_git, lost, linked,
                 bounds>>

\* ... contract and journal for the scope policy of the first receipt ...
FinishScope ==
  /\ main.at = "scope"
  /\ IF /\ AcceptedReview(main.receipt)
        /\ derive_commit_scope_policy(contract, main.receipt.review.reviewed_paths,
                                      main.receipt.run_id).allowed
     THEN main' = [main EXCEPT !.at = "decide"]
     ELSE main' = IdleMain
  /\ UNCHANGED <<git, evidence, contract, bindings, events, clock, worker, user_git, lost,
                 linked, bounds>>

\* ... and Git.
FinishDecides ==
  /\ main.at = "decide"
  /\ IF manifest_ready(main.receipt, base, staged, DiffPaths(objects[base], staged))
     THEN main' = [main EXCEPT !.at = "reload"]
     ELSE main' = IdleMain
  /\ UNCHANGED <<git, evidence, contract, bindings, events, clock, worker, user_git, lost,
                 linked, bounds>>

\* The receipt to save is loaded once more; only its run is compared.
FinishReloads ==
  /\ main.at = "reload"
  /\ evidence' = Held
  /\ IF Held # None /\ Held.run_id = main.receipt.run_id
     THEN main' = [main EXCEPT !.at = "commit", !.saved = Held]
     ELSE main' = IdleMain
  /\ UNCHANGED <<git, contract, bindings, events, clock, worker, user_git, lost, linked,
                 bounds>>

CommitsIndex(commit) ==
  /\ commit \notin DOMAIN objects
  /\ staged # objects[base]
  /\ base' = commit
  /\ objects' = [c \in DOMAIN objects \cup {commit} |-> IF c = commit THEN staged
                                                         ELSE objects[c]]

\* `git commit`, or its failure; a commit of another tree ends Finish.
GitCommits ==
  /\ main.at = "commit"
  /\ \/ \E commit \in Commit :
          /\ CommitsIndex(commit)
          /\ main' = IF staged = main.receipt.review.index_tree_after_accept
                     THEN [main EXCEPT !.at = "record", !.commit = commit] ELSE IdleMain
     \/ UNCHANGED git /\ main' = IdleMain
  /\ UNCHANGED <<staged, evidence, contract, bindings, events, clock, worker, user_git,
                 lost,
                 linked, bounds>>

FinishRecords ==
  /\ main.at = "record"
  /\ LET r == WithFinish(main.saved, main.commit, main.receipt.review.reviewed_paths) IN
       \/ Saves(r, staged, <<[kind |-> "CommitCreated", run |-> r.run_id]>>)
       \/ ~ validate_receipt(r) /\ UNCHANGED <<evidence, events, lost>>
  /\ main' = IdleMain
  /\ UNCHANGED <<git, contract, bindings, clock, worker, user_git, linked, bounds>>

\* A surface refreshes: its load drops an approval that is stale.
Polls ==
  /\ Held # evidence /\ evidence' = Held
  /\ UNCHANGED <<git, contract, bindings, events, clock, worker, main, user_git, lost,
                 linked, bounds>>

UserStages ==
  /\ user_git > 0 /\ user_git' = user_git - 1
  /\ \E p \in Path, c \in Content : staged' = [staged EXCEPT ![p] = c]
  /\ UNCHANGED <<base, objects, evidence, contract, bindings, events, clock, worker, main,
                 lost, linked, bounds>>

UserCommits ==
  /\ user_git > 0 /\ user_git' = user_git - 1
  /\ \E commit \in Commit : CommitsIndex(commit)
  /\ UNCHANGED <<staged, evidence, contract, bindings, events, clock, worker, main,
                 lost, linked, bounds>>

GovernanceNext ==
  \/ record_orchestration_run \/ FinalizeEvidence
  \/ \E decision \in {"accepted", "rejected"} : ReviewRun(decision)
  \/ VerificationStarts \/ VerificationSaves \/ VerificationReports \/ VerificationErrs
  \/ save_active_work_item_contract \/ OverrideReads \/ OverrideAppends
  \/ link_active_acceptance_evidence
  \/ FinishLoads \/ FinishAcceptance \/ FinishScope \/ FinishDecides \/ FinishReloads
  \/ GitCommits \/ FinishRecords
  \/ Polls \/ UserStages \/ UserCommits

GovernanceSpec == GovernanceInit /\ [][GovernanceNext]_governanceVars

----------------------------------------------------------------------------

CheckedRun == IF checks.at = "running" THEN checks.receipt.run_id ELSE checks.run

\* Type correctness of the stores and of the two threads, with one link for each
\* criterion of a run (receipt.rs, work_item_contract.rs, acceptance_evidence.rs).
GovernanceTypeOK ==
  /\ base \in DOMAIN objects /\ DOMAIN objects \subseteq Commit
  /\ \A c \in DOMAIN objects : objects[c] \in Tree
  /\ staged \in Tree
  /\ evidence \in Evidence \cup {None} /\ contract \in Contract \cup {None}
  /\ evidence # None => evidence.run_id \in ended /\ validate_receipt(evidence)
  /\ contract # None => contract.updated_at < clock
  /\ \A b \in bindings : b \in Binding /\ b.linked_at < clock
  /\ \A a, b \in bindings : a.criterion = b.criterion /\ a.run_id = b.run_id => a = b
  /\ \A i \in DOMAIN events : events[i] \in Event
  /\ Len(events) <= room /\ clock \in 1 .. MaxClock
  /\ ended \subseteq Run
  /\ ending \in Ending \cup {None} /\ (ending # None => ending.run \in ended)
  /\ checks \in Running \cup Reporting \cup {None} /\ (checks # None => CheckedRun \in ended)
  /\ main \in MainThread
  /\ room \in 0 .. MaxEvents /\ reliable \in BOOLEAN /\ lost \in BOOLEAN
  /\ user_git \in 0 .. MaxUserGit

\* A scope violation that an override lets through is one a human saw: some override of
\* the run lists exactly the files the contract now forbids, however contract, runs and
\* reviews moved since (commit_policy.rs: latest_valid_scope_override).
OverrideCoversViolation ==
  evidence # None /\ AcceptedReview(evidence) =>
    LET paths == evidence.review.reviewed_paths IN
    derive_commit_scope_policy(contract, paths, evidence.run_id).overridden =>
      \E i \in KindOf("HumanOverride", evidence.run_id) :
        events[i].files = Violating(contract.rules, paths)

\* When Finish records its commit, every criterion it counted as proven was linked by a
\* human to a passing command run on the very tree of that commit, although the report and
\* the review were loaded apart (safe_commit_manifest.rs, acceptance_evidence.rs).
AcceptanceIsOfTheCommit ==
  main.at = "record" =>
    \A c \in main.criteria :
      [criterion |-> c, run |-> main.receipt.run_id, tree |-> objects[main.commit],
       passed |-> TRUE] \in linked

\* While no append fails, Changes tells of the run in the ledger what Finish would:
\* Ready only with a successful verification of this HEAD, index and ChangeSet, and for an
\* Accepted, uncommitted one a scope violation exactly when the commit policy forbids it
\* (change_governance.rs and change_verification.rs beside commit_policy.rs).
ChangesTellsTheTruth ==
  LET r == Held IN
  reliable /\ HasChangeSet /\ r # None /\ r.run_id = CurrentRun =>
    /\ ChangesGate(r) = "ready" =>
         /\ r.verification # None
         /\ valid_for(r.verification, base, staged, r.changeset_digest)
    /\ AcceptedReview(r) /\ r.finish = None /\ KindOf("CommitCreated", r.run_id) = {} =>
         (ChangesGate(r) = "scope_violation"
            <=> ~ derive_commit_scope_policy(contract, r.review.reviewed_paths,
                                             r.run_id).allowed)
=============================================================================
