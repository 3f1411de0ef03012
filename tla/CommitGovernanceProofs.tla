----------------------- MODULE CommitGovernanceProofs -----------------------
(* What lets a ChangeSet be committed, for any runs, paths, contracts, suites of
   checks, edits and lengths of the journal, whether or not appends to it fail. *)
EXTENDS CommitGovernance, ReceiptProofs, WellFoundedInduction

----------------------------------------------------------------------------
\* The types, and what Finish has in hand.

GitOK ==
  /\ base \in DOMAIN objects /\ DOMAIN objects \subseteq Commit
  /\ \A c \in DOMAIN objects : objects[c] \in Tree
  /\ staged \in Tree

FilesOK ==
  /\ evidence \in Evidence \cup {None} /\ contract \in Contract \cup {None}
  /\ \A b \in bindings : b \in Binding
  /\ \A a, b \in bindings : a.criterion = b.criterion /\ a.run_id = b.run_id => a = b

JournalOK ==
  /\ events \in Seq(Event) /\ Len(events) <= room /\ room \in 0 .. MaxEvents
  /\ reliable \in BOOLEAN /\ lost \in BOOLEAN

ThreadsOK ==
  /\ ended \subseteq Run /\ ending \in Ending \cup {None}
  /\ checks \in Running \cup Reporting \cup {None} /\ main \in MainThread

\* What Finish has in hand at each step.
MainOK ==
  /\ main.at = "override" => main.run # None
  /\ main.at \in {"acceptance", "scope", "decide", "reload", "commit", "record"} =>
       main.receipt # None
  /\ main.at \in {"decide", "reload", "commit", "record"} => AcceptedReview(main.receipt)
  /\ main.at \in {"commit", "record"} =>
       main.saved # None /\ main.saved.run_id = main.receipt.run_id
  /\ main.at = "record" => main.commit # None

BoundsOK == clock \in 1 .. MaxClock /\ user_git \in 0 .. MaxUserGit

GovernanceTypeInv == GitOK /\ FilesOK /\ JournalOK /\ ThreadsOK /\ MainOK /\ BoundsOK

LEMMA GovernanceBounds ==
  /\ MaxEvents \in Nat /\ MaxClock \in Nat /\ MaxUserGit \in Nat
  /\ None \notin Run /\ None \notin Commit /\ None \notin Tree
  /\ \A d \in Digest : d # None
  /\ None \notin Review /\ None \notin Finish
BY GovernanceAssumption, NoneAssumption

LEMMA IdleThread ==
  ASSUME main' = IdleMain
  PROVE  main' \in MainThread /\ MainOK' /\ main'.at = "idle" /\ main'.receipt = None
           /\ main'.saved = None
BY DEF IdleMain, MainThread, MainOK

\* The same run and ChangeSet, with the evidence it had or less, or a new review.
Derived(r, s) ==
  /\ r \in Evidence /\ r.run_id = s.run_id /\ r.changeset_digest = s.changeset_digest
  /\ validate_receipt(r)
  /\ \/ r.review = s.review
     \/ r.review = None
     \/ r.changeset_digest # None /\ r.review.reviewed_paths = r.changeset_digest
  /\ r.verification = s.verification \/ r.verification = None

\* A load returns the receipt as it is, or the same run without its evidence.
LEMMA LoadEvidence ==
  ASSUME NEW r \in Evidence, NEW tree
  PROVE  LET l == load_receipt(r, tree) IN
         /\ l \in Evidence /\ l # None
         /\ l.run_id = r.run_id /\ l.changeset_digest = r.changeset_digest
         /\ l = r \/ (l.review = None /\ l.verification = None /\ l.finish = None)
         /\ validate_receipt(r) => Derived(l, r)
<1> DEFINE l == load_receipt(r, tree)
           w == [r EXCEPT !.review = None, !.verification = None, !.finish = None]
<1>1. r # None
  BY GovernanceNoneAssumption
<1>2. l = r \/ l = w
  BY <1>1 DEF load_receipt, invalidate_stale_review_tree
<1>3. /\ w \in Evidence /\ w.run_id = r.run_id /\ w.changeset_digest = r.changeset_digest
      /\ w.review = None /\ w.verification = None /\ w.finish = None
  BY DEF Evidence
<1> HIDE DEF w, l
<1>4. /\ l \in Evidence /\ l # None
      /\ l.run_id = r.run_id /\ l.changeset_digest = r.changeset_digest
      /\ l = r \/ (l.review = None /\ l.verification = None /\ l.finish = None)
  BY <1>1, <1>2, <1>3, GovernanceNoneAssumption
<1>5. validate_receipt(r) => validate_receipt(l)
  BY <1>4 DEF validate_receipt
<1>6. validate_receipt(r) => Derived(l, r)
  BY <1>4, <1>5 DEF Derived
<1>7. QED
  BY <1>4, <1>6 DEF l

LEMMA ReviewedEvidence ==
  ASSUME NEW r \in Evidence, NEW decision \in {"accepted", "rejected"}, NEW tree \in Tree,
         r.changeset_digest # None
  PROVE  LET w == WithReview(r, decision, r.changeset_digest, tree) IN
         /\ w \in Evidence /\ Derived(w, r) /\ w.finish = None /\ w.verification = None
         /\ w.review # None /\ w.review.decision = decision
<1> DEFINE review ==
      [run_id |-> r.run_id, decision |-> decision, reviewed_paths |-> r.changeset_digest,
       changeset_digest |-> r.changeset_digest,
       index_tree_after_accept |-> IF decision = "accepted" THEN tree ELSE None]
    w == WithReview(r, decision, r.changeset_digest, tree)
<1>1. review \in Review
  BY DEF Review, Evidence, Digest
<1>2. w = [r EXCEPT !.review = review, !.verification = None, !.finish = None]
  BY DEF WithReview
<1>3. review # None /\ tree # None
  BY <1>1, GovernanceBounds
<1>4. /\ review.run_id = r.run_id /\ review.changeset_digest = r.changeset_digest
      /\ review.decision = decision /\ review.reviewed_paths = r.changeset_digest
      /\ decision = "accepted" => review.index_tree_after_accept = tree
  OBVIOUS
<1> HIDE DEF review, w
<1>5. /\ w \in Evidence /\ w.run_id = r.run_id /\ w.changeset_digest = r.changeset_digest
      /\ w.finish = None /\ w.verification = None /\ w.review = review
  BY <1>1, <1>2 DEF Evidence
<1>6. validate_receipt(w)
  BY <1>3, <1>4, <1>5 DEF validate_receipt
<1>7. QED
  BY <1>3, <1>4, <1>5, <1>6 DEF Derived, w

LEMMA CheckedEvidence ==
  ASSUME NEW c \in Running, NEW ran \in Suites, NEW passed \in SUBSET ran, clock \in Nat
  PROVE  LET w == WithChecks(c, ran, passed) IN
         /\ w \in Evidence /\ w.finish = None /\ w.review = c.receipt.review
         /\ w.run_id = c.receipt.run_id /\ w.changeset_digest = c.receipt.changeset_digest
         /\ w.verification # None /\ w.verification.verified_at = clock
         /\ w.verification.success = (ran = passed)
<1> DEFINE r == c.receipt
    v == [run_id |-> r.run_id, head_sha |-> c.head, index_tree_sha |-> c.tree,
          changeset_digest |-> IF r.changeset_digest = None THEN {} ELSE r.changeset_digest,
          success |-> ran = passed]
    verification ==
      [run_id |-> v.run_id, head_sha |-> v.head_sha, index_tree_sha |-> v.index_tree_sha,
       changeset_digest |-> v.changeset_digest, success |-> v.success,
       verified_at |-> clock, ran |-> ran, passed |-> passed]
    w == WithChecks(c, ran, passed)
<1>1. r \in Evidence /\ c.head \in Commit /\ c.tree \in Tree
  BY DEF Running
<1>2. ran \in SUBSET Command /\ passed \in SUBSET Command
  BY DEF Command
<1>3. /\ v.run_id \in Run /\ v.head_sha \in Commit /\ v.index_tree_sha \in Tree
      /\ v.changeset_digest \in Digest /\ v.success \in BOOLEAN
  BY <1>1 DEF Evidence, Digest
<1>4. verification \in CheckedVerification
  <2> HIDE DEF v
  <2>1. QED
    BY <1>2, <1>3 DEF CheckedVerification
<1>5. w = [r EXCEPT !.verification = verification, !.finish = None]
  <2>1. WithVerification(r, c.head, c.tree, ran = passed)
          = [r EXCEPT !.verification = v, !.finish = None]
    BY DEF WithVerification
  <2>2. [r EXCEPT !.verification = v, !.finish = None].verification = v
    BY <1>1 DEF Evidence
  <2>3. w = [[r EXCEPT !.verification = v, !.finish = None] EXCEPT !.verification = verification]
    <3> HIDE DEF v
    <3>1. QED
      BY <2>1, <2>2 DEF WithChecks
  <2>4. QED
    <3> HIDE DEF v, verification, w
    <3>1. QED
      BY <1>1, <2>3 DEF Evidence
<1>6. /\ verification.verified_at = clock /\ verification.success = (ran = passed)
      /\ verification # None
  BY <1>4, GovernanceNoneAssumption
<1> HIDE DEF verification, w
<1>7. QED
  BY <1>1, <1>4, <1>5, <1>6 DEF Evidence, w

LEMMA FinishedEvidence ==
  ASSUME NEW r \in Evidence, NEW commit \in Commit, NEW paths \in SUBSET Path
  PROVE  LET w == WithFinish(r, commit, paths) IN
         /\ w \in Evidence /\ w.finish # None /\ w.run_id = r.run_id
         /\ validate_receipt(r) => Derived(w, r)
<1> DEFINE finish == [run_id |-> r.run_id, commit_sha |-> commit, committed_paths |-> paths]
           w == WithFinish(r, commit, paths)
<1>1. finish \in Finish /\ finish.run_id = r.run_id
  BY DEF Finish, Evidence
<1>2. w = [r EXCEPT !.finish = finish]
  BY DEF WithFinish
<1>3. finish # None
  BY <1>1, GovernanceBounds
<1> HIDE DEF finish, w
<1>4. /\ w \in Evidence /\ w.run_id = r.run_id /\ w.changeset_digest = r.changeset_digest
      /\ w.review = r.review /\ w.verification = r.verification /\ w.finish = finish
  BY <1>1, <1>2 DEF Evidence
<1>5. validate_receipt(r) => validate_receipt(w)
  BY <1>1, <1>4 DEF validate_receipt, AcceptedReview
<1>6. QED
  BY <1>3, <1>4, <1>5 DEF Derived, w

LEMMA FreshEvidence ==
  ASSUME NEW run \in Run, NEW files \in SUBSET Path, NEW digest \in {files, None}
  PROVE  LET w == FreshReceipt(run, digest) IN
         /\ w \in Evidence /\ w.run_id = run /\ w.changeset_digest = digest
         /\ w.review = None /\ w.verification = None /\ w.finish = None
         /\ validate_receipt(w)
BY DEF FreshReceipt, Evidence, Digest, validate_receipt

\* Held, what a load returns.
LEMMA HeldEvidence ==
  ASSUME GovernanceTypeInv
  PROVE  /\ Held \in Evidence \cup {None} /\ (Held = None <=> evidence = None)
         /\ Held = None \/ Held = evidence
              \/ (Held.review = None /\ Held.verification = None /\ Held.finish = None)
         /\ Held # None =>
              /\ Held \in Evidence /\ evidence \in Evidence
              /\ Held.run_id = evidence.run_id /\ Held.changeset_digest = evidence.changeset_digest
              /\ validate_receipt(evidence) => Derived(Held, evidence)
<1>1. CASE evidence = None
  BY <1>1 DEF Held, load_receipt
<1>2. CASE evidence # None
  <2>1. evidence \in Evidence
    BY <1>2 DEF GovernanceTypeInv, FilesOK
  <2>2. QED
    BY <1>2, <2>1, LoadEvidence DEF Held
<1>3. QED
  BY <1>1, <1>2

\* What a step appends to the journal.
LEMMA Appended ==
  ASSUME JournalOK, NEW new \in Seq(Event), Appends(new), UNCHANGED bounds
  PROVE  /\ JournalOK'
         /\ \E kept \in Seq(Event) :
              /\ events' = events \o kept /\ (reliable => kept = new)
              /\ \A i \in DOMAIN kept : \E j \in DOMAIN new : kept[i] = new[j]
<1>1. PICK kept \in Kept(new) : events' = events \o kept /\ lost' = (lost \/ kept # new)
  BY DEF Appends
<1>2. /\ kept \in Seq(Event) /\ Len(kept) <= Len(new)
      /\ \A i \in DOMAIN kept : \E j \in DOMAIN new : kept[i] = new[j]
  <2>1. CASE kept = new
    BY <2>1
  <2>2. CASE kept = <<>>
    BY <2>2
  <2>3. ASSUME NEW j \in DOMAIN new, kept = <<new[j]>>
        PROVE  /\ kept \in Seq(Event) /\ Len(kept) <= Len(new)
               /\ \A i \in DOMAIN kept : \E k \in DOMAIN new : kept[i] = new[k]
    BY <2>3
  <2>4. QED
    BY <1>1, <2>1, <2>2, <2>3 DEF Kept
<1>3. reliable => kept = new
  BY <1>1 DEF Kept
<1>4. Len(events') = Len(events) + Len(kept) /\ events' \in Seq(Event)
  BY <1>1, <1>2 DEF JournalOK
<1>5. Len(events') <= room
  <2>1. Len(events) + Len(new) <= room
    BY DEF Appends
  <2>2. Len(events) \in Nat /\ Len(new) \in Nat /\ Len(kept) \in Nat /\ room \in Nat
    BY <1>2, GovernanceBounds DEF JournalOK
  <2>3. QED
    BY <1>2, <1>4, <2>1, <2>2
<1>6. JournalOK'
  BY <1>1, <1>4, <1>5 DEF JournalOK, bounds
<1>7. QED
  BY <1>1, <1>2, <1>3, <1>6

LEMMA ReviewEvents ==
  ASSUME GovernanceTypeInv, NEW r \in Evidence, NEW previous
  PROVE  ReviewEvent(previous, r) \in Seq(Event)
<1>1. CASE review_changed(previous, r)
  <2>1. r.review \in Review
    BY <1>1 DEF review_changed, Evidence
  <2>2. [kind |-> "ChangeSetReviewed", run |-> r.run_id, decision |-> r.review.decision] \in Event
    BY <2>1 DEF Review, Evidence, Event
  <2>3. QED
    BY <1>1, <2>2 DEF ReviewEvent
<1>2. CASE ~ review_changed(previous, r)
  BY <1>2 DEF ReviewEvent
<1>3. QED
  BY <1>1, <1>2

LEMMA Saving ==
  ASSUME GovernanceTypeInv, NEW r \in Evidence, NEW tree, NEW after \in Seq(Event),
         Saves(r, tree, after), UNCHANGED bounds
  PROVE  JournalOK' /\ evidence' \in Evidence /\ validate_receipt(evidence')
<1>1. ReviewEvent(load_receipt(evidence, tree), r) \o after \in Seq(Event)
  BY ReviewEvents
<1>2. QED
  BY <1>1, Appended DEF Saves, GovernanceTypeInv

LEMMA Ticking ==
  ASSUME GovernanceTypeInv, Ticks
  PROVE  clock \in Nat /\ clock' = clock + 1 /\ clock' \in 1 .. MaxClock
BY GovernanceBounds DEF Ticks, GovernanceTypeInv, BoundsOK

----------------------------------------------------------------------------
\* The workers keep the types.

LEMMA RunTypes ==
  ASSUME GovernanceTypeInv, record_orchestration_run \/ FinalizeEvidence
  PROVE  GovernanceTypeInv'
<1>1. CASE record_orchestration_run
  <2>1. PICK run \in Run \ ended, files \in RunFiles :
          /\ ended' = ended \cup {run} /\ ending' = [run |-> run, files |-> files]
          /\ Appends(IF files = {} THEN <<>>
                     ELSE <<[kind |-> "ChangeSetCreated", run |-> run, files |-> files]>>)
    BY <1>1 DEF record_orchestration_run
  <2>2. /\ UNCHANGED <<git, evidence, contract, bindings, clock, checks, main, user_git, bounds>>
    BY <1>1 DEF record_orchestration_run
  <2>3. files \in SUBSET Path
    BY GovernanceAssumption
  <2>4. /\ [kind |-> "ChangeSetCreated", run |-> run, files |-> files] \in Event
        /\ [run |-> run, files |-> files] \in Ending
    BY <2>3 DEF Event, Ending
  <2> DEFINE new == IF files = {} THEN <<>>
                    ELSE <<[kind |-> "ChangeSetCreated", run |-> run, files |-> files]>>
  <2>5. JournalOK'
    <3>1. new \in Seq(Event) /\ Appends(new)
      BY <2>1, <2>4
    <3>2. QED
      BY <2>2, <3>1, Appended DEF GovernanceTypeInv
  <2> HIDE DEF new
  <2>6. ThreadsOK'
    BY <2>1, <2>2, <2>4 DEF GovernanceTypeInv, ThreadsOK
  <2>7. QED
    BY <2>2, <2>5, <2>6 DEF GovernanceTypeInv, GitOK, FilesOK, MainOK, BoundsOK, git
<1>2. CASE FinalizeEvidence
  <2>1. /\ ending \in Ending /\ ending' = None
        /\ evidence' = FreshReceipt(ending.run, IF ending.files = {} THEN None ELSE ending.files)
        /\ UNCHANGED <<git, contract, bindings, events, clock, ended, checks, main, user_git,
                       lost, bounds>>
    BY <1>2 DEF FinalizeEvidence, GovernanceTypeInv, ThreadsOK
  <2>2. evidence' \in Evidence
    BY <2>1, FreshEvidence DEF Ending
  <2>3. QED
    BY <2>1, <2>2 DEF GovernanceTypeInv, GitOK, FilesOK, JournalOK, ThreadsOK, MainOK,
                      BoundsOK, git, bounds
<1>3. QED
  BY <1>1, <1>2

LEMMA ReviewTypes ==
  ASSUME GovernanceTypeInv, NEW decision \in {"accepted", "rejected"}, ReviewRun(decision)
  PROVE  GovernanceTypeInv' /\ evidence' \in Evidence
<1>1. /\ evidence \in Evidence /\ evidence.changeset_digest # None
      /\ UNCHANGED <<base, objects, contract, bindings, clock, worker, main, user_git, bounds>>
  BY DEF ReviewRun, GovernanceTypeInv, FilesOK
<1>2. PICK source \in (IF decision = "accepted" THEN WorkTrees ELSE {objects[base]}) :
        /\ staged' = [p \in Path |-> IF p \in evidence.changeset_digest THEN source[p]
                                     ELSE staged[p]]
        /\ LET r == load_receipt(evidence, staged')
           IN Saves(WithReview(r, decision, r.changeset_digest, staged'), staged', <<>>)
  BY DEF ReviewRun
<1>3. source \in Tree
  BY GovernanceAssumption DEF GovernanceTypeInv, GitOK
<1>4. staged' \in Tree
  BY <1>2, <1>3 DEF Tree, GovernanceTypeInv, GitOK
<1>5. /\ load_receipt(evidence, staged') \in Evidence
      /\ load_receipt(evidence, staged').changeset_digest # None
  BY <1>1, LoadEvidence
<1> DEFINE r == load_receipt(evidence, staged')
           w == WithReview(r, decision, r.changeset_digest, staged')
<1>6. w \in Evidence
  BY <1>4, <1>5, ReviewedEvidence
<1> HIDE DEF w
<1>7. Saves(w, staged', <<>>)
  BY <1>2 DEF w
<1>8. <<>> \in Seq(Event)
  OBVIOUS
<1>9. JournalOK' /\ evidence' \in Evidence
  BY <1>1, <1>6, <1>7, <1>8, Saving
<1>10. QED
  BY <1>1, <1>4, <1>9 DEF GovernanceTypeInv, GitOK, FilesOK, ThreadsOK, MainOK, BoundsOK, worker

LEMMA VerifyTypes ==
  ASSUME GovernanceTypeInv,
         \/ VerificationStarts \/ VerificationSaves \/ VerificationReports \/ VerificationErrs
  PROVE  GovernanceTypeInv'
<1>1. CASE VerificationStarts
  <2>1. /\ Held # None /\ evidence' = Held
        /\ checks' = [at |-> "running", receipt |-> Held, head |-> base, tree |-> staged]
        /\ Appends(<<[kind |-> "VerificationStarted", run |-> Held.run_id]>>)
        /\ UNCHANGED <<git, contract, bindings, clock, ended, ending, main, user_git, bounds>>
    BY <1>1 DEF VerificationStarts
  <2>2. Held \in Evidence /\ Held.run_id \in Run
    BY <2>1, HeldEvidence DEF Evidence
  <2>3. checks' \in Running
    BY <2>1, <2>2 DEF Running, GovernanceTypeInv, GitOK
  <2>4. [kind |-> "VerificationStarted", run |-> Held.run_id] \in Event
    BY <2>2 DEF Event
  <2>5. JournalOK'
    <3>1. <<[kind |-> "VerificationStarted", run |-> Held.run_id]>> \in Seq(Event)
      BY <2>4
    <3>2. QED
      BY <2>1, <3>1, Appended DEF GovernanceTypeInv
  <2>6. QED
    BY <2>1, <2>2, <2>3, <2>5 DEF GovernanceTypeInv, GitOK, FilesOK, ThreadsOK, MainOK,
                                  BoundsOK, git
<1>2. CASE VerificationSaves
  <2>1. /\ checks \in Running /\ Ticks
        /\ UNCHANGED <<git, contract, bindings, ended, ending, main, user_git, bounds>>
    BY <1>2 DEF VerificationSaves, GovernanceTypeInv, ThreadsOK, Running, Reporting
  <2>2. PICK ran \in Suites : \E passed \in SUBSET ran :
          /\ Saves(WithChecks(checks, ran, passed), staged, <<>>)
          /\ checks' = [at |-> "reporting", run |-> checks.receipt.run_id,
                        success |-> ran = passed]
    BY <1>2 DEF VerificationSaves
  <2> PICK passed \in SUBSET ran :
        /\ Saves(WithChecks(checks, ran, passed), staged, <<>>)
        /\ checks' = [at |-> "reporting", run |-> checks.receipt.run_id,
                      success |-> ran = passed]
    BY <2>2
  <2>3. checks' \in Reporting
    BY <2>1 DEF Running, Reporting, Evidence
  <2>4. WithChecks(checks, ran, passed) \in Evidence
    BY <2>1, CheckedEvidence, Ticking
  <2>5. <<>> \in Seq(Event)
    OBVIOUS
  <2>6. JournalOK' /\ evidence' \in Evidence
    BY <2>1, <2>4, <2>5, Saving
  <2>7. QED
    BY <2>1, <2>3, <2>6, Ticking DEF GovernanceTypeInv, GitOK, FilesOK, ThreadsOK, MainOK,
                                     BoundsOK, git
<1>3. CASE VerificationReports \/ VerificationErrs
  <2>1. /\ checks' = None
        /\ UNCHANGED <<git, evidence, contract, bindings, clock, ended, ending, main, user_git,
                       bounds>>
    BY <1>3 DEF VerificationReports, VerificationErrs
  <2>2. \/ UNCHANGED <<events, lost>>
        \/ \E run \in Run, success \in BOOLEAN : Appends(FinishedEvent(run, success))
    BY <1>3 DEF VerificationReports, VerificationErrs, GovernanceTypeInv, ThreadsOK, Running,
                Reporting, Evidence
  <2>3. \A run \in Run, success \in BOOLEAN : FinishedEvent(run, success) \in Seq(Event)
    <3> TAKE run \in Run, success \in BOOLEAN
    <3>1. [kind |-> "VerificationFinished", run |-> run, success |-> success] \in Event
      BY DEF Event
    <3>2. QED
      BY <3>1 DEF FinishedEvent
  <2>4. JournalOK'
    BY <2>1, <2>2, <2>3, Appended DEF GovernanceTypeInv, JournalOK, bounds
  <2>5. QED
    BY <2>1, <2>4 DEF GovernanceTypeInv, GitOK, FilesOK, ThreadsOK, MainOK, BoundsOK, git
<1>4. QED
  BY <1>1, <1>2, <1>3

----------------------------------------------------------------------------
\* The latest of some events.

LEMMA GreatestIndex ==
  ASSUME NEW n \in Nat, NEW T \in SUBSET (1 .. n), T # {}
  PROVE  Max(T) \in T /\ \A y \in T : y <= Max(T)
<1> DEFINE R == OpToRel(<, Nat)
           U == {n - x : x \in T}
<1>1. IsWellFoundedOn(R, Nat)
  BY NatLessThanWellFounded
<1>2. \A x, y \in Nat : <<x, y>> \in R <=> x < y
  BY DEF OpToRel
<1> HIDE DEF R
<1>3. U \in SUBSET Nat /\ U # {}
  <2>1. \A x \in T : x \in 1 .. n /\ n - x \in Nat
    OBVIOUS
  <2>2. QED
    BY <2>1
<1>4. PICK u \in U : \A y \in U : <<y, u>> \notin R
  BY <1>1, <1>3, WFMin
<1>5. PICK x \in T : u = n - x
  BY <1>4
<1>6. \A y \in T : x >= y
  <2> TAKE y \in T
  <2>1. x \in Nat /\ y \in Nat /\ n - y \in U /\ n - y \in Nat /\ n - x \in Nat
    BY <1>3, <1>5
  <2>2. ~ (n - y < n - x)
    BY <1>2, <1>4, <1>5, <2>1
  <2>3. QED
    BY <2>1, <2>2
<1>7. \E z \in T : \A y \in T : z >= y
  BY <1>6
<1>8. Max(T) \in T /\ \A y \in T : Max(T) >= y
  BY <1>7 DEF Max
<1>9. \A y \in T : y <= Max(T)
  BY <1>8
<1>10. QED
  BY <1>8, <1>9

LEMMA LatestEvent ==
  ASSUME JournalOK, NEW T \in SUBSET DOMAIN events, T # {}
  PROVE  /\ Max(T) \in T /\ \A i \in T : i <= Max(T) /\ i \in Nat
         /\ Latest(T) = events[Max(T)] /\ Max(T) \in 1 .. Len(events)
<1>1. DOMAIN events = 1 .. Len(events) /\ Len(events) \in Nat
  BY DEF JournalOK
<1>2. T \in SUBSET (1 .. Len(events))
  BY <1>1
<1>3. Max(T) \in T /\ \A i \in T : i <= Max(T)
  BY <1>1, <1>2, GreatestIndex
<1>4. QED
  BY <1>1, <1>2, <1>3 DEF Latest

\* The ChangeSet that Changes shows is an event of the journal.
LEMMA CurrentChangeSet ==
  ASSUME JournalOK, HasChangeSet
  PROVE  /\ ChangeSetIndex \in Kind("ChangeSetCreated")
         /\ \A i \in Kind("ChangeSetCreated") : i <= ChangeSetIndex
         /\ CurrentRun = events[ChangeSetIndex].run /\ CurrentRun \in Run
         /\ ChangedFiles = events[ChangeSetIndex].files /\ ChangedFiles \in SUBSET Path
<1>1. Kind("ChangeSetCreated") \in SUBSET DOMAIN events /\ Kind("ChangeSetCreated") # {}
  BY DEF Kind, HasChangeSet
<1>2. /\ ChangeSetIndex \in Kind("ChangeSetCreated")
      /\ \A i \in Kind("ChangeSetCreated") : i <= ChangeSetIndex
  BY <1>1, LatestEvent DEF ChangeSetIndex
<1>3. events[ChangeSetIndex] \in Event /\ events[ChangeSetIndex].kind = "ChangeSetCreated"
  BY <1>2 DEF Kind, JournalOK
<1>4. events[ChangeSetIndex].run \in Run /\ events[ChangeSetIndex].files \in SUBSET Path
  BY <1>3 DEF Event
<1>5. QED
  BY <1>2, <1>4 DEF CurrentRun, ChangedFiles

----------------------------------------------------------------------------
\* The main thread keeps the types.

LEMMA ContractTypes ==
  ASSUME GovernanceTypeInv,
         \/ save_active_work_item_contract \/ OverrideReads \/ OverrideAppends
  PROVE  GovernanceTypeInv'
<1>1. CASE save_active_work_item_contract
  <2>1. PICK rules \in Rules : contract' = [rules |-> rules, updated_at |-> clock]
    BY <1>1 DEF save_active_work_item_contract
  <2>2. /\ Ticks /\ Appends(<<[kind |-> "ScopeChanged"]>>)
        /\ UNCHANGED <<git, evidence, bindings, worker, main, user_git, bounds>>
    BY <1>1 DEF save_active_work_item_contract
  <2>3. contract' \in Contract
    BY <2>1, GovernanceBounds DEF Contract, GovernanceTypeInv, BoundsOK
  <2>4. JournalOK'
    <3>1. [kind |-> "ScopeChanged"] \in Event
      BY DEF Event
    <3>2. <<[kind |-> "ScopeChanged"]>> \in Seq(Event)
      BY <3>1
    <3>3. QED
      BY <2>2, <3>2, Appended DEF GovernanceTypeInv
  <2>5. QED
    BY <2>2, <2>3, <2>4, Ticking DEF GovernanceTypeInv, GitOK, FilesOK, ThreadsOK, MainOK,
                                     BoundsOK, git, worker
<1>2. CASE OverrideReads
  <2>1. /\ main.at = "idle" /\ HasChangeSet
        /\ main' = [main EXCEPT !.at = "override", !.run = CurrentRun,
                                !.files = Violating(contract.rules, ChangedFiles)]
        /\ UNCHANGED <<git, evidence, contract, bindings, events, clock, worker, user_git, lost,
                       bounds>>
    BY <1>2 DEF OverrideReads
  <2>2. CurrentRun \in Run /\ CurrentRun # None /\ ChangedFiles \in SUBSET Path
    BY <2>1, CurrentChangeSet, GovernanceBounds DEF GovernanceTypeInv
  <2>3. Violating(contract.rules, ChangedFiles) \in SUBSET Path
    BY <2>2 DEF Violating, ProtectedFiles, OutOfScope
  <2>4. main' \in MainThread /\ main'.at = "override" /\ main'.run # None
    BY <2>1, <2>2, <2>3 DEF MainThread, GovernanceTypeInv, ThreadsOK
  <2>5. MainOK'
    BY <2>4 DEF MainOK
  <2>6. QED
    BY <2>1, <2>4, <2>5 DEF GovernanceTypeInv, GitOK, FilesOK, JournalOK, ThreadsOK, BoundsOK,
                            git, worker, bounds
<1>3. CASE OverrideAppends
  <2>1. /\ main.at = "override" /\ main' = IdleMain
        /\ UNCHANGED <<git, evidence, contract, bindings, worker, user_git, lost, bounds>>
    BY <1>3 DEF OverrideAppends
  <2>2. JournalOK' /\ clock' \in 1 .. MaxClock
    <3>1. CASE UNCHANGED <<events, clock>>
      BY <2>1, <3>1 DEF GovernanceTypeInv, JournalOK, BoundsOK, bounds
    <3>2. CASE /\ Ticks /\ Len(events) < room
               /\ events' = Append(events, [kind |-> "HumanOverride", run |-> main.run,
                                            files |-> main.files, at |-> clock])
      <4>1. main.run \in Run /\ main.files \in SUBSET Path /\ clock \in Nat
        BY <2>1, <3>2, Ticking DEF GovernanceTypeInv, MainOK, ThreadsOK, MainThread
      <4>2. [kind |-> "HumanOverride", run |-> main.run, files |-> main.files, at |-> clock]
              \in Event
        BY <4>1 DEF Event
      <4>3. events' \in Seq(Event) /\ Len(events') = Len(events) + 1
        BY <3>2, <4>2 DEF GovernanceTypeInv, JournalOK
      <4>4. QED
        BY <2>1, <3>2, <4>3, Ticking, GovernanceBounds
           DEF GovernanceTypeInv, JournalOK, bounds
    <3>3. QED
      BY <1>3, <3>1, <3>2 DEF OverrideAppends
  <2>3. QED
    BY <2>1, <2>2, IdleThread DEF GovernanceTypeInv, GitOK, FilesOK, ThreadsOK, BoundsOK, git,
                                  worker
<1>4. QED
  BY <1>1, <1>2, <1>3

LEMMA LinkTypes ==
  ASSUME GovernanceTypeInv, link_active_acceptance_evidence
  PROVE  GovernanceTypeInv'
<1>1. /\ Ticks /\ contract \in Contract /\ Held # None /\ evidence' = Held
      /\ active_verification_is_fresh(Held)
      /\ UNCHANGED <<git, contract, events, worker, main, user_git, lost, bounds>>
  BY DEF link_active_acceptance_evidence, GovernanceTypeInv, FilesOK
<1>2. Held \in Evidence /\ Held.verification \in CheckedVerification
  BY <1>1, HeldEvidence DEF active_verification_is_fresh, Evidence
<1>3. PICK c \in contract.rules.criteria, command \in Held.verification.ran :
        bindings' = OtherLinks(c, Held.run_id) \cup
          {[criterion |-> c, run_id |-> Held.run_id,
            changeset_digest |-> Held.verification.changeset_digest,
            verified_at |-> Held.verification.verified_at, command |-> command,
            linked_at |-> clock]}
  BY DEF link_active_acceptance_evidence
<1> DEFINE binding ==
      [criterion |-> c, run_id |-> Held.run_id,
       changeset_digest |-> Held.verification.changeset_digest,
       verified_at |-> Held.verification.verified_at, command |-> command,
       linked_at |-> clock]
<1>4. binding \in Binding
  <2>1. c \in Criterion
    BY <1>1, GovernanceAssumption DEF Contract, Rule
  <2>2. QED
    BY <1>1, <1>2, <2>1, Ticking DEF Binding, CheckedVerification, Evidence
<1>5. binding.criterion = c /\ binding.run_id = Held.run_id
  OBVIOUS
<1>6. bindings' = OtherLinks(c, Held.run_id) \cup {binding}
  BY <1>3
<1> HIDE DEF binding
<1>7. /\ \A b \in bindings' : b \in Binding
      /\ \A a, b \in bindings' : a.criterion = b.criterion /\ a.run_id = b.run_id => a = b
  BY <1>4, <1>5, <1>6 DEF OtherLinks, GovernanceTypeInv, FilesOK
<1>8. QED
  BY <1>1, <1>2, <1>7, Ticking DEF GovernanceTypeInv, GitOK, FilesOK, JournalOK, ThreadsOK,
                                   MainOK, BoundsOK, git, worker, bounds

LEMMA FinishReads ==
  ASSUME GovernanceTypeInv, FinishLoads \/ FinishAcceptance \/ FinishReloads
  PROVE  GovernanceTypeInv'
<1>1. evidence' = Held /\ evidence' \in Evidence \cup {None}
  BY HeldEvidence DEF FinishLoads, FinishAcceptance, FinishReloads
<1>2. /\ UNCHANGED <<git, contract, bindings, events, clock, worker, user_git, lost, bounds>>
      /\ main \in MainThread
  BY DEF FinishLoads, FinishAcceptance, FinishReloads, GovernanceTypeInv, ThreadsOK
<1>3. main' \in MainThread /\ MainOK'
  <2>1. CASE FinishLoads
    <3>1. /\ Held \in Evidence /\ Held # None
          /\ main' = [main EXCEPT !.at = "acceptance", !.receipt = Held]
      BY <2>1, HeldEvidence DEF FinishLoads
    <3>2. main' \in MainThread /\ main'.at = "acceptance" /\ main'.receipt # None
      BY <1>2, <3>1 DEF MainThread
    <3>3. QED
      BY <3>2 DEF MainOK
  <2>2. CASE FinishAcceptance
    <3>1. /\ main.at = "acceptance"
          /\ \/ main' = [main EXCEPT !.at = "scope",
                                     !.criteria = DOMAIN derive_acceptance_evidence(Held)]
             \/ main' = IdleMain
      BY <2>2 DEF FinishAcceptance
    <3>2. DOMAIN derive_acceptance_evidence(Held) \subseteq Criterion
      BY GovernanceAssumption
         DEF derive_acceptance_evidence, Contract, Rule, GovernanceTypeInv, FilesOK
    <3>3. ASSUME main' = [main EXCEPT !.at = "scope",
                                      !.criteria = DOMAIN derive_acceptance_evidence(Held)]
          PROVE  main' \in MainThread /\ MainOK'
      <4>1. main' \in MainThread /\ main'.at = "scope" /\ main'.receipt = main.receipt
        BY <1>2, <3>2, <3>3 DEF MainThread
      <4>2. QED
        BY <3>1, <4>1 DEF MainOK, GovernanceTypeInv
    <3>4. QED
      BY <3>1, <3>3, IdleThread
  <2>3. CASE FinishReloads
    <3>1. /\ main.at = "reload"
          /\ \/ /\ Held # None /\ Held.run_id = main.receipt.run_id
                /\ main' = [main EXCEPT !.at = "commit", !.saved = Held]
             \/ main' = IdleMain
      BY <2>3 DEF FinishReloads
    <3>2. ASSUME Held # None, Held.run_id = main.receipt.run_id,
                 main' = [main EXCEPT !.at = "commit", !.saved = Held]
          PROVE  main' \in MainThread /\ MainOK'
      <4>1. /\ main' \in MainThread /\ main'.at = "commit" /\ main'.receipt = main.receipt
            /\ main'.saved = Held
        BY <1>2, <3>2, HeldEvidence DEF MainThread
      <4>2. QED
        BY <3>1, <3>2, <4>1 DEF MainOK, GovernanceTypeInv, AcceptedReview
    <3>3. QED
      BY <3>1, <3>2, IdleThread
  <2>4. QED
    BY <2>1, <2>2, <2>3
<1>4. QED
  BY <1>1, <1>2, <1>3 DEF GovernanceTypeInv, GitOK, FilesOK, JournalOK, ThreadsOK, BoundsOK,
                          git, worker, bounds

LEMMA FinishChecks ==
  ASSUME GovernanceTypeInv, FinishScope \/ FinishDecides
  PROVE  GovernanceTypeInv'
<1>1. /\ UNCHANGED <<git, evidence, contract, bindings, events, clock, worker, user_git, lost,
                     bounds>>
      /\ main \in MainThread
  BY DEF FinishScope, FinishDecides, GovernanceTypeInv, ThreadsOK
<1>2. /\ main.at \in {"scope", "decide"}
      /\ \/ /\ AcceptedReview(main.receipt)
            /\ \E at \in {"decide", "reload"} : main' = [main EXCEPT !.at = at]
         \/ main' = IdleMain
  BY DEF FinishScope, FinishDecides, GovernanceTypeInv, MainOK
<1>3. ASSUME AcceptedReview(main.receipt), NEW at \in {"decide", "reload"},
             main' = [main EXCEPT !.at = at]
      PROVE  main' \in MainThread /\ MainOK'
  <2>1. main' \in MainThread /\ main'.at = at /\ main'.receipt = main.receipt
    BY <1>1, <1>3 DEF MainThread
  <2>2. QED
    BY <1>2, <1>3, <2>1 DEF MainOK, GovernanceTypeInv, AcceptedReview
<1>4. main' \in MainThread /\ MainOK'
  BY <1>2, <1>3, IdleThread
<1>5. QED
  BY <1>1, <1>4 DEF GovernanceTypeInv, GitOK, FilesOK, JournalOK, ThreadsOK, BoundsOK,
                    git, worker, bounds

LEMMA IndexCommitted ==
  ASSUME GitOK, NEW commit \in Commit, CommitsIndex(commit), UNCHANGED staged
  PROVE  /\ GitOK' /\ DOMAIN objects \subseteq DOMAIN objects'
         /\ \A c \in DOMAIN objects : objects'[c] = objects[c]
         /\ commit \in DOMAIN objects' /\ objects'[commit] = staged
BY DEF GitOK, CommitsIndex

LEMMA FinishWrites ==
  ASSUME GovernanceTypeInv, GitCommits \/ FinishRecords
  PROVE  GovernanceTypeInv'
<1>1. main \in MainThread
  BY DEF GovernanceTypeInv, ThreadsOK
<1>2. CASE GitCommits
  <2>1. /\ main.at = "commit"
        /\ UNCHANGED <<staged, evidence, contract, bindings, events, clock, worker, user_git,
                       lost, bounds>>
    BY <1>2 DEF GitCommits
  <2>2. CASE UNCHANGED git /\ main' = IdleMain
    BY <2>1, <2>2, IdleThread DEF GovernanceTypeInv, GitOK, FilesOK, JournalOK, ThreadsOK,
                                  BoundsOK, git, worker, bounds
  <2>3. ASSUME NEW commit \in Commit, CommitsIndex(commit),
               \/ main' = [main EXCEPT !.at = "record", !.commit = commit]
               \/ main' = IdleMain
        PROVE  GovernanceTypeInv'
    <3>1. GitOK'
      BY <2>1, <2>3, IndexCommitted DEF GovernanceTypeInv
    <3>2. ASSUME main' = [main EXCEPT !.at = "record", !.commit = commit]
          PROVE  main' \in MainThread /\ MainOK'
      <4>1. /\ main' \in MainThread /\ main'.at = "record" /\ main'.commit = commit
            /\ main'.receipt = main.receipt /\ main'.saved = main.saved
        BY <1>1, <3>2 DEF MainThread
      <4>2. QED
        BY <2>1, <4>1, GovernanceBounds DEF MainOK, GovernanceTypeInv, AcceptedReview
    <3>3. main' \in MainThread /\ MainOK'
      BY <2>3, <3>2, IdleThread
    <3>4. QED
      BY <2>1, <3>1, <3>3 DEF GovernanceTypeInv, FilesOK, JournalOK, ThreadsOK, BoundsOK,
                              worker, bounds
  <2>4. QED
    BY <1>2, <2>2, <2>3 DEF GitCommits
<1>3. CASE FinishRecords
  <2> DEFINE r == WithFinish(main.saved, main.commit, main.receipt.review.reviewed_paths)
  <2>1. /\ main' = IdleMain
        /\ UNCHANGED <<git, contract, bindings, clock, worker, user_git, bounds>>
        /\ \/ Saves(r, staged, <<[kind |-> "CommitCreated", run |-> r.run_id]>>)
           \/ UNCHANGED <<evidence, events, lost>>
    BY <1>3 DEF FinishRecords
  <2>2. /\ main.saved \in Evidence /\ main.commit \in Commit
        /\ main.receipt \in Evidence /\ main.receipt.review \in Review
    BY <1>1, <1>3 DEF FinishRecords, MainThread, MainOK, GovernanceTypeInv, AcceptedReview,
                      Evidence
  <2>3. r \in Evidence
    BY <2>2, FinishedEvidence DEF Review
  <2> HIDE DEF r
  <2>4. <<[kind |-> "CommitCreated", run |-> r.run_id]>> \in Seq(Event)
    <3>1. [kind |-> "CommitCreated", run |-> r.run_id] \in Event
      BY <2>3 DEF Event, Evidence
    <3>2. QED
      BY <3>1
  <2>5. JournalOK' /\ evidence' \in Evidence \cup {None}
    BY <2>1, <2>3, <2>4, Saving DEF GovernanceTypeInv, JournalOK, FilesOK, bounds
  <2>6. QED
    BY <2>1, <2>5, IdleThread DEF GovernanceTypeInv, GitOK, FilesOK, ThreadsOK, BoundsOK, git,
                                  worker
<1>4. QED
  BY <1>2, <1>3

LEMMA UserTypes ==
  ASSUME GovernanceTypeInv, Polls \/ UserStages \/ UserCommits
  PROVE  GovernanceTypeInv'
<1>1. CASE Polls
  <2>1. evidence' = Held /\ evidence' \in Evidence \cup {None}
    BY <1>1, HeldEvidence DEF Polls
  <2>2. QED
    BY <1>1, <2>1 DEF Polls, GovernanceTypeInv, GitOK, FilesOK, JournalOK, ThreadsOK, MainOK,
                      BoundsOK, git, worker, bounds
<1>2. CASE UserStages \/ UserCommits
  <2>1. /\ user_git > 0 /\ user_git' = user_git - 1
        /\ UNCHANGED <<evidence, contract, bindings, events, clock, worker, main, lost, bounds>>
    BY <1>2 DEF UserStages, UserCommits
  <2>2. user_git' \in 0 .. MaxUserGit
    BY <2>1, GovernanceBounds DEF GovernanceTypeInv, BoundsOK
  <2>3. GitOK'
    <3>1. CASE UserStages
      <4>1. staged' \in Tree
        BY <3>1 DEF UserStages, Tree, GovernanceTypeInv, GitOK
      <4>2. QED
        BY <3>1, <4>1 DEF UserStages, GovernanceTypeInv, GitOK
    <3>2. CASE UserCommits
      BY <3>2, IndexCommitted DEF UserCommits, GovernanceTypeInv
    <3>3. QED
      BY <1>2, <3>1, <3>2
  <2>4. QED
    BY <2>1, <2>2, <2>3 DEF GovernanceTypeInv, FilesOK, JournalOK, ThreadsOK, MainOK,
                            BoundsOK, worker, bounds
<1>3. QED
  BY <1>1, <1>2

LEMMA GovernanceTypesKept ==
  ASSUME GovernanceTypeInv, [GovernanceNext]_governanceVars
  PROVE  GovernanceTypeInv'
<1>1. CASE UNCHANGED governanceVars
  BY <1>1 DEF governanceVars, git, worker, bounds, GovernanceTypeInv, GitOK, FilesOK, JournalOK,
              ThreadsOK, MainOK, BoundsOK
<1>2. QED
  BY <1>1, RunTypes, ReviewTypes, VerifyTypes, ContractTypes, LinkTypes, FinishReads,
     FinishChecks, FinishWrites, UserTypes DEF GovernanceNext

----------------------------------------------------------------------------
\* The receipts that a thread or the file holds, and what is true of each.

Live ==
  ({evidence, main.receipt, main.saved}
     \cup IF checks # None /\ checks.at = "running" THEN {checks.receipt} ELSE {}) \ {None}

Sound(r) ==
  /\ validate_receipt(r) /\ r.run_id \in ended
  /\ r.review # None =>
       r.changeset_digest # None /\ r.review.reviewed_paths = r.changeset_digest
  /\ r.verification # None => r.verification.verified_at < clock

\* A time names one verification.
ReceiptsInv ==
  /\ \A r \in Live : Sound(r)
  /\ \A r, s \in Live :
       /\ r.verification # None /\ s.verification # None
       /\ r.verification.verified_at = s.verification.verified_at
       => r.verification = s.verification

TimesInv ==
  /\ contract # None => contract.updated_at < clock
  /\ \A b \in bindings : b.linked_at < clock /\ b.verified_at < clock
  /\ checks # None => CheckedRun \in ended
  /\ ending # None => ending.run \in ended
  /\ \A i \in Kind("HumanOverride") : events[i].at < clock

\* A link that is of the verification a thread holds is in the history with its tree.
LinkOf(b, v) ==
  [criterion |-> b.criterion, run |-> b.run_id, tree |-> v.index_tree_sha,
   passed |-> b.command \in v.passed]
LinksInv ==
  \A r \in Live, b \in bindings :
    /\ r.verification # None /\ b.run_id = r.run_id
    /\ b.verified_at = r.verification.verified_at
    => LinkOf(b, r.verification) \in linked

\* A ChangeSet in the journal is the one of its run.
ChangeSetsInv ==
  \A i \in Kind("ChangeSetCreated") :
    /\ events[i].run \in ended /\ events[i].files # {}
    /\ \A j \in Kind("ChangeSetCreated") : events[i].run = events[j].run => i = j
    /\ \A r \in Live : r.run_id = events[i].run => r.changeset_digest = events[i].files
    /\ ending # None /\ ending.run = events[i].run => ending.files = events[i].files

\* A human who overrides has seen what this contract says of this ChangeSet.
OverridesInv ==
  /\ \A i \in Kind("HumanOverride") : \E j \in Kind("ChangeSetCreated") :
       /\ j < i /\ events[j].run = events[i].run
       /\ contract # None /\ events[i].at >= contract.updated_at
            => events[i].files = Violating(contract.rules, events[j].files)
  /\ main.at = "override" =>
       /\ contract # None
       /\ \E j \in Kind("ChangeSetCreated") :
            /\ events[j].run = main.run
            /\ main.files = Violating(contract.rules, events[j].files)

\* What Finish counted as proven.
AcceptanceInv ==
  /\ main.at = "acceptance" /\ evidence # None /\ evidence.verification # None =>
       \A b \in bindings :
         b.verified_at = evidence.verification.verified_at
           => evidence.verification = main.receipt.verification
  /\ main.at \in {"scope", "decide", "reload", "commit", "record"} =>
       \A c \in main.criteria :
         /\ main.receipt.verification # None
         /\ [criterion |-> c, run |-> main.receipt.run_id,
             tree |-> main.receipt.verification.index_tree_sha, passed |-> TRUE] \in linked
  /\ main.at = "record" =>
       /\ main.commit \in DOMAIN objects
       /\ objects[main.commit] = main.receipt.review.index_tree_after_accept

\* While no append fails, the journal follows the receipt and the contract.
ReviewTold ==
  \A run \in Run :
    /\ evidence # None /\ evidence.run_id = run /\ evidence.review # None
    => derive_review_state(run) = evidence.review.decision
CommitTold ==
  \A run \in Run :
    /\ evidence # None /\ evidence.run_id = run /\ evidence.finish # None
    => KindOf("CommitCreated", run) # {}
VerificationTold ==
  \A run \in Run :
    /\ checks # None /\ CheckedRun = run => derive_verification(run) = "running"
    /\ /\ evidence # None /\ evidence.run_id = run
       /\ evidence.verification # None /\ evidence.finish = None
       => /\ derive_verification(run) = "passed" => evidence.verification.success
          /\ checks # None /\ checks.at = "reporting" /\ checks.run = run
               => evidence.verification.success = checks.success
ContractTold ==
  contract # None =>
    \A i \in Kind("HumanOverride") :
      events[i].at >= contract.updated_at <=> \A s \in Kind("ScopeChanged") : s < i
ToldInv ==
  reliable => ReviewTold /\ CommitTold /\ VerificationTold /\ ContractTold

LEMMA LiveTypes ==
  ASSUME GovernanceTypeInv
  PROVE  /\ \A r \in Live : r \in Evidence /\ r # None
         /\ evidence # None => evidence \in Live
         /\ main.receipt # None => main.receipt \in Live
         /\ main.saved # None => main.saved \in Live
         /\ checks \in Running => checks.receipt \in Live
<1>1. /\ evidence \in Evidence \cup {None} /\ main.receipt \in Evidence \cup {None}
      /\ main.saved \in Evidence \cup {None} /\ checks \in Running \cup Reporting \cup {None}
  BY DEF GovernanceTypeInv, FilesOK, ThreadsOK, MainThread
<1>2. checks # None /\ checks.at = "running" => checks \in Running
  BY <1>1 DEF Reporting
<1>3. \A c \in Running : c # None /\ c.at = "running" /\ c.receipt \in Evidence
  BY GovernanceNoneAssumption DEF Running
<1>4. QED
  BY <1>1, <1>2, <1>3, GovernanceNoneAssumption DEF Live

LEMMA DerivedSelf ==
  ASSUME NEW r \in Evidence, validate_receipt(r)
  PROVE  Derived(r, r)
BY DEF Derived

LEMMA DerivedThrough ==
  ASSUME NEW r, NEW s, NEW t, Derived(r, s), Derived(s, t)
  PROVE  Derived(r, t)
BY DEF Derived

LEMMA HeldIsLive ==
  ASSUME GovernanceTypeInv, ReceiptsInv, Held # None
  PROVE  evidence \in Live /\ evidence \in Evidence /\ evidence # None /\ Derived(Held, evidence)
BY HeldEvidence, LiveTypes DEF ReceiptsInv, Sound

\* The threads hold what they held, or what a load returned.
LEMMA ThreadsHold ==
  ASSUME GovernanceTypeInv, ReceiptsInv,
         main'.receipt \in {main.receipt, Held, None}, main'.saved \in {main.saved, Held, None},
         checks' = checks \/ checks' = None \/ checks'.at # "running" \/ checks'.receipt = Held
  PROVE  \A r \in Live' : r = evidence' \/ \E s \in Live : Derived(r, s)
<1> SUFFICES ASSUME NEW r \in Live', r # evidence'
             PROVE  \E s \in Live : Derived(r, s)
  OBVIOUS
<1>1. r # None /\ (r = Held \/ r \in Live)
  BY DEF Live
<1>2. CASE r = Held
  BY <1>1, <1>2, HeldIsLive
<1>3. CASE r \in Live
  BY <1>3, LiveTypes, DerivedSelf DEF ReceiptsInv, Sound
<1>4. QED
  BY <1>1, <1>2, <1>3

LEMMA FileHolds ==
  ASSUME GovernanceTypeInv, ReceiptsInv, evidence' \in {evidence, Held}, evidence' # None
  PROVE  \E s \in Live : Derived(evidence', s)
<1>1. evidence # None
  BY HeldEvidence
<1>2. evidence \in Live /\ Derived(evidence, evidence)
  BY <1>1, LiveTypes, DerivedSelf DEF ReceiptsInv, Sound
<1>3. QED
  BY <1>2, HeldIsLive

\* A receipt that a thread or the file comes to hold is derived from one that was held,
\* unless a run ends or checks do.
LEMMA ReviewSaves ==
  ASSUME GovernanceTypeInv, ReceiptsInv, NEW decision \in {"accepted", "rejected"},
         ReviewRun(decision)
  PROVE  /\ evidence \in Live /\ Derived(evidence', evidence)
         /\ evidence'.verification = None /\ evidence'.finish = None
<1>1. /\ evidence \in Evidence /\ evidence # None /\ evidence.changeset_digest # None
      /\ staged' \in Tree
  <2>1. PICK source \in (IF decision = "accepted" THEN WorkTrees ELSE {objects[base]}) :
          staged' = [p \in Path |-> IF p \in evidence.changeset_digest THEN source[p]
                                    ELSE staged[p]]
    BY DEF ReviewRun
  <2>2. source \in Tree
    BY GovernanceAssumption DEF GovernanceTypeInv, GitOK
  <2>3. staged' \in Tree
    BY <2>1, <2>2 DEF Tree, GovernanceTypeInv, GitOK
  <2>4. QED
    BY <2>3 DEF ReviewRun, GovernanceTypeInv, FilesOK
<1> DEFINE r == load_receipt(evidence, staged')
           w == WithReview(r, decision, r.changeset_digest, staged')
<1>2. evidence \in Live /\ validate_receipt(evidence)
  BY <1>1, LiveTypes DEF ReceiptsInv, Sound
<1>3. r \in Evidence /\ r.changeset_digest # None /\ Derived(r, evidence)
  BY <1>1, <1>2, LoadEvidence
<1>4. Derived(w, r) /\ w.verification = None /\ w.finish = None
  BY <1>1, <1>3, ReviewedEvidence
<1>5. evidence' = w
  BY DEF ReviewRun, Saves
<1> HIDE DEF w, r
<1>6. QED
  BY <1>2, <1>3, <1>4, <1>5, DerivedThrough

LEMMA FinishSaves ==
  ASSUME GovernanceTypeInv, ReceiptsInv, FinishRecords
  PROVE  \/ UNCHANGED <<evidence, events, lost>>
         \/ main.saved \in Live /\ Derived(evidence', main.saved) /\ evidence'.finish # None
<1> DEFINE w == WithFinish(main.saved, main.commit, main.receipt.review.reviewed_paths)
<1>1. main.saved \in Evidence /\ main.saved # None /\ main.commit \in Commit
      /\ main.receipt.review.reviewed_paths \in SUBSET Path
  BY DEF FinishRecords, GovernanceTypeInv, ThreadsOK, MainThread, MainOK, AcceptedReview,
         Evidence, Review
<1>2. main.saved \in Live /\ validate_receipt(main.saved)
  BY <1>1, LiveTypes DEF ReceiptsInv, Sound
<1>3. Derived(w, main.saved) /\ w.finish # None
  BY <1>1, <1>2, FinishedEvidence
<1>4. evidence' = w \/ UNCHANGED <<evidence, events, lost>>
  BY DEF FinishRecords, Saves
<1> HIDE DEF w
<1>5. QED
  BY <1>2, <1>3, <1>4

LEMMA RunSaves ==
  ASSUME GovernanceTypeInv, FinalizeEvidence
  PROVE  /\ ending \in Ending /\ ending # None /\ evidence' \in Evidence /\ evidence'.run_id = ending.run
         /\ evidence'.changeset_digest = (IF ending.files = {} THEN None ELSE ending.files)
         /\ evidence'.review = None /\ evidence'.verification = None /\ evidence'.finish = None
         /\ validate_receipt(evidence')
<1>1. /\ ending \in Ending /\ ending # None
      /\ evidence' = FreshReceipt(ending.run, IF ending.files = {} THEN None ELSE ending.files)
  BY DEF FinalizeEvidence, GovernanceTypeInv, ThreadsOK
<1>2. QED
  BY <1>1, FreshEvidence DEF Ending

LEMMA ChecksSave ==
  ASSUME GovernanceTypeInv, VerificationSaves
  PROVE  /\ checks \in Running /\ checks.receipt \in Live /\ evidence' \in Evidence
         /\ clock \in Nat /\ clock' = clock + 1
         /\ evidence'.finish = None /\ evidence'.review = checks.receipt.review
         /\ evidence'.run_id = checks.receipt.run_id
         /\ evidence'.changeset_digest = checks.receipt.changeset_digest
         /\ evidence'.verification # None /\ evidence'.verification.verified_at = clock
         /\ evidence'.verification.success = checks'.success
         /\ checks' \in Reporting /\ checks' # None
         /\ checks'.at = "reporting" /\ checks'.run = checks.receipt.run_id
         /\ validate_receipt(evidence')
<1>1. checks \in Running /\ Ticks
  BY DEF VerificationSaves, GovernanceTypeInv, ThreadsOK, Running, Reporting
<1>2. clock \in Nat /\ clock' = clock + 1
  BY <1>1, Ticking
<1>3. PICK ran \in Suites : \E passed \in SUBSET ran :
        /\ Saves(WithChecks(checks, ran, passed), staged, <<>>)
        /\ checks' = [at |-> "reporting", run |-> checks.receipt.run_id,
                      success |-> ran = passed]
  BY DEF VerificationSaves
<1>4. PICK passed \in SUBSET ran :
        /\ Saves(WithChecks(checks, ran, passed), staged, <<>>)
        /\ checks' = [at |-> "reporting", run |-> checks.receipt.run_id,
                      success |-> ran = passed]
  BY <1>3
<1>5. evidence' = WithChecks(checks, ran, passed) /\ validate_receipt(evidence')
  BY <1>4 DEF Saves
<1>6. checks' \in Reporting /\ checks' # None
  <2>1. checks.receipt.run_id \in Run /\ (ran = passed) \in BOOLEAN
    BY <1>1 DEF Running, Evidence
  <2>2. checks' \in Reporting
    BY <1>4, <2>1 DEF Reporting
  <2>3. QED
    BY <2>2, GovernanceNoneAssumption
<1>7. QED
  BY <1>1, <1>2, <1>4, <1>5, <1>6, CheckedEvidence, LiveTypes

LEMMA LiveReceipts ==
  ASSUME GovernanceTypeInv, ReceiptsInv, [GovernanceNext]_governanceVars, NEW r \in Live'
  PROVE  \/ \E s \in Live : Derived(r, s)
         \/ FinalizeEvidence /\ r = evidence'
         \/ VerificationSaves /\ r = evidence'
<1>1. r # None
  BY DEF Live
<1>2. /\ main'.receipt \in {main.receipt, Held, None} /\ main'.saved \in {main.saved, Held, None}
      /\ checks' = checks \/ checks' = None \/ checks'.at # "running" \/ checks'.receipt = Held
  <2>1. CASE UNCHANGED <<main, checks>>
    BY <2>1
  <2>2. CASE VerificationStarts \/ VerificationSaves \/ VerificationReports \/ VerificationErrs
    <3>1. main' = main
      BY <2>2 DEF VerificationStarts, VerificationSaves, VerificationReports, VerificationErrs
    <3>2. CASE VerificationStarts
      BY <3>1, <3>2 DEF VerificationStarts
    <3>3. CASE VerificationSaves
      BY <3>1, <3>3, ChecksSave
    <3>4. CASE VerificationReports \/ VerificationErrs
      BY <3>1, <3>4 DEF VerificationReports, VerificationErrs
    <3>5. QED
      BY <2>2, <3>2, <3>3, <3>4
  <2>3. CASE \/ OverrideReads \/ FinishLoads \/ FinishAcceptance \/ FinishScope \/ FinishDecides
             \/ FinishReloads \/ GitCommits
    <3>1. /\ checks' = checks
          /\ \/ main' = IdleMain
             \/ \E at : main' = [main EXCEPT !.at = at]
             \/ \E run, files :
                  main' = [main EXCEPT !.at = "override", !.run = run, !.files = files]
             \/ \E criteria : main' = [main EXCEPT !.at = "scope", !.criteria = criteria]
             \/ \E commit : main' = [main EXCEPT !.at = "record", !.commit = commit]
             \/ main' = [main EXCEPT !.at = "acceptance", !.receipt = Held]
             \/ main' = [main EXCEPT !.at = "commit", !.saved = Held]
      BY <2>3 DEF OverrideReads, FinishLoads, FinishAcceptance, FinishScope, FinishDecides,
                  FinishReloads, GitCommits, worker
    <3>2. main \in MainThread
      BY DEF GovernanceTypeInv, ThreadsOK
    <3>3. ASSUME main' # IdleMain
          PROVE  main'.receipt \in {main.receipt, Held} /\ main'.saved \in {main.saved, Held}
      BY <3>1, <3>2, <3>3 DEF MainThread
    <3>4. QED
      BY <3>1, <3>3, IdleThread
  <2>4. CASE OverrideAppends \/ FinishRecords
    BY <2>4, IdleThread DEF OverrideAppends, FinishRecords, worker
  <2>5. QED
    BY <2>1, <2>2, <2>3, <2>4 DEF GovernanceNext, governanceVars, worker,
       record_orchestration_run, FinalizeEvidence, ReviewRun, save_active_work_item_contract,
       link_active_acceptance_evidence, Polls, UserStages, UserCommits
<1>3. CASE r # evidence'
  BY <1>2, <1>3, ThreadsHold
<1>4. CASE r = evidence' /\ evidence' \in {evidence, Held}
  BY <1>1, <1>4, FileHolds
<1>5. CASE r = evidence' /\ evidence' \notin {evidence, Held}
  <2>1. \/ FinalizeEvidence \/ VerificationSaves \/ FinishRecords
        \/ \E decision \in {"accepted", "rejected"} : ReviewRun(decision)
    BY <1>5 DEF GovernanceNext, governanceVars, record_orchestration_run, VerificationStarts,
       VerificationReports, VerificationErrs, save_active_work_item_contract, OverrideReads,
       OverrideAppends, link_active_acceptance_evidence, FinishLoads, FinishAcceptance,
       FinishScope, FinishDecides, FinishReloads, GitCommits, Polls, UserStages, UserCommits
  <2>2. QED
    BY <1>5, <2>1, ReviewSaves, FinishSaves
<1>6. QED
  BY <1>3, <1>4, <1>5

----------------------------------------------------------------------------
\* What a step may do to clock, histories and journal.

LEMMA Growing ==
  ASSUME GovernanceTypeInv, [GovernanceNext]_governanceVars
  PROVE  /\ clock \in Nat /\ clock' \in Nat /\ clock <= clock'
         /\ ended \subseteq ended' /\ linked \subseteq linked'
         /\ reliable' = reliable
<1>1. clock \in Nat
  BY GovernanceBounds DEF GovernanceTypeInv, BoundsOK
<1>2. clock' = clock \/ clock' = clock + 1
  BY DEF GovernanceNext, governanceVars, git, worker, bounds, Ticks, record_orchestration_run,
     FinalizeEvidence, ReviewRun, VerificationStarts, VerificationSaves, VerificationReports,
     VerificationErrs, save_active_work_item_contract, OverrideReads, OverrideAppends,
     link_active_acceptance_evidence, FinishLoads, FinishAcceptance, FinishScope,
     FinishDecides, FinishReloads, GitCommits, FinishRecords, Polls, UserStages, UserCommits
<1>3. /\ ended \subseteq ended' /\ linked \subseteq linked'
      /\ reliable' = reliable
  BY DEF GovernanceNext, governanceVars, git, worker, bounds, record_orchestration_run,
     FinalizeEvidence, ReviewRun, VerificationStarts, VerificationSaves, VerificationReports,
     VerificationErrs, save_active_work_item_contract, OverrideReads, OverrideAppends,
     link_active_acceptance_evidence, FinishLoads, FinishAcceptance, FinishScope,
     FinishDecides, FinishReloads, GitCommits, FinishRecords, Polls, UserStages, UserCommits
<1>4. QED
  BY <1>1, <1>2, <1>3

IsNew(i) == i \in DOMAIN events' \ DOMAIN events
JournalGrows ==
  /\ \A i \in DOMAIN events : i \in DOMAIN events' /\ events'[i] = events[i]
  /\ \A i : IsNew(i) => i \in Nat /\ \A j \in DOMAIN events : j < i

LEMMA AppendedEvents ==
  ASSUME JournalOK, NEW new \in Seq(Event), Appends(new), UNCHANGED bounds
  PROVE  /\ JournalGrows
         /\ \A i : IsNew(i) => \E k \in DOMAIN new : events'[i] = new[k]
         /\ Len(new) = 1 => \A i : IsNew(i) => i = Len(events) + 1
         /\ reliable => \A i : IsNew(i) =>
              i - Len(events) \in DOMAIN new /\ events'[i] = new[i - Len(events)]
         /\ reliable => \A k \in DOMAIN new :
              IsNew(Len(events) + k) /\ events'[Len(events) + k] = new[k]
<1>1. PICK kept \in Seq(Event) :
        /\ events' = events \o kept /\ (reliable => kept = new)
        /\ \A i \in DOMAIN kept : \E j \in DOMAIN new : kept[i] = new[j]
  BY Appended
<1>2. events \in Seq(Event) /\ Len(events) \in Nat /\ Len(kept) \in Nat
  BY DEF JournalOK
<1>3. /\ DOMAIN events = 1 .. Len(events) /\ DOMAIN kept = 1 .. Len(kept)
      /\ DOMAIN events' = 1 .. Len(events) + Len(kept)
      /\ \A i \in DOMAIN events : events'[i] = events[i]
      /\ \A i \in 1 .. Len(events) + Len(kept) :
           i > Len(events) => events'[i] = kept[i - Len(events)]
  BY <1>1, <1>2
<1>4. Len(new) = 1 => Len(kept) <= 1
  <2>1. \E k \in Kept(new) : events' = events \o k
    BY DEF Appends
  <2>2. ASSUME Len(new) = 1, NEW k \in Kept(new)
        PROVE  k \in Seq(Event) /\ Len(k) <= 1
    <3>1. k = new \/ k = <<>> \/ \E i \in DOMAIN new : k = <<new[i]>>
      BY DEF Kept
    <3>2. ASSUME NEW i \in DOMAIN new, k = <<new[i]>>
          PROVE  k \in Seq(Event) /\ Len(k) <= 1
      BY <3>2
    <3>3. CASE k = <<>>
      BY <3>3
    <3>4. CASE k = new
      <4>1. Len(new) = 1 /\ 1 <= 1
        BY <2>2
      <4>2. QED
        BY <3>4, <4>1
    <3>5. QED
      BY <3>1, <3>2, <3>3, <3>4
  <2>3. ASSUME NEW k \in Seq(Event), events' = events \o k
        PROVE  Len(k) = Len(kept)
    <3>1. Len(events') = Len(events) + Len(k)
      BY <1>2, <2>3
    <3>2. Len(events') = Len(events) + Len(kept) /\ Len(k) \in Nat
      BY <1>1, <1>2
    <3>3. QED
      BY <1>2, <3>1, <3>2
  <2>4. QED
    BY <2>1, <2>2, <2>3
<1>5. \A i : IsNew(i) => /\ i \in 1 .. Len(events) + Len(kept) /\ i > Len(events)
                         /\ i - Len(events) \in DOMAIN kept /\ events'[i] = kept[i - Len(events)]
  BY <1>2, <1>3 DEF IsNew
<1>6. JournalGrows
  BY <1>2, <1>3, <1>5 DEF JournalGrows
<1>7. \A i : IsNew(i) => \E k \in DOMAIN new : events'[i] = new[k]
  BY <1>1, <1>5
<1>8. Len(new) = 1 => \A i : IsNew(i) => i = Len(events) + 1
  BY <1>2, <1>4, <1>5
<1>9. reliable => \A k \in DOMAIN new :
              IsNew(Len(events) + k) /\ events'[Len(events) + k] = new[k]
  <2> SUFFICES ASSUME reliable, NEW k \in DOMAIN kept
               PROVE  IsNew(Len(events) + k) /\ events'[Len(events) + k] = kept[k]
    BY <1>1
  <2>1. k \in 1 .. Len(kept) /\ Len(events) + k > Len(events)
    BY <1>2, <1>3
  <2>2. QED
    BY <1>2, <1>3, <2>1 DEF IsNew
<1>10. reliable => \A i : IsNew(i) =>
              i - Len(events) \in DOMAIN new /\ events'[i] = new[i - Len(events)]
  BY <1>1, <1>5
<1>11. QED
  BY <1>6, <1>7, <1>8, <1>9, <1>10

LEMMA JournalStill ==
  ASSUME events' = events
  PROVE  JournalGrows /\ \A i : ~ IsNew(i)
BY DEF JournalGrows, IsNew

\* Which step appends which event.
Told(e) ==
  /\ e.kind = "ChangeSetCreated" =>
       /\ e.run \notin ended /\ e.run \in ended' /\ e.files # {}
       /\ ending' = [run |-> e.run, files |-> e.files] /\ evidence' = evidence
  /\ e.kind = "HumanOverride" =>
       /\ main.at = "override" /\ e.run = main.run /\ e.files = main.files
       /\ e.at = clock /\ clock' = clock + 1
  /\ e.kind = "ScopeChanged" => save_active_work_item_contract
  /\ e.kind = "VerificationStarted" => VerificationStarts /\ e.run = Held.run_id
  /\ e.kind = "VerificationFinished" =>
       /\ VerificationReports \/ VerificationErrs
       /\ e.run = CheckedRun /\ (VerificationReports => e.success = checks.success)
       /\ VerificationErrs => ~ e.success

Brought ==
  /\ JournalGrows
  /\ \A i : IsNew(i) => Told(events'[i])
  /\ \A i, j : IsNew(i) /\ IsNew(j)
       /\ events'[i].kind \in {"ChangeSetCreated", "HumanOverride"} => i = j

LEMMA RunTold ==
  ASSUME GovernanceTypeInv, record_orchestration_run
  PROVE  Brought /\ \A i : IsNew(i) => events'[i].kind = "ChangeSetCreated"
<1>1. PICK run \in Run \ ended, files \in RunFiles :
        /\ ended' = ended \cup {run} /\ ending' = [run |-> run, files |-> files]
        /\ Appends(IF files = {} THEN <<>>
                   ELSE <<[kind |-> "ChangeSetCreated", run |-> run, files |-> files]>>)
  BY DEF record_orchestration_run
<1>2. UNCHANGED bounds /\ evidence' = evidence
  BY DEF record_orchestration_run
<1> DEFINE e == [kind |-> "ChangeSetCreated", run |-> run, files |-> files]
           new == IF files = {} THEN <<>> ELSE <<e>>
<1>3. e \in Event
  BY GovernanceAssumption DEF Event
<1>4. e.kind = "ChangeSetCreated" /\ e.run = run /\ e.files = files
  OBVIOUS
<1>5. Appends(new)
  BY <1>1
<1> HIDE DEF e
<1>6. /\ new \in Seq(Event) /\ (Len(new) = 1 \/ new = <<>>)
      /\ \A k \in DOMAIN new : new[k] = e /\ files # {}
  BY <1>3
<1> HIDE DEF new
<1>7. /\ JournalGrows /\ \A i : IsNew(i) => \E k \in DOMAIN new : events'[i] = new[k]
      /\ Len(new) = 1 => \A i : IsNew(i) => i = Len(events) + 1
  BY <1>2, <1>5, <1>6, AppendedEvents DEF GovernanceTypeInv
<1>8. \A i : IsNew(i) => events'[i] = e /\ files # {} /\ i = Len(events) + 1
  BY <1>6, <1>7
<1>9. Told(e) \/ files = {}
  BY <1>1, <1>2, <1>4 DEF Told
<1>10. QED
  BY <1>4, <1>7, <1>8, <1>9 DEF Brought

\* An event of no consequence here, alone or with another.
LEMMA ReviewTellsNothing ==
  ASSUME GovernanceTypeInv, NEW r \in Evidence, NEW tree, NEW after \in Seq(Event),
         Saves(r, tree, after), UNCHANGED bounds,
         \A k \in DOMAIN after : after[k].kind = "CommitCreated"
  PROVE  /\ Brought
         /\ \A i : IsNew(i) => events'[i].kind \in {"ChangeSetReviewed", "CommitCreated"}
<1> DEFINE told == ReviewEvent(load_receipt(evidence, tree), r)
           new == told \o after
<1>1. told \in Seq(Event)
  BY ReviewEvents
<1>2. \A k \in DOMAIN told : told[k].kind = "ChangeSetReviewed"
  BY DEF ReviewEvent
<1>3. Appends(new)
  BY DEF Saves
<1> HIDE DEF told
<1>4. new \in Seq(Event)
  BY <1>1
<1>5. \A k \in DOMAIN new : \/ k \in DOMAIN told /\ new[k] = told[k]
                            \/ \E l \in DOMAIN after : new[k] = after[l]
  <2> TAKE k \in DOMAIN new
  <2>1. /\ Len(told) \in Nat /\ Len(after) \in Nat /\ k \in 1 .. Len(told) + Len(after)
        /\ DOMAIN told = 1 .. Len(told) /\ DOMAIN after = 1 .. Len(after)
        /\ new[k] = IF k <= Len(told) THEN told[k] ELSE after[k - Len(told)]
    BY <1>1
  <2> HIDE DEF new
  <2>2. QED
    BY <2>1
<1>6. \A k \in DOMAIN new : new[k].kind \in {"ChangeSetReviewed", "CommitCreated"}
  BY <1>2, <1>5
<1> HIDE DEF new
<1>7. JournalGrows /\ \A i : IsNew(i) => \E k \in DOMAIN new : events'[i] = new[k]
  BY <1>3, <1>4, AppendedEvents DEF GovernanceTypeInv
<1>8. \A i : IsNew(i) => events'[i].kind \in {"ChangeSetReviewed", "CommitCreated"}
  BY <1>6, <1>7
<1>9. QED
  BY <1>7, <1>8 DEF Brought, Told

LEMMA SavesTold ==
  ASSUME GovernanceTypeInv,
         \/ VerificationSaves \/ FinishRecords
         \/ \E decision \in {"accepted", "rejected"} : ReviewRun(decision)
  PROVE  /\ Brought
         /\ \A i : IsNew(i) => events'[i].kind \in {"ChangeSetReviewed", "CommitCreated"}
<1>1. UNCHANGED bounds
  BY DEF VerificationSaves, FinishRecords, ReviewRun
<1>2. /\ <<>> \in Seq(Event) /\ \A k \in DOMAIN <<>> : <<>>[k].kind = "CommitCreated"
  OBVIOUS
<1>3. CASE VerificationSaves
  <2>1. \E r : Saves(r, staged, <<>>)
    BY <1>3 DEF VerificationSaves
  <2>2. PICK r : Saves(r, staged, <<>>)
    BY <2>1
  <2>3. r \in Evidence
    BY <1>3, <2>2, ChecksSave DEF Saves
  <2>4. QED
    BY <1>1, <1>2, <2>2, <2>3, ReviewTellsNothing
<1>4. CASE \E decision \in {"accepted", "rejected"} : ReviewRun(decision)
  <2>1. \E r : Saves(r, staged', <<>>)
    BY <1>4 DEF ReviewRun
  <2>2. PICK r : Saves(r, staged', <<>>)
    BY <2>1
  <2>3. r \in Evidence
    BY <1>4, <2>2, ReviewTypes DEF Saves
  <2>4. QED
    BY <1>1, <1>2, <2>2, <2>3, ReviewTellsNothing
<1>5. CASE FinishRecords
  <2> DEFINE r == WithFinish(main.saved, main.commit, main.receipt.review.reviewed_paths)
  <2>1. /\ main.saved \in Evidence /\ main.commit \in Commit
        /\ main.receipt.review.reviewed_paths \in SUBSET Path
    BY <1>5 DEF FinishRecords, GovernanceTypeInv, ThreadsOK, MainThread, MainOK, AcceptedReview,
           Evidence, Review
  <2>2. r \in Evidence /\ r.run_id \in Run
    BY <2>1, FinishedEvidence DEF Evidence
  <2>3. \/ Saves(r, staged, <<[kind |-> "CommitCreated", run |-> r.run_id]>>)
        \/ UNCHANGED <<evidence, events, lost>>
    BY <1>5 DEF FinishRecords
  <2> HIDE DEF r
  <2>4. [kind |-> "CommitCreated", run |-> r.run_id] \in Event
    BY <2>2 DEF Event
  <2>5. /\ <<[kind |-> "CommitCreated", run |-> r.run_id]>> \in Seq(Event)
        /\ \A k \in DOMAIN <<[kind |-> "CommitCreated", run |-> r.run_id]>> :
             <<[kind |-> "CommitCreated", run |-> r.run_id]>>[k].kind = "CommitCreated"
    BY <2>4
  <2>6. QED
    BY <1>1, <2>2, <2>3, <2>5, ReviewTellsNothing, JournalStill DEF Brought
<1>6. QED
  BY <1>3, <1>4, <1>5

LEMMA ChecksTold ==
  ASSUME GovernanceTypeInv, VerificationStarts \/ VerificationReports \/ VerificationErrs
  PROVE  Brought /\ \A i : IsNew(i) => events'[i].kind \in {"VerificationStarted", "VerificationFinished"}
<1>1. UNCHANGED bounds
  BY DEF VerificationStarts, VerificationReports, VerificationErrs
<1>2. ASSUME NEW e \in Event, Told(e), Appends(<<e>>),
             e.kind \in {"VerificationStarted", "VerificationFinished"}
      PROVE  Brought /\ \A i : IsNew(i) =>
               events'[i].kind \in {"VerificationStarted", "VerificationFinished"}
  <2>1. <<e>> \in Seq(Event) /\ DOMAIN <<e>> = {1} /\ <<e>>[1] = e
    OBVIOUS
  <2>2. JournalGrows /\ \A i : IsNew(i) => \E k \in DOMAIN <<e>> : events'[i] = <<e>>[k]
    BY <1>1, <1>2, <2>1, AppendedEvents DEF GovernanceTypeInv
  <2>3. \A i : IsNew(i) => events'[i] = e
    BY <2>1, <2>2
  <2>4. QED
    BY <1>2, <2>2, <2>3 DEF Brought
<1>3. CASE VerificationStarts
  <2> DEFINE e == [kind |-> "VerificationStarted", run |-> Held.run_id]
  <2>1. Held \in Evidence /\ Held.run_id \in Run
    BY <1>3, HeldEvidence DEF VerificationStarts, Evidence
  <2>2. e \in Event /\ Appends(<<e>>)
    BY <1>3, <2>1 DEF Event, VerificationStarts
  <2>3. Told(e) /\ e.kind = "VerificationStarted"
    BY <1>3 DEF Told
  <2> HIDE DEF e
  <2>4. QED
    BY <1>2, <2>2, <2>3
<1>4. CASE VerificationReports
  <2> DEFINE e == [kind |-> "VerificationFinished", run |-> checks.run, success |-> checks.success]
  <2>1. /\ checks.run \in Run /\ checks.success \in BOOLEAN /\ checks.run = CheckedRun
        /\ ~ VerificationErrs
    BY <1>4 DEF VerificationReports, VerificationErrs, GovernanceTypeInv, ThreadsOK, Running,
                Reporting, CheckedRun
  <2>2. e \in Event /\ Appends(<<e>>)
    BY <1>4, <2>1 DEF Event, VerificationReports, FinishedEvent
  <2>3. Told(e) /\ e.kind = "VerificationFinished"
    BY <1>4, <2>1 DEF Told
  <2> HIDE DEF e
  <2>4. QED
    BY <1>2, <2>2, <2>3
<1>5. CASE VerificationErrs
  <2> DEFINE e == [kind |-> "VerificationFinished", run |-> checks.receipt.run_id, success |-> FALSE]
  <2>1. checks.receipt.run_id \in Run /\ checks.receipt.run_id = CheckedRun /\ ~ VerificationReports
    BY <1>5 DEF VerificationReports, VerificationErrs, GovernanceTypeInv, ThreadsOK, Running,
                Reporting, CheckedRun, Evidence
  <2>2. e \in Event /\ (Appends(<<e>>) \/ events' = events)
    BY <1>5, <2>1 DEF Event, VerificationErrs, FinishedEvent
  <2>3. Told(e) /\ e.kind = "VerificationFinished"
    BY <1>5, <2>1 DEF Told
  <2> HIDE DEF e
  <2>4. QED
    BY <1>2, <2>2, <2>3, JournalStill DEF Brought
<1>6. QED
  BY <1>3, <1>4, <1>5

LEMMA ContractTells ==
  ASSUME GovernanceTypeInv, save_active_work_item_contract
  PROVE  Brought /\ \A i : IsNew(i) => events'[i].kind = "ScopeChanged"
<1> DEFINE e == [kind |-> "ScopeChanged"]
<1>1. e \in Event /\ Appends(<<e>>) /\ UNCHANGED bounds
  BY DEF save_active_work_item_contract, Event
<1>2. Told(e) /\ e.kind = "ScopeChanged"
  BY DEF Told
<1> HIDE DEF e
<1>3. <<e>> \in Seq(Event) /\ DOMAIN <<e>> = {1} /\ <<e>>[1] = e
  BY <1>1
<1>4. JournalGrows /\ \A i : IsNew(i) => \E k \in DOMAIN <<e>> : events'[i] = <<e>>[k]
  BY <1>1, <1>3, AppendedEvents DEF GovernanceTypeInv
<1>5. \A i : IsNew(i) => events'[i] = e
  BY <1>3, <1>4
<1>6. QED
  BY <1>2, <1>4, <1>5 DEF Brought

LEMMA OverrideTells ==
  ASSUME GovernanceTypeInv, OverrideAppends
  PROVE  Brought /\ \A i : IsNew(i) => events'[i].kind = "HumanOverride"
<1> DEFINE e == [kind |-> "HumanOverride", run |-> main.run, files |-> main.files, at |-> clock]
<1>1. \/ Ticks /\ events' = Append(events, e)
      \/ events' = events
  BY DEF OverrideAppends
<1>2. CASE Ticks /\ events' = Append(events, e)
  <2>1. Told(e) /\ e.kind = "HumanOverride"
    BY <1>2, Ticking DEF Told, OverrideAppends
  <2> HIDE DEF e
  <2>2. events \in Seq(Event) /\ Len(events) \in Nat
    BY DEF GovernanceTypeInv, JournalOK
  <2>3. /\ DOMAIN events' = 1 .. Len(events) + 1 /\ DOMAIN events = 1 .. Len(events)
        /\ events'[Len(events) + 1] = e
        /\ \A i \in DOMAIN events : events'[i] = events[i]
    BY <1>2, <2>2
  <2>4. \A i : IsNew(i) => i = Len(events) + 1 /\ events'[i] = e
    BY <2>2, <2>3 DEF IsNew
  <2>5. JournalGrows
    BY <2>2, <2>3, <2>4 DEF JournalGrows
  <2>6. QED
    BY <2>1, <2>4, <2>5 DEF Brought
<1>3. CASE events' = events
  BY <1>3, JournalStill DEF Brought
<1>4. QED
  BY <1>1, <1>2, <1>3

LEMMA StepTells ==
  ASSUME GovernanceTypeInv, [GovernanceNext]_governanceVars
  PROVE  Brought
<1>1. CASE events' = events
  BY <1>1, JournalStill DEF Brought
<1>2. CASE events' # events
  <2>1. \/ record_orchestration_run \/ VerificationStarts \/ VerificationSaves
        \/ VerificationReports \/ VerificationErrs \/ save_active_work_item_contract
        \/ OverrideAppends \/ FinishRecords
        \/ \E decision \in {"accepted", "rejected"} : ReviewRun(decision)
    BY <1>2 DEF GovernanceNext, governanceVars, FinalizeEvidence, OverrideReads,
       link_active_acceptance_evidence, FinishLoads, FinishAcceptance, FinishScope,
       FinishDecides, FinishReloads, GitCommits, Polls, UserStages, UserCommits
  <2>2. QED
    BY <2>1, RunTold, SavesTold, ChecksTold, ContractTells, OverrideTells
<1>3. QED
  BY <1>1, <1>2

----------------------------------------------------------------------------
\* The parts of the invariant are kept.

LEMMA ReceiptsKept ==
  ASSUME GovernanceTypeInv, ReceiptsInv, TimesInv, [GovernanceNext]_governanceVars
  PROVE  ReceiptsInv'
<1>1. /\ clock \in Nat /\ clock' \in Nat /\ clock <= clock' /\ ended \subseteq ended'
      /\ \A s \in Live : s \in Evidence
      /\ \A s \in Evidence : s.verification = None \/ s.verification.verified_at \in Nat
  BY Growing, LiveTypes DEF Evidence, CheckedVerification
<1>2. ASSUME NEW r, NEW s \in Live, Derived(r, s)
      PROVE  Sound(r)'
  <2>1. Sound(s) /\ s \in Evidence /\ r \in Evidence
    BY <1>1, <1>2 DEF ReceiptsInv, Derived
  <2>2. QED
    BY <1>1, <1>2, <2>1 DEF Sound, Derived
<1>3. ASSUME NEW r, FinalizeEvidence, r = evidence'
      PROVE  Sound(r)' /\ r.verification = None
  BY <1>1, <1>3, RunSaves DEF Sound, TimesInv
<1>4. ASSUME NEW r, VerificationSaves, r = evidence'
      PROVE  Sound(r)' /\ r.verification.verified_at = clock
  <2>1. Sound(checks.receipt)
    BY <1>4, ChecksSave DEF ReceiptsInv
  <2>2. QED
    BY <1>1, <1>4, <2>1, ChecksSave DEF Sound
<1>5. \A r \in Live' : Sound(r)'
  BY <1>2, <1>3, <1>4, LiveReceipts
<1>6. ASSUME NEW r \in Live', NEW s \in Live',
             r.verification # None, s.verification # None,
             r.verification.verified_at = s.verification.verified_at
      PROVE  r.verification = s.verification
  <2>1. \A t \in Live' : t.verification # None =>
          \/ \E u \in Live : t.verification = u.verification
                             /\ u.verification.verified_at < clock
          \/ t = evidence' /\ t.verification.verified_at = clock
    <3> TAKE t \in Live'
    <3> HAVE t.verification # None
    <3>1. CASE \E u \in Live : Derived(t, u)
      BY <3>1 DEF Derived, ReceiptsInv, Sound
    <3>2. QED
      BY <1>3, <1>4, <3>1, LiveReceipts
  <2>2. ASSUME NEW u \in Live, NEW v \in Live, r.verification = u.verification,
               s.verification = v.verification
        PROVE  r.verification = s.verification
    BY <1>6, <2>2 DEF ReceiptsInv
  <2>3. QED
    BY <1>1, <1>6, <2>1, <2>2
<1>7. QED
  BY <1>5, <1>6 DEF ReceiptsInv

LEMMA TimesKept ==
  ASSUME GovernanceTypeInv, ReceiptsInv, TimesInv, [GovernanceNext]_governanceVars
  PROVE  TimesInv'
<1>1. clock \in Nat /\ clock' \in Nat /\ clock <= clock' /\ ended \subseteq ended'
  BY Growing
<1>2. contract' # None => contract'.updated_at < clock'
  <2>1. CASE contract' = contract
    BY <1>1, <2>1 DEF TimesInv, GovernanceTypeInv, FilesOK, Contract
  <2>2. CASE save_active_work_item_contract
    <3>1. clock' = clock + 1 /\ contract'.updated_at = clock
      BY <2>2, Ticking DEF save_active_work_item_contract
    <3>2. QED
      BY <1>1, <3>1
  <2>3. QED
    BY <2>1, <2>2 DEF GovernanceNext, governanceVars, record_orchestration_run,
       FinalizeEvidence, ReviewRun, VerificationStarts, VerificationSaves, VerificationReports,
       VerificationErrs, OverrideReads, OverrideAppends, link_active_acceptance_evidence,
       FinishLoads, FinishAcceptance, FinishScope, FinishDecides, FinishReloads, GitCommits,
       FinishRecords, Polls, UserStages, UserCommits
<1>3. \A b \in bindings' : b.linked_at < clock' /\ b.verified_at < clock'
  <2>1. \A b \in bindings : b.linked_at \in Nat /\ b.verified_at \in Nat
    BY DEF GovernanceTypeInv, FilesOK, Binding
  <2>2. CASE bindings' = bindings
    BY <1>1, <2>1, <2>2 DEF TimesInv
  <2>3. CASE link_active_acceptance_evidence
    <3>1. Held # None /\ Held.verification # None /\ clock' = clock + 1
      BY <2>3, Ticking DEF link_active_acceptance_evidence, active_verification_is_fresh
    <3>2. Held.verification.verified_at < clock /\ Held.verification.verified_at \in Nat
      <4>1. Held = evidence /\ evidence \in Live /\ evidence \in Evidence
        BY <3>1, HeldEvidence, HeldIsLive
      <4>2. QED
        BY <3>1, <4>1 DEF ReceiptsInv, Sound, Evidence, CheckedVerification
    <3>3. PICK c \in contract.rules.criteria, command \in Held.verification.ran :
            bindings' = OtherLinks(c, Held.run_id) \cup
              {[criterion |-> c, run_id |-> Held.run_id,
                changeset_digest |-> Held.verification.changeset_digest,
                verified_at |-> Held.verification.verified_at, command |-> command,
                linked_at |-> clock]}
      BY <2>3 DEF link_active_acceptance_evidence
    <3>4. \A b \in bindings' : \/ b \in bindings
                               \/ b.linked_at = clock /\ b.verified_at = Held.verification.verified_at
      BY <3>3 DEF OtherLinks
    <3>5. QED
      BY <1>1, <2>1, <3>1, <3>2, <3>4 DEF TimesInv
  <2>4. QED
    BY <2>2, <2>3 DEF GovernanceNext, governanceVars, record_orchestration_run,
       FinalizeEvidence, ReviewRun, VerificationStarts, VerificationSaves, VerificationReports,
       VerificationErrs, OverrideReads, OverrideAppends, save_active_work_item_contract,
       FinishLoads, FinishAcceptance, FinishScope, FinishDecides, FinishReloads, GitCommits,
       FinishRecords, Polls, UserStages, UserCommits
<1>4. checks' # None => CheckedRun' \in ended'
  <2>1. CASE checks' = checks \/ checks' = None
    BY <1>1, <2>1 DEF TimesInv, CheckedRun
  <2>2. CASE VerificationStarts
    <3>1. Held # None /\ checks'.at = "running" /\ checks'.receipt = Held
      BY <2>2 DEF VerificationStarts
    <3>2. Held.run_id \in ended
      BY <3>1, HeldEvidence, HeldIsLive DEF ReceiptsInv, Sound
    <3>3. QED
      BY <1>1, <3>1, <3>2 DEF CheckedRun
  <2>3. CASE VerificationSaves
    <3>1. checks.receipt.run_id \in ended /\ checks'.at = "reporting"
          /\ checks'.run = checks.receipt.run_id
      BY <2>3, ChecksSave DEF ReceiptsInv, Sound
    <3>2. QED
      BY <1>1, <3>1 DEF CheckedRun
  <2>4. QED
    BY <2>1, <2>2, <2>3 DEF GovernanceNext, governanceVars, worker, record_orchestration_run,
       FinalizeEvidence, ReviewRun, VerificationReports, VerificationErrs, OverrideReads,
       OverrideAppends, save_active_work_item_contract, link_active_acceptance_evidence,
       FinishLoads, FinishAcceptance, FinishScope, FinishDecides, FinishReloads, GitCommits,
       FinishRecords, Polls, UserStages, UserCommits
<1>5. ending' # None => ending'.run \in ended'
  <2>1. CASE ending' = ending \/ ending' = None
    BY <1>1, <2>1 DEF TimesInv
  <2>2. CASE record_orchestration_run
    BY <2>2 DEF record_orchestration_run
  <2>3. QED
    BY <2>1, <2>2 DEF GovernanceNext, governanceVars, worker, FinalizeEvidence, ReviewRun,
       VerificationStarts, VerificationSaves, VerificationReports, VerificationErrs,
       OverrideReads, OverrideAppends, save_active_work_item_contract,
       link_active_acceptance_evidence, FinishLoads, FinishAcceptance, FinishScope,
       FinishDecides, FinishReloads, GitCommits, FinishRecords, Polls, UserStages, UserCommits
<1>6. \A i \in Kind("HumanOverride")' : events'[i].at < clock'
  <2> TAKE i \in Kind("HumanOverride")'
  <2>1. Brought /\ i \in DOMAIN events' /\ events'[i].kind = "HumanOverride"
    BY StepTells DEF Kind
  <2>2. CASE i \in DOMAIN events
    <3>1. events'[i] = events[i] /\ i \in Kind("HumanOverride")
      BY <2>1, <2>2 DEF Brought, JournalGrows, Kind
    <3>2. events[i].at \in Nat
      <4>1. events[i] \in Event
        BY <2>2 DEF GovernanceTypeInv, JournalOK
      <4>2. QED
        BY <2>1, <3>1, <4>1 DEF Event
    <3>3. QED
      BY <1>1, <3>1, <3>2 DEF TimesInv
  <2>3. CASE IsNew(i)
    BY <1>1, <2>1, <2>3 DEF Brought, Told
  <2>4. QED
    BY <2>1, <2>2, <2>3 DEF IsNew
<1>7. QED
  BY <1>2, <1>3, <1>4, <1>5, <1>6 DEF TimesInv

LEMMA LinksKept ==
  ASSUME GovernanceTypeInv, ReceiptsInv, TimesInv, LinksInv, [GovernanceNext]_governanceVars
  PROVE  LinksInv'
<1>1. linked \subseteq linked' /\ clock \in Nat
  BY Growing
<1>2. \A b \in bindings : b.verified_at \in Nat /\ b.verified_at < clock
  BY DEF GovernanceTypeInv, FilesOK, Binding, TimesInv
<1>3. SUFFICES ASSUME NEW r \in Live', NEW b \in bindings', r.verification # None,
                      b.run_id = r.run_id, b.verified_at = r.verification.verified_at
               PROVE  LinkOf(b, r.verification) \in linked'
  BY DEF LinksInv, LinkOf
<1>4. CASE b \in bindings
  <2>1. ASSUME NEW s \in Live, Derived(r, s)
        PROVE  LinkOf(b, r.verification) \in linked'
    BY <1>1, <1>3, <1>4, <2>1 DEF LinksInv, Derived
  <2>2. ~ (FinalizeEvidence /\ r = evidence')
    BY <1>3, RunSaves
  <2>3. ~ (VerificationSaves /\ r = evidence')
    BY <1>1, <1>2, <1>3, <1>4, ChecksSave
  <2>4. QED
    BY <2>1, <2>2, <2>3, LiveReceipts
<1>5. CASE b \notin bindings
  <2>1. link_active_acceptance_evidence
    BY <1>3, <1>5 DEF GovernanceNext, governanceVars, record_orchestration_run,
       FinalizeEvidence, ReviewRun, VerificationStarts, VerificationSaves, VerificationReports,
       VerificationErrs, OverrideReads, OverrideAppends, save_active_work_item_contract,
       FinishLoads, FinishAcceptance, FinishScope, FinishDecides, FinishReloads, GitCommits,
       FinishRecords, Polls, UserStages, UserCommits
  <2>2. PICK c \in contract.rules.criteria, command \in Held.verification.ran :
          LET v == Held.verification
              binding == [criterion |-> c, run_id |-> Held.run_id,
                          changeset_digest |-> v.changeset_digest,
                          verified_at |-> v.verified_at, command |-> command,
                          linked_at |-> clock]
          IN /\ bindings' = OtherLinks(c, Held.run_id) \cup {binding}
             /\ linked' = linked \cup {[criterion |-> c, run |-> Held.run_id,
                                        tree |-> v.index_tree_sha,
                                        passed |-> command \in v.passed]}
    BY <2>1 DEF link_active_acceptance_evidence
  <2>3. /\ b.criterion = c /\ b.run_id = Held.run_id /\ b.command = command
        /\ b.verified_at = Held.verification.verified_at
    BY <1>3, <1>5, <2>2 DEF OtherLinks
  <2>4. LinkOf(b, Held.verification) \in linked'
    BY <2>2, <2>3 DEF LinkOf
  <2>5. Held # None /\ Held.verification # None /\ evidence' = Held
        /\ main' = main /\ checks' = checks
    BY <2>1 DEF link_active_acceptance_evidence, active_verification_is_fresh, worker
  <2>6. Held = evidence /\ evidence \in Live
    BY <2>5, HeldEvidence, HeldIsLive
  <2>7. r \in Live
    BY <2>5, <2>6 DEF Live
  <2>8. r.verification = Held.verification
    BY <1>3, <2>3, <2>5, <2>6, <2>7 DEF ReceiptsInv
  <2>9. QED
    BY <2>4, <2>8
<1>6. QED
  BY <1>4, <1>5

LEMMA ChangeSetsKept ==
  ASSUME GovernanceTypeInv, ReceiptsInv, TimesInv, ChangeSetsInv,
         [GovernanceNext]_governanceVars
  PROVE  ChangeSetsInv'
<1>1. Brought /\ ended \subseteq ended'
  BY StepTells, Growing
<1>2. \A i \in Kind("ChangeSetCreated")' :
        /\ i \in DOMAIN events' /\ events'[i].kind = "ChangeSetCreated"
        /\ \/ i \in Kind("ChangeSetCreated") /\ events'[i] = events[i]
              /\ events[i].run \in ended
           \/ /\ IsNew(i) /\ events'[i].run \notin ended
              /\ events'[i].run \in ended' /\ events'[i].files # {}
              /\ ending' = [run |-> events'[i].run, files |-> events'[i].files]
              /\ evidence' = evidence
  BY <1>1 DEF Kind, Brought, JournalGrows, IsNew, Told, ChangeSetsInv
<1>3. SUFFICES ASSUME NEW i \in Kind("ChangeSetCreated")'
               PROVE  /\ events'[i].run \in ended' /\ events'[i].files # {}
                      /\ \A j \in Kind("ChangeSetCreated")' :
                           events'[i].run = events'[j].run => i = j
                      /\ \A r \in Live' : r.run_id = events'[i].run
                                            => r.changeset_digest = events'[i].files
                      /\ ending' # None /\ ending'.run = events'[i].run
                           => ending'.files = events'[i].files
  BY DEF ChangeSetsInv
<1>4. events'[i].run \in ended' /\ events'[i].files # {}
  BY <1>1, <1>2, <1>3 DEF ChangeSetsInv
<1>5. ASSUME NEW j \in Kind("ChangeSetCreated")', events'[i].run = events'[j].run
      PROVE  i = j
  <2>1. CASE IsNew(i) /\ IsNew(j)
    BY <1>1, <1>2, <2>1 DEF Brought
  <2>2. QED
    BY <1>2, <1>3, <1>5, <2>1 DEF ChangeSetsInv
<1>6. ASSUME NEW r \in Live', r.run_id = events'[i].run
      PROVE  r.changeset_digest = events'[i].files
  <2>1. ASSUME NEW s \in Live, s.run_id = r.run_id, r.changeset_digest = s.changeset_digest
        PROVE  r.changeset_digest = events'[i].files
    <3>1. s.run_id \in ended
      BY DEF ReceiptsInv, Sound
    <3>2. QED
      BY <1>2, <1>3, <1>6, <2>1, <3>1 DEF ChangeSetsInv
  <2>2. CASE FinalizeEvidence /\ r = evidence'
    <3>1. events' = events
      BY <2>2 DEF FinalizeEvidence
    <3>2. i \in Kind("ChangeSetCreated") /\ events'[i] = events[i]
      BY <1>2, <3>1, JournalStill
    <3>3. QED
      BY <1>6, <2>2, <3>2, RunSaves DEF ChangeSetsInv
  <2>3. CASE VerificationSaves /\ r = evidence'
    BY <2>1, <2>3, ChecksSave
  <2>4. QED
    BY <2>1, <2>2, <2>3, LiveReceipts DEF Derived
<1>7. ASSUME ending' # None, ending'.run = events'[i].run
      PROVE  ending'.files = events'[i].files
  <2>1. CASE IsNew(i)
    BY <1>2, <2>1 DEF IsNew, Kind
  <2>2. CASE i \in Kind("ChangeSetCreated") /\ events'[i] = events[i] /\ events[i].run \in ended
    <3>1. ending' = ending \/ ending'.run \notin ended \/ ending' = None
      <4>1. record_orchestration_run => ending'.run \notin ended
        BY DEF record_orchestration_run
      <4>2. QED
        BY <4>1 DEF GovernanceNext, governanceVars, worker, FinalizeEvidence, ReviewRun, VerificationStarts, VerificationSaves,
         VerificationReports, VerificationErrs, OverrideReads, OverrideAppends,
         save_active_work_item_contract, link_active_acceptance_evidence, FinishLoads,
         FinishAcceptance, FinishScope, FinishDecides, FinishReloads, GitCommits,
         FinishRecords, Polls, UserStages, UserCommits
    <3>2. QED
      BY <1>7, <2>2, <3>1 DEF ChangeSetsInv
  <2>3. QED
    BY <1>2, <2>1, <2>2
<1>8. QED
  BY <1>4, <1>5, <1>6, <1>7

LEMMA OverridesKept ==
  ASSUME GovernanceTypeInv, TimesInv, ChangeSetsInv, OverridesInv,
         [GovernanceNext]_governanceVars
  PROVE  OverridesInv'
<1>1. Brought /\ clock \in Nat /\ clock' \in Nat
  BY StepTells, Growing
<1>2. ASSUME NEW j \in Kind("ChangeSetCreated")
      PROVE  j \in Kind("ChangeSetCreated")' /\ events'[j] = events[j] /\ j \in DOMAIN events
  BY <1>1, <1>2 DEF Brought, JournalGrows, Kind
<1>3. save_active_work_item_contract =>
        contract'.updated_at = clock /\ main' = main /\ main.at = "idle"
  BY DEF save_active_work_item_contract
<1>4. contract' = contract \/ save_active_work_item_contract
  BY DEF GovernanceNext, governanceVars,
     record_orchestration_run, FinalizeEvidence, ReviewRun, VerificationStarts,
     VerificationSaves, VerificationReports, VerificationErrs, OverrideReads, OverrideAppends,
     link_active_acceptance_evidence, FinishLoads, FinishAcceptance, FinishScope,
     FinishDecides, FinishReloads, GitCommits, FinishRecords, Polls, UserStages, UserCommits
<1>5. ASSUME NEW i \in Kind("HumanOverride")'
      PROVE  \E j \in Kind("ChangeSetCreated")' :
               /\ j < i /\ events'[j].run = events'[i].run
               /\ contract' # None /\ events'[i].at >= contract'.updated_at
                    => events'[i].files = Violating(contract'.rules, events'[j].files)
  <2>1. i \in DOMAIN events' /\ events'[i].kind = "HumanOverride"
    BY DEF Kind
  <2>2. CASE i \in DOMAIN events
    <3>1. events'[i] = events[i] /\ i \in Kind("HumanOverride")
      BY <1>1, <2>1, <2>2 DEF Brought, JournalGrows, Kind
    <3>2. PICK j \in Kind("ChangeSetCreated") :
            /\ j < i /\ events[j].run = events[i].run
            /\ contract # None /\ events[i].at >= contract.updated_at
                 => events[i].files = Violating(contract.rules, events[j].files)
      BY <3>1 DEF OverridesInv
    <3>3. j \in Kind("ChangeSetCreated")' /\ events'[j] = events[j]
      BY <1>2, <3>2
    <3>4. CASE contract' = contract
      BY <3>1, <3>2, <3>3, <3>4
    <3>5. CASE save_active_work_item_contract
      <4>1. events[i].at < clock /\ events[i].at \in Nat
        <5>1. events[i] \in Event
          BY <2>2 DEF GovernanceTypeInv, JournalOK
        <5>2. QED
          BY <2>1, <3>1, <5>1 DEF Event, TimesInv
      <4>2. ~ (events'[i].at >= contract'.updated_at)
        BY <1>1, <1>3, <3>1, <3>5, <4>1
      <4>3. QED
        BY <3>1, <3>2, <3>3, <4>2
    <3>6. QED
      BY <1>4, <3>4, <3>5
  <2>3. CASE IsNew(i)
    <3>1. /\ main.at = "override" /\ events'[i].run = main.run /\ events'[i].files = main.files
      BY <1>1, <2>1, <2>3 DEF Brought, Told
    <3>2. contract' = contract
      BY <1>3, <1>4, <3>1
    <3>3. PICK j \in Kind("ChangeSetCreated") :
            /\ events[j].run = main.run
            /\ main.files = Violating(contract.rules, events[j].files)
      BY <3>1 DEF OverridesInv
    <3>4. /\ j \in DOMAIN events /\ j \in Kind("ChangeSetCreated")' /\ events'[j] = events[j]
      BY <1>2, <3>3
    <3>5. j < i
      BY <1>1, <2>3, <3>4 DEF Brought, JournalGrows
    <3>6. QED
      BY <3>1, <3>2, <3>3, <3>4, <3>5
  <2>4. QED
    BY <2>1, <2>2, <2>3 DEF IsNew
<1>6. main'.at = "override" =>
        /\ contract' # None
        /\ \E j \in Kind("ChangeSetCreated")' :
             /\ events'[j].run = main'.run
             /\ main'.files = Violating(contract'.rules, events'[j].files)
  <2>1. CASE OverrideReads
    <3>1. /\ HasChangeSet /\ derive_gate(CurrentRun, TRUE) = "scope_violation"
          /\ main' = [main EXCEPT !.at = "override", !.run = CurrentRun,
                                  !.files = Violating(contract.rules, ChangedFiles)]
          /\ contract' = contract
      BY <2>1 DEF OverrideReads
    <3>2. derive_scope_compliance(contract, ChangedFiles) = "violation"
      BY <3>1 DEF derive_gate
    <3>3. contract # None
      BY <3>2 DEF derive_scope_compliance
    <3>4. main'.run = CurrentRun /\ main'.files = Violating(contract.rules, ChangedFiles)
      BY <3>1 DEF GovernanceTypeInv, ThreadsOK, MainThread
    <3>5. /\ ChangeSetIndex \in Kind("ChangeSetCreated")
          /\ CurrentRun = events[ChangeSetIndex].run
          /\ ChangedFiles = events[ChangeSetIndex].files
      BY <3>1, CurrentChangeSet DEF GovernanceTypeInv
    <3>6. /\ ChangeSetIndex \in Kind("ChangeSetCreated")'
          /\ events'[ChangeSetIndex] = events[ChangeSetIndex]
      BY <1>2, <3>5
    <3>7. QED
      BY <3>1, <3>3, <3>4, <3>5, <3>6
  <2>2. CASE main' = main
    BY <1>2, <1>3, <1>4, <2>2 DEF OverridesInv
  <2>3. main' = main \/ OverrideReads \/ main'.at # "override"
    <3>1. main \in MainThread /\ IdleMain.at = "idle"
      BY DEF GovernanceTypeInv, ThreadsOK, IdleMain
    <3>2. CASE \/ FinishLoads \/ FinishAcceptance \/ FinishScope \/ FinishDecides
               \/ FinishReloads \/ GitCommits \/ FinishRecords \/ OverrideAppends
      BY <3>1, <3>2 DEF MainThread, FinishLoads, FinishAcceptance, FinishScope,
         FinishDecides, FinishReloads, GitCommits, FinishRecords, OverrideAppends
    <3>3. QED
      BY <3>2 DEF GovernanceNext, governanceVars, record_orchestration_run, FinalizeEvidence,
         ReviewRun, VerificationStarts, VerificationSaves, VerificationReports,
         VerificationErrs, save_active_work_item_contract, link_active_acceptance_evidence,
         Polls, UserStages, UserCommits
  <2>4. QED
    BY <2>1, <2>2, <2>3
<1>7. QED
  BY <1>5, <1>6 DEF OverridesInv

\* A criterion that the report calls proven has a link of the receipt's verification to a
\* command that passed: the latest one, which there is since times are bounded.
LEMMA ProvenIsLinked ==
  ASSUME GovernanceTypeInv, TimesInv, NEW c, NEW r, NEW fresh \in BOOLEAN,
         derive_criterion(c, r, fresh) = "proven"
  PROVE  /\ r # None /\ r.verification # None
         /\ \E b \in bindings :
              /\ b.criterion = c /\ b.run_id = r.run_id
              /\ b.verified_at = r.verification.verified_at
              /\ b.command \in r.verification.passed
<1> DEFINE links == {b \in bindings : b.criterion = c}
           binding == CHOOSE b \in links : \A o \in links : o.linked_at <= b.linked_at
<1>1. links # {} /\ r # None /\ CurrentLink(binding, r) /\ binding.command \in r.verification.passed
  BY DEF derive_criterion
<1>2. \A b \in links : b.linked_at \in Nat /\ b.linked_at < clock /\ b \in bindings
  BY DEF GovernanceTypeInv, FilesOK, Binding, TimesInv
<1>3. clock \in Nat
  BY GovernanceBounds DEF GovernanceTypeInv, BoundsOK
<1> HIDE DEF links
<1>4. \E b \in links : \A o \in links : o.linked_at <= b.linked_at
  <2> DEFINE times == {b.linked_at + 1 : b \in links}
  <2>1. times \in SUBSET (1 .. clock) /\ times # {}
    BY <1>1, <1>2, <1>3
  <2>2. Max(times) \in times /\ \A t \in times : t <= Max(times)
    BY <1>3, <2>1, GreatestIndex
  <2>3. PICK b \in links : Max(times) = b.linked_at + 1
    BY <2>2
  <2>4. \A o \in links : o.linked_at + 1 <= b.linked_at + 1
    BY <2>2, <2>3
  <2>5. \A o \in links : o.linked_at <= b.linked_at
    BY <1>2, <2>4
  <2>6. QED
    BY <2>5
<1>5. binding \in links
  BY <1>4
<1>6. /\ binding.run_id = r.run_id /\ r.verification # None
      /\ binding.verified_at = r.verification.verified_at
  BY <1>1 DEF CurrentLink, BoundTo
<1> HIDE DEF binding
<1>7. QED
  BY <1>1, <1>5, <1>6 DEF links

LEMMA MainMoves ==
  ASSUME GovernanceTypeInv, [GovernanceNext]_governanceVars
  PROVE  \/ main' = main /\ (main.at # "idle" => bindings' = bindings) /\ ~ FinishRecords
         \/ main'.at \in {"idle", "override"}
         \/ FinishLoads /\ main'.at = "acceptance" /\ main'.receipt = Held /\ evidence' = Held
         \/ /\ FinishAcceptance /\ main.at = "acceptance" /\ main'.at = "scope"
            /\ main'.receipt = main.receipt
            /\ main'.criteria = DOMAIN derive_acceptance_evidence(Held)
            /\ \A c \in main'.criteria : derive_acceptance_evidence(Held)[c] = "proven"
         \/ /\ main.at \in {"scope", "decide", "reload"}
            /\ main'.at \in {"decide", "reload", "commit"}
            /\ main'.receipt = main.receipt /\ main'.criteria = main.criteria
         \/ /\ main.at = "commit" /\ main'.at = "record"
            /\ main'.receipt = main.receipt /\ main'.criteria = main.criteria
            /\ main'.commit \in DOMAIN objects'
            /\ objects'[main'.commit] = main.receipt.review.index_tree_after_accept
<1>1. main \in MainThread /\ IdleMain.at = "idle"
  BY DEF GovernanceTypeInv, ThreadsOK, IdleMain
<1>2. CASE FinishRecords \/ OverrideAppends \/ OverrideReads
  BY <1>1, <1>2 DEF FinishRecords, OverrideAppends, OverrideReads, MainThread
<1>3. CASE FinishLoads
  BY <1>1, <1>3 DEF FinishLoads, MainThread
<1>4. CASE FinishAcceptance
  <2>1. /\ main.at = "acceptance"
        /\ LET report == derive_acceptance_evidence(Held) IN
             \/ main' = IdleMain
             \/ /\ \A c \in DOMAIN report : report[c] = "proven"
                /\ main' = [main EXCEPT !.at = "scope", !.criteria = DOMAIN report]
    BY <1>4 DEF FinishAcceptance
  <2> DEFINE report == derive_acceptance_evidence(Held)
  <2>2. ASSUME \A c \in DOMAIN report : report[c] = "proven",
               main' = [main EXCEPT !.at = "scope", !.criteria = DOMAIN report]
        PROVE  /\ main'.at = "scope" /\ main'.receipt = main.receipt
               /\ main'.criteria = DOMAIN report
    BY <1>1, <2>2 DEF MainThread
  <2>3. QED
    BY <1>1, <1>4, <2>1, <2>2
<1>5. CASE FinishScope \/ FinishDecides
  BY <1>1, <1>5 DEF FinishScope, FinishDecides, MainThread
<1>6. CASE FinishReloads
  BY <1>1, <1>6 DEF FinishReloads, MainThread
<1>7. CASE GitCommits
  <2>1. \/ main' = IdleMain
        \/ \E commit \in Commit :
             /\ CommitsIndex(commit)
             /\ staged = main.receipt.review.index_tree_after_accept
             /\ main' = [main EXCEPT !.at = "record", !.commit = commit]
    BY <1>7 DEF GitCommits
  <2>2. ASSUME NEW commit \in Commit, CommitsIndex(commit),
               staged = main.receipt.review.index_tree_after_accept,
               main' = [main EXCEPT !.at = "record", !.commit = commit]
        PROVE  /\ main'.at = "record" /\ main'.receipt = main.receipt
               /\ main'.criteria = main.criteria
               /\ main'.commit \in DOMAIN objects'
               /\ objects'[main'.commit] = main.receipt.review.index_tree_after_accept
    <3>1. /\ main'.at = "record" /\ main'.receipt = main.receipt /\ main'.commit = commit
          /\ main'.criteria = main.criteria
      BY <1>1, <2>2 DEF MainThread
    <3>2. commit \in DOMAIN objects' /\ objects'[commit] = staged
      BY <2>2 DEF CommitsIndex
    <3>3. QED
      BY <2>2, <3>1, <3>2
  <2>3. main.at = "commit"
    BY <1>7 DEF GitCommits
  <2>4. QED
    BY <1>1, <2>1, <2>2, <2>3
<1>8. CASE /\ main' = main /\ ~ FinishRecords
           /\ bindings' = bindings \/ link_active_acceptance_evidence
  BY <1>8 DEF link_active_acceptance_evidence
<1>9. QED
  <2>1. FinishRecords \/ ~ FinishRecords
    OBVIOUS
  <2>2. QED
    BY <1>2, <1>3, <1>4, <1>5, <1>6, <1>7, <1>8, <2>1
       DEF GovernanceNext, governanceVars, record_orchestration_run, FinalizeEvidence,
         ReviewRun, VerificationStarts, VerificationSaves, VerificationReports,
         VerificationErrs, save_active_work_item_contract, link_active_acceptance_evidence,
         Polls, UserStages, UserCommits

LEMMA ObjectsKept ==
  ASSUME GovernanceTypeInv, [GovernanceNext]_governanceVars
  PROVE  \A c \in DOMAIN objects : c \in DOMAIN objects' /\ objects'[c] = objects[c]
<1>1. CASE objects' = objects
  BY <1>1
<1>2. CASE \E commit \in Commit : CommitsIndex(commit)
  BY <1>2 DEF CommitsIndex
<1>3. QED
  BY <1>1, <1>2 DEF GovernanceNext, governanceVars, git, record_orchestration_run,
     FinalizeEvidence, ReviewRun, VerificationStarts, VerificationSaves, VerificationReports,
     VerificationErrs, save_active_work_item_contract, OverrideReads, OverrideAppends,
     link_active_acceptance_evidence, FinishLoads, FinishAcceptance, FinishScope,
     FinishDecides, FinishReloads, GitCommits, FinishRecords, Polls, UserStages, UserCommits

\* The evidence in the file with a verification is that of before, or the checks are new.
LEMMA EvidenceMoves ==
  ASSUME GovernanceTypeInv, ReceiptsInv, [GovernanceNext]_governanceVars,
         evidence' # None, evidence'.verification # None
  PROVE  \/ evidence' = evidence
         \/ VerificationSaves
         \/ FinishRecords
<1>1. CASE evidence' = Held
  BY <1>1, HeldEvidence
<1>2. ~ FinalizeEvidence
  BY RunSaves
<1>3. \A decision \in {"accepted", "rejected"} : ~ ReviewRun(decision)
  BY ReviewSaves
<1>4. QED
  BY <1>1, <1>2, <1>3 DEF GovernanceNext, governanceVars, record_orchestration_run,
     VerificationStarts, VerificationReports, VerificationErrs, save_active_work_item_contract,
     OverrideReads, OverrideAppends, link_active_acceptance_evidence, FinishLoads,
     FinishAcceptance, FinishScope, FinishDecides, FinishReloads, GitCommits, Polls,
     UserStages, UserCommits

LEMMA AcceptanceKept ==
  ASSUME GovernanceTypeInv, ReceiptsInv, TimesInv, LinksInv, AcceptanceInv,
         [GovernanceNext]_governanceVars
  PROVE  AcceptanceInv'
<1>1. clock \in Nat /\ linked \subseteq linked'
  BY Growing
<1>2. ASSUME main'.at = "acceptance", evidence' # None, evidence'.verification # None,
             NEW b \in bindings', b.verified_at = evidence'.verification.verified_at
      PROVE  evidence'.verification = main'.receipt.verification
  <2>1. CASE main' = main /\ bindings' = bindings /\ main.at = "acceptance" /\ ~ FinishRecords
    <3>1. b.verified_at \in Nat /\ b.verified_at < clock
      BY <2>1 DEF TimesInv, GovernanceTypeInv, FilesOK, Binding
    <3>2. ~ VerificationSaves
      BY <1>1, <1>2, <3>1, ChecksSave
    <3>3. evidence' = evidence
      BY <1>2, <2>1, <3>2, EvidenceMoves
    <3>4. QED
      BY <1>2, <2>1, <3>3 DEF AcceptanceInv
  <2>2. QED
    BY <1>2, <2>1, MainMoves
<1>3. ASSUME main'.at \in {"scope", "decide", "reload", "commit", "record"},
             NEW c \in main'.criteria
      PROVE  /\ main'.receipt.verification # None
             /\ [criterion |-> c, run |-> main'.receipt.run_id,
                 tree |-> main'.receipt.verification.index_tree_sha, passed |-> TRUE] \in linked'
  <2>1. CASE /\ main.at \in {"scope", "decide", "reload", "commit", "record"}
             /\ main'.receipt = main.receipt /\ main'.criteria = main.criteria
    BY <1>1, <1>3, <2>1 DEF AcceptanceInv
  <2>2. CASE /\ FinishAcceptance /\ main.at = "acceptance"
             /\ main'.receipt = main.receipt
             /\ main'.criteria = DOMAIN derive_acceptance_evidence(Held)
             /\ \A d \in main'.criteria : derive_acceptance_evidence(Held)[d] = "proven"
    <3>1. \E fresh \in BOOLEAN : derive_criterion(c, Held, fresh) = "proven"
      <4>1. derive_acceptance_evidence(Held)[c] = "proven"
        BY <1>3, <2>2
      <4>2. (Held # None /\ active_verification_is_fresh(Held)) \in BOOLEAN
        BY DEF active_verification_is_fresh
      <4>3. QED
        BY <1>3, <2>2, <4>1, <4>2 DEF derive_acceptance_evidence
    <3>2. Held # None /\ Held.verification # None
      BY <3>1, ProvenIsLinked
    <3>3. PICK b \in bindings :
            /\ b.criterion = c /\ b.run_id = Held.run_id
            /\ b.verified_at = Held.verification.verified_at
            /\ b.command \in Held.verification.passed
      BY <3>1, ProvenIsLinked
    <3>4. Held = evidence /\ evidence # None /\ evidence \in Live
      BY <3>2, HeldEvidence, HeldIsLive
    <3>5. evidence.verification = main.receipt.verification
      BY <2>2, <3>2, <3>3, <3>4 DEF AcceptanceInv
    <3>6. LinkOf(b, evidence.verification) \in linked
      BY <3>2, <3>3, <3>4 DEF LinksInv
    <3>7. LinkOf(b, evidence.verification) =
            [criterion |-> c, run |-> evidence.run_id,
             tree |-> evidence.verification.index_tree_sha, passed |-> TRUE]
      BY <3>3, <3>4 DEF LinkOf
    <3>8. evidence.run_id = main.receipt.run_id
      <4>1. main.receipt \in Live
        BY <2>2, LiveTypes DEF GovernanceTypeInv, MainOK
      <4>2. QED
        BY <3>2, <3>4, <3>5, <4>1 DEF ReceiptsInv, Sound, validate_receipt
    <3>9. QED
      BY <1>1, <2>2, <3>2, <3>4, <3>5, <3>6, <3>7, <3>8
  <2>3. QED
    BY <1>3, <2>1, <2>2, MainMoves
<1>4. ASSUME main'.at = "record"
      PROVE  /\ main'.commit \in DOMAIN objects'
             /\ objects'[main'.commit] = main'.receipt.review.index_tree_after_accept
  <2>1. CASE main' = main
    BY <1>4, <2>1, ObjectsKept DEF AcceptanceInv
  <2>2. QED
    BY <1>4, <2>1, MainMoves
<1>5. QED
  BY <1>2, <1>3, <1>4 DEF AcceptanceInv

----------------------------------------------------------------------------
\* While no append fails.

LEMMA ReviewStateKept ==
  ASSUME JournalOK, JournalGrows, NEW run,
         \A i : IsNew(i) => ~ (events'[i].kind = "ChangeSetReviewed" /\ events'[i].run = run)
  PROVE  derive_review_state(run)' = derive_review_state(run)
<1> DEFINE S == KindOf("ChangeSetReviewed", run)
<1>1. S' = S /\ S \in SUBSET DOMAIN events
  BY DEF KindOf, Kind, JournalGrows, IsNew
<1>2. CASE S = {}
  BY <1>1, <1>2 DEF derive_review_state
<1>3. CASE S # {}
  <2>1. Max(S) \in DOMAIN events
    BY <1>1, <1>3, LatestEvent
  <2>2. events'[Max(S)] = events[Max(S)]
    BY <2>1 DEF JournalGrows
  <2>3. Latest(S)' = Latest(S)
    <3> HIDE DEF S
    <3>1. QED
      BY <1>1, <2>2 DEF Latest
  <2>4. derive_review_state(run) = Latest(S).decision
    BY <1>3 DEF derive_review_state
  <2>5. derive_review_state(run)' = Latest(S)'.decision
    BY <1>1, <1>3 DEF derive_review_state
  <2>6. QED
    BY <2>3, <2>4, <2>5
<1>4. QED
  BY <1>2, <1>3

\* Which attempt is the latest.
LEMMA VerificationKept ==
  ASSUME JournalOK, JournalGrows, NEW run,
         \A i : IsNew(i) =>
           ~ (/\ events'[i].kind \in {"VerificationStarted", "VerificationFinished"}
              /\ events'[i].run = run)
  PROVE  derive_verification(run)' = derive_verification(run)
<1> DEFINE S == KindOf("VerificationStarted", run) \cup KindOf("VerificationFinished", run)
<1>1. S' = S /\ S \in SUBSET DOMAIN events
  BY DEF KindOf, Kind, JournalGrows, IsNew
<1>2. CASE S = {}
  BY <1>1, <1>2 DEF derive_verification
<1>3. CASE S # {}
  <2>1. Max(S) \in DOMAIN events
    BY <1>1, <1>3, LatestEvent
  <2>2. events'[Max(S)] = events[Max(S)]
    BY <2>1 DEF JournalGrows
  <2>3. Latest(S)' = Latest(S)
    <3> HIDE DEF S
    <3>1. QED
      BY <1>1, <2>2 DEF Latest
  <2>4. derive_verification(run) = IF Latest(S).kind = "VerificationStarted" THEN "running"
                                   ELSE IF Latest(S).success THEN "passed" ELSE "failed"
    BY <1>3 DEF derive_verification
  <2>5. derive_verification(run)' = IF Latest(S)'.kind = "VerificationStarted" THEN "running"
                                    ELSE IF Latest(S)'.success THEN "passed" ELSE "failed"
    BY <1>1, <1>3 DEF derive_verification
  <2>6. QED
    BY <2>3, <2>4, <2>5
<1>4. QED
  BY <1>2, <1>3

\* A new event is the latest of its kind.
LEMMA NewIsLatest ==
  ASSUME JournalOK', JournalGrows, NEW i, IsNew(i), NEW S \in SUBSET DOMAIN events', i \in S,
         \A j \in S : IsNew(j) => j = i
  PROVE  Max(S) = i
<1>1. DOMAIN events' = 1 .. Len(events') /\ Len(events') \in Nat
  BY DEF JournalOK
<1>2. Max(S) \in S /\ i <= Max(S)
  BY <1>1, GreatestIndex
<1>3. \A j \in S : j = i \/ j \in DOMAIN events
  BY DEF IsNew
<1>4. \A j \in S : j = i \/ j < i
  BY <1>3 DEF JournalGrows
<1>5. i \in Nat /\ Max(S) \in Nat
  BY <1>1, <1>2
<1>6. QED
  BY <1>2, <1>4, <1>5

LEMMA SaveTellsReview ==
  ASSUME GovernanceTypeInv, JournalOK', reliable, ReviewTold,
         NEW r \in Evidence, NEW tree, NEW after \in Seq(Event),
         Saves(r, tree, after), UNCHANGED bounds,
         \A k \in DOMAIN after : after[k].kind = "CommitCreated"
  PROVE  ReviewTold'
<1> DEFINE previous == load_receipt(evidence, tree)
           told == ReviewEvent(previous, r)
           new == told \o after
<1>1. evidence' = r /\ Appends(new)
  BY DEF Saves
<1>2. told \in Seq(Event)
  BY ReviewEvents
<1>3. SUFFICES ASSUME r.review # None
               PROVE  derive_review_state(r.run_id)' = r.review.decision
  BY <1>1 DEF ReviewTold
<1>4. CASE review_changed(previous, r)
  <2> DEFINE e == [kind |-> "ChangeSetReviewed", run |-> r.run_id, decision |-> r.review.decision]
  <2>1. told = <<e>>
    BY <1>4 DEF ReviewEvent
  <2>2. e.kind = "ChangeSetReviewed" /\ e.run = r.run_id /\ e.decision = r.review.decision
    OBVIOUS
  <2>3. /\ told \in Seq(Event) /\ Len(told) = 1 /\ told[1] = e
    BY <1>2, <2>1
  <2> HIDE DEF e, told
  <2>4. /\ new \in Seq(Event) /\ 1 \in DOMAIN new /\ new[1] = e
        /\ \A k \in DOMAIN new : k = 1 \/ new[k].kind = "CommitCreated"
    <3>1. /\ DOMAIN new = 1 .. Len(told) + Len(after) /\ Len(after) \in Nat
          /\ new \in Seq(Event) /\ DOMAIN after = 1 .. Len(after)
          /\ \A k \in DOMAIN new :
               new[k] = IF k <= Len(told) THEN told[k] ELSE after[k - Len(told)]
      <4>1. told \in Seq(Event)
        BY <2>3
      <4>2. QED
        BY <4>1
    <3> HIDE DEF new
    <3>2. 1 \in DOMAIN new /\ new[1] = told[1]
      BY <2>3, <3>1
    <3>3. ASSUME NEW k \in DOMAIN new, k # 1
          PROVE  k - 1 \in DOMAIN after /\ new[k] = after[k - 1]
      BY <2>3, <3>1, <3>3
    <3>4. QED
      BY <2>3, <3>1, <3>2, <3>3
  <2> HIDE DEF new
  <2>5. /\ JournalGrows
        /\ \A i : IsNew(i) => i - Len(events) \in DOMAIN new /\ events'[i] = new[i - Len(events)]
        /\ IsNew(Len(events) + 1) /\ events'[Len(events) + 1] = e
    BY <1>1, <2>4, AppendedEvents DEF GovernanceTypeInv
  <2> DEFINE i == Len(events) + 1
             S == KindOf("ChangeSetReviewed", r.run_id)'
  <2>6. S \in SUBSET DOMAIN events' /\ i \in S
    BY <2>2, <2>5 DEF KindOf, Kind, IsNew
  <2>7. \A j \in S : IsNew(j) => j = i
    <3> TAKE j \in S
    <3> HAVE IsNew(j)
    <3>1. events'[j].kind = "ChangeSetReviewed"
      BY DEF KindOf, Kind
    <3>2. j - Len(events) = 1
      BY <2>4, <2>5, <3>1
    <3>3. j \in Nat /\ Len(events) \in Nat
      BY <2>5 DEF JournalGrows, GovernanceTypeInv, JournalOK
    <3>4. QED
      BY <3>2, <3>3
  <2>8. Max(S) = i
    <3> HIDE DEF S, i
    <3>1. IsNew(i)
      BY <2>5 DEF i
    <3>2. QED
      BY <2>5, <2>6, <2>7, <3>1, NewIsLatest
  <2>9. derive_review_state(r.run_id)' = events'[Max(S)].decision
    BY <2>6 DEF derive_review_state, Latest
  <2>10. QED
    BY <2>2, <2>5, <2>8, <2>9
<1>5. CASE ~ review_changed(previous, r)
  <2>1. previous # None /\ previous.run_id = r.run_id /\ previous.review = r.review
    BY <1>3, <1>5 DEF review_changed
  <2>2. evidence \in Evidence
    BY <2>1 DEF load_receipt, GovernanceTypeInv, FilesOK
  <2>3. previous = evidence /\ evidence # None
    BY <1>3, <2>1, <2>2, LoadEvidence, GovernanceNoneAssumption
  <2>4. derive_review_state(r.run_id) = r.review.decision
    BY <1>3, <2>1, <2>2, <2>3 DEF ReviewTold, Evidence
  <2>5. JournalGrows /\ \A i : IsNew(i) => events'[i].kind = "CommitCreated"
    <3>1. told = <<>>
      BY <1>5 DEF ReviewEvent
    <3>2. new = after
      BY <3>1
    <3> HIDE DEF new
    <3>3. QED
      BY <1>1, <3>2, AppendedEvents DEF GovernanceTypeInv
  <2>6. QED
    BY <2>4, <2>5, ReviewStateKept DEF GovernanceTypeInv
<1>6. QED
  BY <1>4, <1>5

LEMMA CommitToldKept ==
  ASSUME GovernanceTypeInv, ReceiptsInv, reliable, CommitTold,
         [GovernanceNext]_governanceVars
  PROVE  CommitTold'
<1> SUFFICES ASSUME NEW run \in Run, evidence' # None, evidence'.run_id = run,
                    evidence'.finish # None
             PROVE  KindOf("CommitCreated", run)' # {}
  BY DEF CommitTold
<1>1. JournalGrows
  BY StepTells DEF Brought
<1>2. CASE evidence' = evidence
  <2>1. PICK i \in KindOf("CommitCreated", run) : TRUE
    BY <1>2 DEF CommitTold
  <2>2. i \in KindOf("CommitCreated", run)'
    BY <1>1, <2>1 DEF KindOf, Kind, JournalGrows
  <2>3. QED
    BY <2>2
<1>3. CASE evidence' # evidence
  <2>1. FinishRecords
    <3>1. evidence' # Held
      BY <1>3, HeldEvidence
    <3>2. ~ FinalizeEvidence /\ ~ VerificationSaves
      BY RunSaves, ChecksSave
    <3>3. \A decision \in {"accepted", "rejected"} : ~ ReviewRun(decision)
      BY ReviewSaves
    <3>4. QED
      BY <1>3, <3>1, <3>2, <3>3 DEF GovernanceNext, governanceVars, record_orchestration_run,
         VerificationStarts, VerificationReports, VerificationErrs,
         save_active_work_item_contract, OverrideReads, OverrideAppends,
         link_active_acceptance_evidence, FinishLoads, FinishAcceptance, FinishScope,
         FinishDecides, FinishReloads, GitCommits, Polls, UserStages, UserCommits
  <2> DEFINE told == ReviewEvent(load_receipt(evidence, staged), evidence')
             e == [kind |-> "CommitCreated", run |-> run]
             new == told \o <<e>>
  <2>2. evidence' \in Evidence
    <3>1. GovernanceTypeInv'
      BY GovernanceTypesKept
    <3>2. QED
      BY <3>1 DEF GovernanceTypeInv, FilesOK
  <2>3. told \in Seq(Event)
    BY <2>2, ReviewEvents
  <2>4. Appends(new) /\ UNCHANGED bounds
    BY <1>3, <2>1 DEF FinishRecords, Saves
  <2>5. e \in Event /\ e.kind = "CommitCreated" /\ e.run = run
    BY DEF Event
  <2> HIDE DEF told, e
  <2>6. new \in Seq(Event) /\ \E k \in DOMAIN new : new[k] = e
    <3>1. <<e>> \in Seq(Event) /\ Len(<<e>>) = 1 /\ <<e>>[1] = e
      BY <2>5
    <3>2. /\ new \in Seq(Event) /\ DOMAIN new = 1 .. Len(told) + 1 /\ Len(told) \in Nat
          /\ new[Len(told) + 1] = e
      BY <2>3, <3>1
    <3> HIDE DEF new
    <3>3. QED
      BY <3>2
  <2> HIDE DEF new
  <2>7. PICK k \in DOMAIN new : new[k] = e
    BY <2>6
  <2>8. IsNew(Len(events) + k) /\ events'[Len(events) + k] = e
    BY <2>4, <2>6, <2>7, AppendedEvents DEF GovernanceTypeInv
  <2>9. Len(events) + k \in KindOf("CommitCreated", run)'
    BY <2>5, <2>8 DEF KindOf, Kind, IsNew
  <2>10. QED
    BY <2>9
<1>4. QED
  BY <1>2, <1>3

LEMMA ReviewToldKept ==
  ASSUME GovernanceTypeInv, ReceiptsInv, reliable, ReviewTold,
         [GovernanceNext]_governanceVars
  PROVE  ReviewTold'
<1>1. GovernanceTypeInv'
  BY GovernanceTypesKept
<1>2. <<>> \in Seq(Event) /\ \A k \in DOMAIN <<>> : <<>>[k].kind = "CommitCreated"
  OBVIOUS
<1>3. CASE VerificationSaves
  <2>1. \E r : Saves(r, staged, <<>>)
    BY <1>3 DEF VerificationSaves
  <2>2. PICK r : Saves(r, staged, <<>>)
    BY <2>1
  <2>3. r \in Evidence /\ UNCHANGED bounds
    BY <1>3, <2>2, ChecksSave DEF Saves, VerificationSaves
  <2>4. QED
    BY <1>1, <1>2, <2>2, <2>3, SaveTellsReview DEF GovernanceTypeInv
<1>4. CASE \E decision \in {"accepted", "rejected"} : ReviewRun(decision)
  <2>1. \E r : Saves(r, staged', <<>>)
    BY <1>4 DEF ReviewRun
  <2>2. PICK r : Saves(r, staged', <<>>)
    BY <2>1
  <2>3. r \in Evidence /\ UNCHANGED bounds
    BY <1>4, <2>2, ReviewTypes DEF Saves, ReviewRun
  <2>4. QED
    BY <1>1, <1>2, <2>2, <2>3, SaveTellsReview DEF GovernanceTypeInv
<1>5. CASE FinishRecords /\ ~ UNCHANGED <<evidence, events, lost>>
  <2> DEFINE r == WithFinish(main.saved, main.commit, main.receipt.review.reviewed_paths)
             after == <<[kind |-> "CommitCreated", run |-> r.run_id]>>
  <2>1. Saves(r, staged, after) /\ UNCHANGED bounds
    BY <1>5 DEF FinishRecords
  <2>2. r \in Evidence
    BY <1>5, <2>1, FinishSaves DEF Saves, Derived
  <2> HIDE DEF r
  <2>3. [kind |-> "CommitCreated", run |-> r.run_id] \in Event
    BY <2>2 DEF Event, Evidence
  <2>4. after \in Seq(Event) /\ \A k \in DOMAIN after : after[k].kind = "CommitCreated"
    BY <2>3
  <2> HIDE DEF after
  <2>5. QED
    BY <1>1, <2>1, <2>2, <2>4, SaveTellsReview DEF GovernanceTypeInv
<1>6. CASE /\ evidence' \in {evidence, Held} \/ FinalizeEvidence
           /\ \A i : IsNew(i) => events'[i].kind # "ChangeSetReviewed"
  <2> SUFFICES ASSUME NEW run \in Run, evidence' # None, evidence'.run_id = run,
                      evidence'.review # None
               PROVE  derive_review_state(run)' = evidence'.review.decision
    BY DEF ReviewTold
  <2>1. evidence' = evidence
    BY <1>6, HeldEvidence, RunSaves
  <2>2. JournalGrows
    BY StepTells DEF Brought
  <2>3. derive_review_state(run)' = derive_review_state(run)
    BY <1>6, <2>2, ReviewStateKept DEF GovernanceTypeInv
  <2>4. QED
    BY <2>1, <2>3 DEF ReviewTold
<1>7. CASE ~ (\/ VerificationSaves \/ FinishRecords
              \/ \E decision \in {"accepted", "rejected"} : ReviewRun(decision))
  <2>1. evidence' \in {evidence, Held} \/ FinalizeEvidence
    BY <1>7 DEF GovernanceNext, governanceVars, record_orchestration_run,
       VerificationStarts, VerificationReports, VerificationErrs,
       save_active_work_item_contract, OverrideReads, OverrideAppends,
       link_active_acceptance_evidence, FinishLoads, FinishAcceptance, FinishScope,
       FinishDecides, FinishReloads, GitCommits, Polls, UserStages, UserCommits
  <2>2. CASE events' = events
    BY <1>6, <2>1, <2>2, JournalStill
  <2>3. CASE events' # events
    <3>1. \/ record_orchestration_run \/ VerificationStarts \/ VerificationReports
          \/ VerificationErrs \/ save_active_work_item_contract \/ OverrideAppends
      BY <1>7, <2>3 DEF GovernanceNext, governanceVars, FinalizeEvidence, OverrideReads,
         link_active_acceptance_evidence, FinishLoads, FinishAcceptance, FinishScope,
         FinishDecides, FinishReloads, GitCommits, Polls, UserStages, UserCommits
    <3>2. \A i : IsNew(i) => events'[i].kind # "ChangeSetReviewed"
      BY <3>1, RunTold, ChecksTold, ContractTells, OverrideTells
    <3>3. QED
      BY <1>6, <2>1, <3>2
  <2>4. QED
    BY <2>2, <2>3
<1>8. CASE UNCHANGED <<evidence, events, lost>>
  BY <1>6, <1>8, JournalStill
<1>9. QED
  BY <1>3, <1>4, <1>5, <1>7, <1>8

LEMMA ContractToldKept ==
  ASSUME GovernanceTypeInv, TimesInv, reliable, ContractTold,
         [GovernanceNext]_governanceVars
  PROVE  ContractTold'
<1>1. Brought /\ clock \in Nat
  BY StepTells, Growing
<1>2. contract' = contract \/ save_active_work_item_contract
  BY DEF GovernanceNext, governanceVars,
     record_orchestration_run, FinalizeEvidence, ReviewRun, VerificationStarts,
     VerificationSaves, VerificationReports, VerificationErrs, OverrideReads, OverrideAppends,
     link_active_acceptance_evidence, FinishLoads, FinishAcceptance, FinishScope,
     FinishDecides, FinishReloads, GitCommits, FinishRecords, Polls, UserStages, UserCommits
<1>3. \A kind : \A i \in Kind(kind)' :
        \/ i \in DOMAIN events /\ i \in Kind(kind) /\ events'[i] = events[i]
        \/ IsNew(i) /\ events'[i].kind = kind
  BY <1>1 DEF Brought, JournalGrows, Kind, IsNew
<1>4. \A kind : \A i \in Kind(kind) : i \in Kind(kind)' /\ i \in DOMAIN events
  BY <1>1 DEF Brought, JournalGrows, Kind
<1>5. SUFFICES ASSUME contract' # None, NEW i \in Kind("HumanOverride")'
               PROVE  events'[i].at >= contract'.updated_at
                        <=> \A s \in Kind("ScopeChanged")' : s < i
  BY DEF ContractTold
<1>6. CASE save_active_work_item_contract
  <2>1. contract'.updated_at = clock /\ \A j : IsNew(j) => events'[j].kind = "ScopeChanged"
    BY <1>6, ContractTells DEF save_active_work_item_contract
  <2>2. i \in Kind("HumanOverride") /\ events'[i] = events[i] /\ i \in DOMAIN events
    BY <1>3, <1>5, <2>1
  <2>3. ~ (events'[i].at >= contract'.updated_at)
    <3>1. events[i] \in Event /\ events[i].kind = "HumanOverride"
      BY <2>2 DEF GovernanceTypeInv, JournalOK, Kind
    <3>2. events[i].at \in Nat /\ events[i].at < clock
      BY <2>2, <3>1 DEF Event, TimesInv
    <3>3. QED
      BY <1>1, <2>1, <2>2, <3>2
  <2>4. \E s \in Kind("ScopeChanged")' : ~ (s < i)
    <3> DEFINE new == <<[kind |-> "ScopeChanged"]>>
    <3>1. new \in Seq(Event) /\ 1 \in DOMAIN new /\ new[1].kind = "ScopeChanged"
      <4>1. [kind |-> "ScopeChanged"] \in Event
        BY DEF Event
      <4>2. QED
        BY <4>1
    <3>2. Appends(new) /\ UNCHANGED bounds
      BY <1>6 DEF save_active_work_item_contract
    <3> HIDE DEF new
    <3>3. /\ IsNew(Len(events) + 1) /\ events'[Len(events) + 1] = new[1]
      BY <3>1, <3>2, AppendedEvents DEF GovernanceTypeInv
    <3>4. Len(events) + 1 \in Kind("ScopeChanged")'
      BY <3>1, <3>3 DEF Kind, IsNew
    <3>5. i \in Nat /\ Len(events) + 1 > i
      BY <2>2 DEF GovernanceTypeInv, JournalOK
    <3>6. ~ (Len(events) + 1 < i)
      BY <3>5 DEF GovernanceTypeInv, JournalOK
    <3>7. QED
      BY <3>4, <3>6
  <2>5. QED
    BY <2>3, <2>4
<1>7. CASE contract' = contract /\ ~ save_active_work_item_contract
  <2>1. Kind("ScopeChanged")' = Kind("ScopeChanged")
    <3>1. \A j : IsNew(j) => events'[j].kind # "ScopeChanged"
      BY <1>1, <1>7 DEF Brought, Told
    <3>2. QED
      BY <1>3, <1>4, <3>1
  <2>2. CASE i \in Kind("HumanOverride") /\ events'[i] = events[i]
    BY <1>5, <1>7, <2>1, <2>2 DEF ContractTold
  <2>3. CASE IsNew(i) /\ events'[i].kind = "HumanOverride"
    <3>1. events'[i].at = clock
      BY <1>1, <2>3 DEF Brought, Told
    <3>2. contract.updated_at \in Nat /\ contract.updated_at < clock
      BY <1>5, <1>7 DEF TimesInv, GovernanceTypeInv, FilesOK, Contract
    <3>3. \A s \in Kind("ScopeChanged") : s < i
      BY <1>1, <1>4, <2>3 DEF Brought, JournalGrows
    <3>4. QED
      BY <1>1, <1>7, <2>1, <3>1, <3>2, <3>3
  <2>4. QED
    BY <1>3, <1>5, <2>2, <2>3
<1>8. QED
  BY <1>2, <1>6, <1>7

LEMMA ChecksMove ==
  ASSUME GovernanceTypeInv, [GovernanceNext]_governanceVars
  PROVE  \/ checks' = checks
         \/ VerificationStarts \/ VerificationSaves \/ VerificationReports \/ VerificationErrs
BY DEF GovernanceNext, governanceVars, worker, record_orchestration_run, FinalizeEvidence,
   ReviewRun, save_active_work_item_contract, OverrideReads, OverrideAppends,
   link_active_acceptance_evidence, FinishLoads, FinishAcceptance, FinishScope, FinishDecides,
   FinishReloads, GitCommits, FinishRecords, Polls, UserStages, UserCommits

\* The latest attempt of a run after one was told of.
LEMMA AttemptTold ==
  ASSUME GovernanceTypeInv, GovernanceTypeInv', reliable, NEW e \in Event,
         e.kind \in {"VerificationStarted", "VerificationFinished"},
         Appends(<<e>>), UNCHANGED bounds
  PROVE  \A run : derive_verification(run)' =
           IF run # e.run THEN derive_verification(run)
           ELSE IF e.kind = "VerificationStarted" THEN "running"
           ELSE IF e.success THEN "passed" ELSE "failed"
<1>1. <<e>> \in Seq(Event) /\ DOMAIN <<e>> = {1} /\ <<e>>[1] = e /\ Len(<<e>>) = 1
  OBVIOUS
<1> DEFINE i == Len(events) + 1
<1>2. /\ JournalGrows /\ \A j : IsNew(j) => j = i
      /\ IsNew(i) /\ events'[i] = e
  BY <1>1, AppendedEvents DEF GovernanceTypeInv
<1> HIDE DEF i
<1>3. ASSUME NEW run, run = e.run
      PROVE  derive_verification(run)' =
               IF e.kind = "VerificationStarted" THEN "running"
               ELSE IF e.success THEN "passed" ELSE "failed"
  <2> DEFINE S == (KindOf("VerificationStarted", run) \cup KindOf("VerificationFinished", run))'
  <2>1. S \in SUBSET DOMAIN events' /\ i \in S
    BY <1>2, <1>3 DEF KindOf, Kind, IsNew
  <2>2. Max(S) = i
    <3> HIDE DEF S
    <3>1. QED
      BY <1>2, <2>1, NewIsLatest DEF GovernanceTypeInv
  <2>3. derive_verification(run)' =
          IF events'[Max(S)].kind = "VerificationStarted" THEN "running"
          ELSE IF events'[Max(S)].success THEN "passed" ELSE "failed"
    BY <2>1 DEF derive_verification, Latest
  <2>4. QED
    BY <1>2, <2>2, <2>3
<1>4. ASSUME NEW run, run # e.run
      PROVE  derive_verification(run)' = derive_verification(run)
  BY <1>2, <1>4, VerificationKept DEF GovernanceTypeInv
<1>5. QED
  BY <1>3, <1>4

LEMMA VerificationToldKept ==
  ASSUME GovernanceTypeInv, ReceiptsInv, reliable, VerificationTold,
         [GovernanceNext]_governanceVars
  PROVE  VerificationTold'
<1>1. GovernanceTypeInv'
  BY GovernanceTypesKept
<1>2. ASSUME NEW run \in Run
      PROVE  /\ checks' # None /\ CheckedRun' = run => derive_verification(run)' = "running"
             /\ /\ evidence' # None /\ evidence'.run_id = run
                /\ evidence'.verification # None /\ evidence'.finish = None
                => /\ derive_verification(run)' = "passed" => evidence'.verification.success
                   /\ checks' # None /\ checks'.at = "reporting" /\ checks'.run = run
                        => evidence'.verification.success = checks'.success
  <2>1. CASE VerificationStarts
    <3> DEFINE e == [kind |-> "VerificationStarted", run |-> Held.run_id]
    <3>1. /\ Held # None /\ evidence' = Held /\ Appends(<<e>>) /\ UNCHANGED bounds
          /\ checks'.at = "running" /\ checks'.receipt = Held
      BY <2>1 DEF VerificationStarts
    <3>2. e \in Event /\ e.kind = "VerificationStarted" /\ e.run = Held.run_id
      BY <3>1, HeldEvidence DEF Evidence, Event
    <3> HIDE DEF e
    <3>3. run = Held.run_id => derive_verification(run)' = "running"
      BY <1>1, <3>1, <3>2, AttemptTold
    <3>4. CheckedRun' = Held.run_id
      BY <3>1 DEF CheckedRun
    <3>5. QED
      BY <3>1, <3>3, <3>4
  <2>2. CASE VerificationReports
    <3> DEFINE e == [kind |-> "VerificationFinished", run |-> checks.run,
                     success |-> checks.success]
    <3>1. /\ checks # None /\ checks.at = "reporting" /\ Appends(<<e>>) /\ checks' = None
          /\ evidence' = evidence /\ UNCHANGED bounds
      BY <2>2 DEF VerificationReports, FinishedEvent
    <3>2. /\ e \in Event /\ e.kind = "VerificationFinished" /\ e.run = checks.run
          /\ e.success = checks.success
      BY <3>1 DEF Event, GovernanceTypeInv, ThreadsOK, Running, Reporting
    <3> HIDE DEF e
    <3>3. derive_verification(run)' =
            IF run # checks.run THEN derive_verification(run)
            ELSE IF checks.success THEN "passed" ELSE "failed"
      BY <1>1, <3>1, <3>2, AttemptTold
    <3>4. CASE run = checks.run
      BY <3>1, <3>3, <3>4 DEF VerificationTold
    <3>5. CASE run # checks.run
      BY <3>1, <3>3, <3>5 DEF VerificationTold
    <3>6. QED
      BY <3>4, <3>5
  <2>3. CASE VerificationErrs /\ ~ UNCHANGED <<events, lost>>
    <3> DEFINE e == [kind |-> "VerificationFinished", run |-> checks.receipt.run_id,
                     success |-> FALSE]
    <3>1. /\ checks # None /\ checks.at = "running" /\ Appends(<<e>>) /\ checks' = None
          /\ evidence' = evidence /\ UNCHANGED bounds
      BY <2>3 DEF VerificationErrs, FinishedEvent
    <3>2. /\ e \in Event /\ e.kind = "VerificationFinished" /\ e.run = checks.receipt.run_id
          /\ e.success = FALSE
      BY <3>1 DEF Event, GovernanceTypeInv, ThreadsOK, Running, Reporting, Evidence
    <3> HIDE DEF e
    <3>3. derive_verification(run)' = (IF run # e.run THEN derive_verification(run) ELSE "failed")
      BY <1>1, <3>1, <3>2, AttemptTold
    <3>4. QED
      BY <3>1, <3>3 DEF VerificationTold
  <2>4. ASSUME ~ VerificationStarts, ~ VerificationReports,
               ~ VerificationErrs \/ UNCHANGED <<events, lost>>
        PROVE  derive_verification(run)' = derive_verification(run)
    <3>1. Brought
      BY StepTells
    <3>2. \A i : IsNew(i) =>
            events'[i].kind \notin {"VerificationStarted", "VerificationFinished"}
      BY <2>4, <3>1 DEF Brought, Told, IsNew
    <3>3. QED
      BY <3>1, <3>2, VerificationKept DEF Brought, GovernanceTypeInv
  <2>5. CASE VerificationErrs /\ UNCHANGED <<events, lost>>
    <3>1. ~ VerificationStarts /\ ~ VerificationReports /\ checks' = None /\ evidence' = evidence
      BY <2>5 DEF VerificationErrs, VerificationStarts, VerificationReports
    <3>2. QED
      BY <2>4, <2>5, <3>1 DEF VerificationTold
  <2>6. CASE VerificationSaves
    <3>1. ~ VerificationStarts /\ ~ VerificationReports /\ ~ VerificationErrs
      <4>1. checks # None /\ checks.at = "running" /\ checks'.at = "reporting" /\ checks' # None
        BY <2>6, ChecksSave DEF VerificationSaves
      <4>2. QED
        BY <4>1 DEF VerificationErrs, VerificationStarts, VerificationReports
    <3>2. derive_verification(run)' = derive_verification(run)
      BY <2>4, <3>1
    <3>3. /\ CheckedRun = checks.receipt.run_id /\ CheckedRun' = checks.receipt.run_id
          /\ checks # None
      BY <2>6, ChecksSave DEF CheckedRun, VerificationSaves
    <3>4. QED
      BY <2>6, <3>2, <3>3, ChecksSave DEF VerificationTold
  <2>7. CASE /\ ~ VerificationStarts /\ ~ VerificationReports /\ ~ VerificationErrs
             /\ ~ VerificationSaves
    <3>1. derive_verification(run)' = derive_verification(run)
      BY <2>4, <2>7
    <3>2. checks' = checks
      BY <2>7, ChecksMove
    <3>3. evidence' # None /\ evidence'.verification # None /\ evidence'.finish = None =>
            evidence' = evidence
      BY <2>7, EvidenceMoves, FinishSaves
    <3>4. CheckedRun' = CheckedRun
      BY <3>2 DEF CheckedRun
    <3>5. QED
      BY <3>1, <3>2, <3>3, <3>4 DEF VerificationTold
  <2>8. QED
    BY <2>1, <2>2, <2>3, <2>5, <2>6, <2>7
<1>3. QED
  BY <1>2 DEF VerificationTold

----------------------------------------------------------------------------
\* The inductive invariant.

GovernanceInv ==
  /\ GovernanceTypeInv /\ ReceiptsInv /\ TimesInv /\ LinksInv /\ ChangeSetsInv
  /\ OverridesInv /\ AcceptanceInv /\ ToldInv

LEMMA GovernanceStarts ==
  ASSUME GovernanceInit
  PROVE  GovernanceInv
<1>1. /\ evidence = None /\ bindings = {} /\ events = <<>> /\ clock \in 1 .. MaxClock
      /\ ended = {} /\ ending = None /\ checks = None /\ main = IdleMain
      /\ user_git \in 0 .. MaxUserGit /\ room \in 0 .. MaxEvents
      /\ reliable \in BOOLEAN /\ lost = FALSE
  BY DEF GovernanceInit
<1>2. GitOK
  <2>1. /\ base = FirstCommit /\ objects = [c \in {FirstCommit} |-> [p \in Path |-> FirstContent]]
        /\ staged = objects[FirstCommit]
    BY DEF GovernanceInit
  <2>2. [p \in Path |-> FirstContent] \in Tree /\ FirstCommit \in Commit
    BY GovernanceAssumption DEF Tree
  <2>3. QED
    BY <2>1, <2>2 DEF GitOK
<1>3. /\ contract \in Contract \cup {None}
      /\ contract # None => contract.updated_at = 0
  <2>1. contract = None \/ \E r \in Rules : contract = [rules |-> r, updated_at |-> 0]
    BY DEF GovernanceInit
  <2>2. QED
    BY <2>1, GovernanceBounds DEF Contract
<1>4. events \in Seq(Event) /\ Len(events) = 0 /\ DOMAIN events = {}
  BY <1>1
<1>5. \A kind : Kind(kind) = {}
  BY <1>4 DEF Kind
<1>6. IdleMain \in MainThread /\ IdleMain.at = "idle" /\ IdleMain.receipt = None /\ IdleMain.saved = None
  BY DEF IdleMain, MainThread
<1>7. GovernanceTypeInv
  <2>1. FilesOK
    BY <1>1, <1>3 DEF FilesOK
  <2>2. JournalOK
    <3>1. Len(events) <= room
      BY <1>1, <1>4, GovernanceBounds
    <3>2. lost \in BOOLEAN
      BY <1>1
    <3>3. QED
      BY <1>1, <1>4, <3>1, <3>2 DEF JournalOK
  <2>3. ThreadsOK /\ MainOK /\ BoundsOK
    BY <1>1, <1>6 DEF ThreadsOK, MainOK, BoundsOK
  <2>4. QED
    BY <1>2, <2>1, <2>2, <2>3 DEF GovernanceTypeInv
<1>8. Live = {}
  BY <1>1, <1>6 DEF Live
<1>9. ReceiptsInv /\ LinksInv /\ ChangeSetsInv
  BY <1>1, <1>5, <1>8 DEF ReceiptsInv, LinksInv, ChangeSetsInv
<1>10. TimesInv
  BY <1>1, <1>3, <1>5, GovernanceBounds DEF TimesInv
<1>11. OverridesInv /\ AcceptanceInv
  BY <1>1, <1>5, <1>6 DEF OverridesInv, AcceptanceInv
<1>12. ToldInv
  BY <1>1, <1>5 DEF ToldInv, ReviewTold, CommitTold, VerificationTold, ContractTold
<1>13. QED
  BY <1>7, <1>9, <1>10, <1>11, <1>12 DEF GovernanceInv

LEMMA GovernanceKept ==
  ASSUME GovernanceInv, [GovernanceNext]_governanceVars
  PROVE  GovernanceInv'
<1>1. GovernanceTypeInv' /\ ReceiptsInv' /\ TimesInv' /\ LinksInv' /\ ChangeSetsInv'
      /\ OverridesInv' /\ AcceptanceInv'
  BY GovernanceTypesKept, ReceiptsKept, TimesKept, LinksKept, ChangeSetsKept, OverridesKept,
     AcceptanceKept DEF GovernanceInv
<1>2. ToldInv'
  BY Growing, ReviewToldKept, CommitToldKept, VerificationToldKept, ContractToldKept
     DEF GovernanceInv, ToldInv
<1>3. QED
  BY <1>1, <1>2 DEF GovernanceInv

LEMMA GovernanceInvariant == GovernanceSpec => []GovernanceInv
<1>1. GovernanceInit => GovernanceInv
  BY GovernanceStarts
<1>2. GovernanceInv /\ [GovernanceNext]_governanceVars => GovernanceInv'
  BY GovernanceKept
<1>3. QED
  BY <1>1, <1>2, PTL DEF GovernanceSpec

LEMMA GovernanceTyped == GovernanceInv => GovernanceTypeOK
<1> SUFFICES ASSUME GovernanceInv
             PROVE  GovernanceTypeOK
  OBVIOUS
<1>1. evidence # None => evidence.run_id \in ended /\ validate_receipt(evidence)
  BY LiveTypes DEF GovernanceInv, ReceiptsInv, Sound
<1>2. \A i \in DOMAIN events : events[i] \in Event
  BY DEF GovernanceInv, GovernanceTypeInv, JournalOK
<1>3. QED
  BY <1>1, <1>2 DEF GovernanceInv, GovernanceTypeInv, GitOK, FilesOK, JournalOK, ThreadsOK,
                    BoundsOK, TimesInv, GovernanceTypeOK

\* The stores of the commit policy and its two threads keep to their types: every event,
\* contract, link and receipt in reach is of its kind and of a run that has ended, and a
\* criterion of a run has one link (receipt.rs, work_item_contract.rs,
\* acceptance_evidence.rs).
THEOREM GovernanceTypeCorrect == GovernanceSpec => []GovernanceTypeOK
BY GovernanceTyped, GovernanceInvariant, PTL

LEMMA OverridesCovered == GovernanceInv => OverrideCoversViolation
<1> DEFINE paths == evidence.review.reviewed_paths
<1> SUFFICES ASSUME GovernanceInv, evidence # None, AcceptedReview(evidence),
                    derive_commit_scope_policy(contract, paths, evidence.run_id).overridden
             PROVE  \E i \in KindOf("HumanOverride", evidence.run_id) :
                      events[i].files = Violating(contract.rules, paths)
  BY DEF OverrideCoversViolation
<1>1. /\ derive_scope_compliance(contract, paths) = "violation"
      /\ ValidOverrides(contract, evidence.run_id) # {}
  BY DEF derive_commit_scope_policy
<1>2. contract # None
  BY <1>1 DEF derive_scope_compliance
<1>3. PICK i \in ValidOverrides(contract, evidence.run_id) : TRUE
  BY <1>1
<1>4. /\ i \in KindOf("HumanOverride", evidence.run_id) /\ i \in Kind("HumanOverride")
      /\ events[i].run = evidence.run_id /\ events[i].at >= contract.updated_at
  BY <1>3 DEF ValidOverrides, Overrides, KindOf, Kind
<1>5. PICK j \in Kind("ChangeSetCreated") :
        /\ events[j].run = events[i].run
        /\ events[i].files = Violating(contract.rules, events[j].files)
  BY <1>2, <1>4 DEF GovernanceInv, OverridesInv
<1>6. evidence \in Live
  BY LiveTypes DEF GovernanceInv
<1>7. evidence.changeset_digest = events[j].files
  BY <1>4, <1>5, <1>6 DEF GovernanceInv, ChangeSetsInv
<1>8. evidence.review.reviewed_paths = evidence.changeset_digest
  BY <1>6 DEF GovernanceInv, ReceiptsInv, Sound, AcceptedReview
<1>9. QED
  BY <1>4, <1>5, <1>7, <1>8

\* A scope violation that an override lets through is one a human saw: some override of the
\* run lists exactly the files the contract now forbids, however contract, runs and reviews
\* moved since (commit_policy.rs: latest_valid_scope_override).
THEOREM OverridesCoverViolations == GovernanceSpec => []OverrideCoversViolation
BY OverridesCovered, GovernanceInvariant, PTL

LEMMA AcceptanceFollows == GovernanceInv => AcceptanceIsOfTheCommit
<1> SUFFICES ASSUME GovernanceInv, main.at = "record", NEW c \in main.criteria
             PROVE  [criterion |-> c, run |-> main.receipt.run_id,
                     tree |-> objects[main.commit], passed |-> TRUE] \in linked
  BY DEF AcceptanceIsOfTheCommit
<1> DEFINE r == main.receipt
<1>1. /\ r.verification # None
      /\ [criterion |-> c, run |-> r.run_id, tree |-> r.verification.index_tree_sha,
          passed |-> TRUE] \in linked
      /\ objects[main.commit] = r.review.index_tree_after_accept
  BY DEF GovernanceInv, AcceptanceInv
<1>2. r # None /\ r \in Live /\ AcceptedReview(r)
  BY LiveTypes DEF GovernanceInv, GovernanceTypeInv, MainOK
<1>3. r.verification.index_tree_sha = r.review.index_tree_after_accept
  BY <1>1, <1>2 DEF GovernanceInv, ReceiptsInv, Sound, validate_receipt, AcceptedReview
<1>4. QED
  BY <1>1, <1>3

\* When Finish records its commit, every criterion it counted as proven was linked by a
\* human to a passing command run on the very tree of that commit, although the report and
\* the review were loaded apart (safe_commit_manifest.rs, acceptance_evidence.rs).
THEOREM AcceptanceBelongsToTheCommit == GovernanceSpec => []AcceptanceIsOfTheCommit
BY AcceptanceFollows, GovernanceInvariant, PTL

\* The run that Changes shows and the receipt of that run are of the same ChangeSet.
LEMMA ShownChangeSet ==
  ASSUME GovernanceInv, HasChangeSet, Held # None, Held.run_id = CurrentRun
  PROVE  /\ Held \in Evidence /\ Held.changeset_digest = ChangedFiles
         /\ Held.changeset_digest # None /\ Held.run_id \in Run
         /\ Held.review # None => Held = evidence /\ Held.review.reviewed_paths = ChangedFiles
         /\ Held.verification # None => Held = evidence
         /\ Held.finish # None => Held = evidence
         /\ \A i \in Kind("HumanOverride") : events[i].run = CurrentRun => i > ChangeSetIndex
<1>1. /\ Held \in Evidence /\ evidence \in Evidence /\ Held.run_id = evidence.run_id
      /\ Held.changeset_digest = evidence.changeset_digest /\ evidence # None
      /\ Held = evidence \/ (Held.review = None /\ Held.verification = None /\ Held.finish = None)
  BY HeldEvidence DEF GovernanceInv
<1>2. evidence \in Live /\ Held.run_id \in Run
  BY <1>1, LiveTypes DEF GovernanceInv, Evidence
<1>3. /\ ChangeSetIndex \in Kind("ChangeSetCreated") /\ CurrentRun = events[ChangeSetIndex].run
      /\ ChangedFiles = events[ChangeSetIndex].files /\ ChangedFiles \in SUBSET Path
  BY CurrentChangeSet DEF GovernanceInv, GovernanceTypeInv
<1>4. evidence.changeset_digest = ChangedFiles
  BY <1>1, <1>2, <1>3 DEF GovernanceInv, ChangeSetsInv
<1>5. ChangedFiles # None
  BY <1>3, GovernanceBounds DEF Digest
<1>6. evidence.review # None => evidence.review.reviewed_paths = ChangedFiles
  BY <1>2, <1>4 DEF GovernanceInv, ReceiptsInv, Sound
<1>7. ASSUME NEW i \in Kind("HumanOverride"), events[i].run = CurrentRun
      PROVE  i > ChangeSetIndex
  <2>1. PICK j \in Kind("ChangeSetCreated") : j < i /\ events[j].run = CurrentRun
    BY <1>7 DEF GovernanceInv, OverridesInv
  <2>2. j = ChangeSetIndex
    BY <1>3, <2>1 DEF GovernanceInv, ChangeSetsInv
  <2>3. i \in Nat /\ j \in Nat
    BY <1>7, <2>1 DEF Kind, GovernanceInv, GovernanceTypeInv, JournalOK
  <2>4. QED
    BY <2>1, <2>2, <2>3
<1>8. QED
  BY <1>1, <1>2, <1>4, <1>5, <1>6, <1>7

\* Both surfaces count the same overrides.
LEMMA SameOverrides ==
  ASSUME GovernanceInv, HasChangeSet, Held # None, Held.run_id = CurrentRun, reliable,
         contract # None
  PROVE  derive_valid_scope_override(CurrentRun) <=> ValidOverrides(contract, CurrentRun) # {}
<1> DEFINE given == {i \in Overrides(CurrentRun) : i > ChangeSetIndex}
<1>1. /\ given = Overrides(CurrentRun) /\ given \in SUBSET DOMAIN events
      /\ given \subseteq Kind("HumanOverride")
  BY ShownChangeSet DEF Overrides, Kind
<1>2. \A i \in given : events[i].at >= contract.updated_at
                         <=> \A s \in Kind("ScopeChanged") : s < i
  BY <1>1 DEF GovernanceInv, ToldInv, ContractTold
<1>3. ValidOverrides(contract, CurrentRun)
        = {i \in given : \A s \in Kind("ScopeChanged") : s < i}
  BY <1>1, <1>2 DEF ValidOverrides
<1>4. \A i \in given, s \in Kind("ScopeChanged") : i # s /\ i \in Nat /\ s \in Nat
  BY <1>1 DEF Kind, GovernanceInv, GovernanceTypeInv, JournalOK
<1>5. derive_valid_scope_override(CurrentRun)
        <=> given # {} /\ \A s \in Kind("ScopeChanged") : s <= Max(given)
  BY DEF derive_valid_scope_override
<1> HIDE DEF given
<1>6. given # {} => Max(given) \in given /\ \A i \in given : i <= Max(given)
  BY <1>1, LatestEvent DEF GovernanceInv, GovernanceTypeInv
<1>7. ASSUME NEW i \in given, \A s \in Kind("ScopeChanged") : s < i
      PROVE  derive_valid_scope_override(CurrentRun)
  BY <1>4, <1>5, <1>6, <1>7
<1>8. ASSUME derive_valid_scope_override(CurrentRun)
      PROVE  ValidOverrides(contract, CurrentRun) # {}
  BY <1>3, <1>4, <1>5, <1>6, <1>8
<1>9. QED
  BY <1>3, <1>7, <1>8

LEMMA ChangesFollow == GovernanceInv => ChangesTellsTheTruth
<1> DEFINE r == Held
           fresh == r # None /\ active_verification_is_fresh(r)
<1> SUFFICES ASSUME GovernanceInv, reliable, HasChangeSet, r # None, r.run_id = CurrentRun
             PROVE  /\ ChangesGate(r) = "ready" =>
                         /\ r.verification # None
                         /\ valid_for(r.verification, base, staged, r.changeset_digest)
                    /\ /\ AcceptedReview(r) /\ r.finish = None
                       /\ KindOf("CommitCreated", r.run_id) = {}
                       => (ChangesGate(r) = "scope_violation"
                             <=> ~ derive_commit_scope_policy(contract,
                                     r.review.reviewed_paths, r.run_id).allowed)
  BY DEF ChangesTellsTheTruth
<1>1. ChangesGate(r) = derive_gate(CurrentRun, fresh)
  BY DEF ChangesGate
<1>2. /\ ReviewTold /\ CommitTold /\ VerificationTold
      /\ evidence # None /\ evidence.run_id = CurrentRun /\ CurrentRun \in Run
  BY HeldEvidence, ShownChangeSet DEF GovernanceInv, ToldInv
<1>3. ASSUME ChangesGate(r) = "ready"
      PROVE  /\ r.verification # None
             /\ valid_for(r.verification, base, staged, r.changeset_digest)
  <2>1. /\ KindOf("CommitCreated", CurrentRun) = {}
        /\ derive_verification(CurrentRun) \notin {"not_run", "running", "failed"}
        /\ fresh
    BY <1>1, <1>3 DEF derive_gate
  <2>2. derive_verification(CurrentRun) = "passed"
    BY <2>1 DEF derive_verification
  <2>3. r = evidence /\ r.verification # None
    BY <2>1, ShownChangeSet DEF active_verification_is_fresh
  <2>4. r.finish = None
    BY <1>2, <2>1, <2>3 DEF CommitTold
  <2>5. r.verification.success
    BY <1>2, <2>2, <2>3, <2>4 DEF VerificationTold
  <2>6. QED
    BY <2>1, <2>3, <2>4, <2>5, ShownChangeSet DEF active_verification_is_fresh, valid_for
<1>4. ASSUME AcceptedReview(r), r.finish = None, KindOf("CommitCreated", r.run_id) = {}
      PROVE  ChangesGate(r) = "scope_violation"
               <=> ~ derive_commit_scope_policy(contract, r.review.reviewed_paths,
                                                r.run_id).allowed
  <2>1. r = evidence /\ r.review # None /\ r.review.reviewed_paths = ChangedFiles
    BY <1>4, ShownChangeSet DEF AcceptedReview
  <2>2. derive_review_state(CurrentRun) = "accepted"
    BY <1>2, <1>4, <2>1 DEF ReviewTold, AcceptedReview
  <2>3. ChangesGate(r) = "scope_violation"
          <=> /\ derive_scope_compliance(contract, ChangedFiles) = "violation"
              /\ ~ derive_valid_scope_override(CurrentRun)
    BY <1>1, <1>4, <2>2 DEF derive_gate
  <2>4. derive_commit_scope_policy(contract, ChangedFiles, CurrentRun).allowed
          <=> \/ derive_scope_compliance(contract, ChangedFiles) # "violation"
              \/ ValidOverrides(contract, CurrentRun) # {}
    BY DEF derive_commit_scope_policy
  <2>5. derive_scope_compliance(contract, ChangedFiles) = "violation" => contract # None
    BY DEF derive_scope_compliance
  <2>6. QED
    BY <2>1, <2>3, <2>4, <2>5, SameOverrides
<1>5. QED
  BY <1>3, <1>4

\* While no append fails, Changes tells of the run in the ledger what Finish would: Ready
\* only with a successful verification of this HEAD, index and ChangeSet, and for an
\* Accepted, uncommitted one a scope violation exactly when the commit policy forbids it
\* (change_governance.rs and change_verification.rs beside commit_policy.rs).
THEOREM ChangesTellTheTruth == GovernanceSpec => []ChangesTellsTheTruth
BY ChangesFollow, GovernanceInvariant, PTL
=============================================================================
