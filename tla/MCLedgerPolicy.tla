--------------------------- MODULE MCLedgerPolicy ---------------------------
(* EvidenceLedger, or CommitGovernance beside a ledger that stands still: from the
   start of a Work Item whose appends may fail, and from a run that is accepted,
   verified and linked, with a second run, a contract edit or a staging to come. *)
EXTENDS MCLedger, CommitGovernance

CONSTANTS r1, r2

\* What the starting states below take from the instance.
ASSUME InstanceAssumption ==
  /\ Path = {p, q} /\ p # q /\ {old, new} \subseteq Content /\ {r1, r2} \subseteq Run
  /\ "done" \in Criterion /\ {"test"} \in Suites
  /\ [allowed |-> {p}, protected |-> {}, criteria |-> {"done"}] \in Rules
  /\ MaxClock >= 3 /\ MaxEvents >= 4

VARIABLE focus   \* a configuration: the specification that moves

OnlyP == [allowed |-> {p}, protected |-> {}, criteria |-> {"done"}]
NeitherFile == [allowed |-> None, protected |-> {p, q}, criteria |-> {}]
Contracts == {OnlyP, NeitherFile}
FileSets == {{q}, {p, q}}
AllNew == [x \in Paths |-> new]
FirstTry == [x \in Paths |-> IF x = p THEN new ELSE old]
Worktrees == {AllNew}
Criteria == {"done"}
OneSuite == {{"test"}}

LedgerParked == Init /\ serial
PolicyParked ==
  GovernanceInit /\ contract = None /\ clock = 1 /\ room = 0 /\ reliable /\ user_git = 0

FromTheStart ==
  /\ GovernanceInit
  /\ contract # None /\ contract.rules = OnlyP
  /\ clock = MaxClock - 2 /\ room = 4 /\ ~ reliable /\ user_git = 0

LinkedReceipt ==
  LET r == WithReview(FreshReceipt(r1, Paths), "accepted", Paths, FirstTry)
  IN WithChecks([receipt |-> r, head |-> FirstCommit, tree |-> FirstTry], {"test"}, {"test"})

Earlier(r, time) == [r EXCEPT !.verification.verified_at = time]

FromLinked ==
  /\ base = FirstCommit
  /\ objects = [c \in {FirstCommit} |-> [x \in Path |-> FirstContent]]
  /\ staged = FirstTry
  /\ contract = [rules |-> OnlyP, updated_at |-> 0]
  /\ clock = 3
  /\ evidence = Earlier(LinkedReceipt, 1)
  /\ bindings = {[criterion |-> "done", run_id |-> r1, changeset_digest |-> Paths,
                  verified_at |-> 1, command |-> "test", linked_at |-> 2]}
  /\ linked = {[criterion |-> "done", run |-> r1, tree |-> FirstTry, passed |-> TRUE]}
  /\ events = <<[kind |-> "ChangeSetCreated", run |-> r1, files |-> Paths],
                [kind |-> "ChangeSetReviewed", run |-> r1, decision |-> "accepted"],
                [kind |-> "VerificationStarted", run |-> r1],
                [kind |-> "VerificationFinished", run |-> r1, success |-> TRUE]>>
  /\ ended = {r1, r2} /\ ending = None /\ checks = None
  /\ main = IdleMain /\ user_git = MaxUserGit
  /\ room = MaxEvents /\ reliable = TRUE /\ lost = FALSE

MCInit ==
  \/ focus = "ledger" /\ Init /\ PolicyParked
  \/ focus = "policy" /\ LedgerParked /\ (FromTheStart \/ FromLinked)

MCNext ==
  \/ focus = "ledger" /\ Next /\ UNCHANGED <<governanceVars, focus>>
  \/ focus = "policy" /\ GovernanceNext /\ UNCHANGED <<vars, focus>>

\* Both keep to their types: the receipts, and the stores that CommitGovernance adds.
LedgerTypesOK == TypeOK /\ GovernanceTypeOK

MCSpec == MCInit /\ [][MCNext]_<<vars, governanceVars, focus>>
=============================================================================
