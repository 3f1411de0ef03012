SPECIFICATION MCSpec
CONSTANTS
  p = p
  q = q
  old = old
  new = new
  r1 = r1
  r2 = r2
  None = None
  Run = {r1, r2}
  Path <- Paths
  Content <- Contents
  Commit = {c0, c1}
  Verifier = {v1}
  Root = c0
  BaseContent = old
  Tidy = TRUE
  Broken <- NeedsBoth
  ChangeSets <- OneFile
  MaxEdits = 2
  Criterion <- Criteria
  Suites <- OneSuite
  Rules <- Contracts
  RunFiles <- FileSets
  WorkTrees <- Worktrees
  FirstCommit = c0
  FirstContent = old
  MaxEvents = 8
  MaxClock = 5
  MaxUserGit = 1
CHECK_DEADLOCK FALSE
INVARIANTS LedgerTypesOK FinishWasAccepted NoResurrectedApproval LedgerValid VerifiedTreePasses
INVARIANTS  AcceptanceIsOfTheCommit 
