SPECIFICATION Spec
CONSTANTS
  c0 = c0
  c1 = c1
  c2 = c2
  None = None
  Run = {r1}
  p = p
  q = q
  Path <- Paths
  Content = {old, new}
  ChangeSets <- OneFile
  Commit <- Commits3
  Root <- c0
  BaseContent = old
  Interleaved = TRUE
  FollowCta = FALSE
  MaxExternal = 1
  MaxFaults = 1
SYMMETRY FreshCommits
CHECK_DEADLOCK FALSE
INVARIANTS TypeOK FinishTreeReviewed
PROPERTIES NoSecondCommit 
