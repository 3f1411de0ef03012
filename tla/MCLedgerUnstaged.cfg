SPECIFICATION Spec
CONSTANTS
  p = p
  q = q
  old = old
  new = new
  None = None
  Run = {r1, r2}
  Path <- Paths
  Content <- Contents
  Commit = {c0, c1}
  Verifier = {v1}
  Root = c0
  BaseContent = old
  Tidy = FALSE
  Broken <- NeedsBoth
  ChangeSets <- OneFile
  MaxEdits = 2
CHECK_DEADLOCK FALSE
INVARIANT VerificationIsOfTheIndex
