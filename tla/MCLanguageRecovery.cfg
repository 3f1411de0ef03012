SPECIFICATION Spec
CONSTANTS
  Nothing = Nothing
  Main = Main
  Worker = {w1}
  Direct = {d1}
  InstallRecipe = TRUE
INVARIANTS TypeOK OneRepairAtATime 
