SPECIFICATION Spec
CONSTANTS
  Cores = {main, c1}
  Main = main
  Text = {0, 1}
  MaxCores = 2
  Unset = {0}
  Imiss = 15
  Dmiss = 7
  Jump = 2
  MaxInsns = 1
INVARIANT SlotIsNumber
