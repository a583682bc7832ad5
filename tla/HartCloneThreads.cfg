SPECIFICATION FairSpec
CONSTANTS
  Main = main  NoHart = none
  Harts = {main, h1, h2, h3}
  Contexts = {c1}
  NPcs = 1
  Outcomes = {"thread"}
INVARIANTS CallerHeld ListComplete NumbersUnique NumbersDense
PROPERTIES CloneReturns ChildStarts
