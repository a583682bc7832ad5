SPECIFICATION Spec
CONSTANTS
  Main = main  NoHart = none
  Harts = {main, h1, h2}
  Contexts = {c1, c2}
  NPcs = 2
  Outcomes = {"thread", "fork", "fail"}
INVARIANT ImageInherited
PROPERTY GuestSpec
SYMMETRY Symmetry
