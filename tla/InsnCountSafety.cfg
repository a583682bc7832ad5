SPECIFICATION CountSpec
CONSTANTS
  Harts = {main, h1, h2}
  Main = main
  HowMany = 2
  MaxRetired = 3
INVARIANTS TotalConserved CountExact NoDrift ReportDivides
SYMMETRY Symmetry
