SPECIFICATION Spec
CONSTANTS
  Nobody = Nobody
  Callers = {r1, r2, v1}
  RigelRuns = {r1, r2}
  VegaRuns = {v1}
  Names = {n1, n2}
  RigelTasks <- MCRigelTasks
  VegaTasks <- MCVegaTasks
  Scores <- MCScores
  Cap = 1
  MaxMishaps = 2
SYMMETRY Symmetry
INVARIANTS
  SlotsBalance
  
