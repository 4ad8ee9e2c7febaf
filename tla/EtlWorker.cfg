CONSTANTS
  t1 = t1
  t2 = t2
  NoOne = NoOne
  Workers = {w1, w2}
  Manifest <- MCManifest
  Rows <- MCRows
  Modes = {"initial", "final_delta", "dry_run"}
  MaxAttempts = 1
  RatioNum = 1
  RatioDen = 2
SYMMETRY Symmetry
SPECIFICATION Spec
CHECK_DEADLOCK FALSE
INVARIANTS
  ValidatedAccounted
  LimitHoldsOverResumes
  SuccessIsComplete
