SPECIFICATION Spec
CONSTANTS
  n1 = n1
  n2 = n2
  r1 = r1
  r2 = r2
  k1 = k1
  k2 = k2
  e1 = e1
  e2 = e2
  Names = {n1}
  Rusts = {r1, r2}
  Cs = {k1}
  Envs = {e1, e2}
  Workers = 2
  MaxRuns = 3
  MaxEdits = 1
  MaxKills = 1
  EditsDuringRun = FALSE
  TrustSummary = FALSE
PROPERTY
  DowngradeAlarms
CHECK_DEADLOCK FALSE
