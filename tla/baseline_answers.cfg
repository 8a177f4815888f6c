SPECIFICATION FairSpec
CONSTANTS
  n1 = n1
  n2 = n2
  r1 = r1
  r2 = r2
  k1 = k1
  k2 = k2
  e1 = e1
  e2 = e2
  Names = {n1}
  Rusts = {r1, r2}
  Cs = {k1, k2}
  Envs = {e1, e2}
  Workers = 2
  MaxRuns = 2
  MaxEdits = 2
  MaxKills = 0
  EditsDuringRun = FALSE
  TrustSummary = FALSE
PROPERTIES
  DowngradeAlarms
  ImplementsLedger
  
CHECK_DEADLOCK FALSE
