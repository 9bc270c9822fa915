SPECIFICATION Spec
CONSTANTS
  EffectKeys = {k1, k2}
  RunIDs = {1, 2}
  Malformed = Malformed
  Replicas = {r1, r2}
  MaxDocs = 2
SYMMETRY Symmetry
INVARIANTS HoldsMinimumOfHeard Convergence StaleDeltaSuffices ReportCoversChanges
