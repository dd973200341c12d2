SPECIFICATION Spec
CONSTANTS
  Absent = Absent
  Drop = Drop
  Panic = Panic
  Keys = {k1, k2, k3}
  Values = {added, deleted}
  Added = added
  Deleted = deleted
  MaxOps = 6
  Merge <- CreateDeleteMerge
SYMMETRY KeySymmetry
INVARIANTS
  MatchesReference
  DeliveriesMatchReference
CHECK_DEADLOCK FALSE
