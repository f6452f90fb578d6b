\* Up to two designs with up to three drawings each, four of them different.
CONSTANTS
  Designs = 2
  Counts = {0, 2, 3, 9}
  MaxCount = 4
  Ranks = {1, 2, 3}
  Layouts = {l1, l2}
  Svgs = {v1, v2, v3, v4}
SPECIFICATION Spec
SYMMETRY MCSymmetry
INVARIANTS
  SetIsFull
  LayoutsFirst
  DesignsFair
CHECK_DEADLOCK FALSE
