\* Two groups, one dimension that can be drilled, two runs or one run and
\* three breakdowns.
SPECIFICATION Spec
CONSTANTS
  Groups = {g1, g2}
  Dims = {"overall", "function", "blocking"}
  Metrics = {"selfPctBusy"}
  Categories = {"all"}
  Keys = {k1}
  MaxWork = 6
  None = None
SYMMETRY MCSymmetry
INVARIANTS
  TableIsStored
  NothingHangs
  SettlesOnChoice
  DrawerIsCurrent
CHECK_DEADLOCK FALSE
