SPECIFICATION Spec
CONSTANTS
  Tasks = {t1, t2, t3}
  Agents = {a1}
  Nobody = Nobody
SYMMETRY Symmetry
INVARIANT CyclesSurfaced
CHECK_DEADLOCK FALSE
