SPECIFICATION Spec
CONSTANTS
  Tasks = {t1, t2, t3, t4}
  Agents = {a1}
  Nobody = Nobody
SYMMETRY Symmetry
CONSTRAINT FewDependencies
INVARIANTS
  TypeOK
  InDegreeExact
  GatedStart
  GraphConsistent
PROPERTIES
  ClosedForGood
  RefinesLifecycle
CHECK_DEADLOCK FALSE
