SPECIFICATION Spec
INVARIANTS
  TypeOK
  CleanReadIsRight
