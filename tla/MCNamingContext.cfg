CONSTANTS
  Ctx = {C1, C2}
  Ptrs = {P1, P2}
  Vals = {V1, V2}
  Missing = Missing
SPECIFICATION Spec
INVARIANT TypeOK
