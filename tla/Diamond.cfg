SPECIFICATION Spec
CONSTANTS
  Selector = {s1, s2}
  Address = {f1, f2, diamond, nocode}
  NoAddress = zero
  Self = diamond
  HasCode = {f1, f2, diamond}
  Requests <- AnyRequest
  MaxFrames = 2
SYMMETRY Selectors
INVARIANTS TypeOK TablesExact
PROPERTIES CutApplied ImplementsRouting
