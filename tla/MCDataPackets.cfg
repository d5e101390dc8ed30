SPECIFICATION Spec
CONSTANTS
  Comps = {x, y}
  None = None
SYMMETRY Symmetry
INVARIANTS TypeOK StaleIsExplained ReceivedIsKept TimestampIsNotResigned
