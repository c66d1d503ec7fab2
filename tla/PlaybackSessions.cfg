\* Two requests at once over two sessions of one episode: every pair of operations.
SPECIFICATION Spec
CONSTANTS
  Device = {d1}
  Episode = {e1}
  Request = {r1, r2}
  None = None
  MaxConcurrent = 1
  MaxSession = 2
  MaxCap = 3
SYMMETRY Symmetry
INVARIANTS TypeOK CurrentCapabilityCached
PROPERTIES EndIsFinal
