\* Two starts of different episodes at once.
SPECIFICATION Spec
CONSTANTS
  Device = {d1}
  Episode = {e1, e2}
  Request = {r1, r2}
  None = None
  MaxConcurrent = 1
  MaxSession = 2
  MaxCap = 2
SYMMETRY Symmetry
INVARIANT ConcurrentLimit
