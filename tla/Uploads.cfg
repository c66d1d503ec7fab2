\* Two requests of a session, in R2 or staged on disk.  An upload session ends.
SPECIFICATION Spec
CONSTANTS
  Chunk = {c0, c1}
  Body = {b1, b2, b3}
  Long = {b3}
  Size <- MCSize
  Total = 3
  Request = {r1, r2}
  None = None
CHECK_DEADLOCK FALSE
SYMMETRY Symmetry
INVARIANTS BytesAddUp ObjectSound AcknowledgedCompletes
