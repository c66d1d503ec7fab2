\* A login and two rotations of it, or three logins, and any two requests at once.
SPECIFICATION Spec
CONSTANTS
  Session = {s1, s2, s3}
  Request = {r1, r2}
  None = None
SYMMETRY Symmetry
INVARIANTS TypeOK OneLivePerLogin LinksSound
PROPERTIES ReplayMissesOnlyRotations RefusedForGood ImplementsFamilies
