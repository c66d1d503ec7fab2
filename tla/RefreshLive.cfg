SPECIFICATION FairSpec
CONSTANTS
  Session = {s1, s2}
  Request = {r1, r2}
  None = None
PROPERTIES RequestsEnd
