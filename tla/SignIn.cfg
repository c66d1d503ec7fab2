\* Two requests at once: attempts, status changes and deletion requests, cut off anywhere.
SPECIFICATION Spec
CONSTANTS
  Request = {r1, r2}
  Limit = 2
  Threshold = 2
  MaxAsk = 2
SYMMETRY Symmetry
INVARIANTS ApprovalDeletes CounterExpires
PROPERTIES LockHolds
