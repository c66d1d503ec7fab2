\* Two requests to the API at once: two subscriptions, one request, one group, one grant.
SPECIFICATION Spec
CONSTANTS
  Group = {g1}
  Episode = {e1}
  Request = {r1, r2}
  None = None
  Window <- MCWindow
  Days = {1}
  MaxTime = 1
  MaxEnd = 3
  MaxSub = 2
  MaxGrant = 1
  MaxAsk = 1
SYMMETRY Symmetry
INVARIANTS DeletedGroupIsGone
PROPERTIES PaidTimeKept ReviewIsFinal
