\* Requests one at a time over two dramas and two seasons, and two that overlap over four of the rows.
SPECIFICATION MCSpec
CONSTANTS
  Drama = {d1, d2}
  Season = {s1, s2}
  Episode = {e1}
  Media = {m1}
  Request = {r1, r2}
  None = None
  MaxShared = 4
SYMMETRY Symmetry
INVARIANTS TypeOK CascadeComplete PublicationAgrees ViewsAgree
PROPERTIES BulkDeleteCompletes RestoreStaysOffAir
