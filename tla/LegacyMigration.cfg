\* Two runs of either importer and their rollbacks, cut off anywhere.
SPECIFICATION Spec
CONSTANTS
  Run = {k1, k2}
  None = None
  Source <- MCSource
  Char <- MCChar
  Dumps <- MCDumps
  MaxScript = 3
  MaxRow = 7
  MaxApp = 1
SYMMETRY Symmetry
INVARIANTS RecordsOwn ImportedOnce VerifyAgrees DumpRoundTrip
PROPERTIES RollbackAccounts
CHECK_DEADLOCK FALSE
