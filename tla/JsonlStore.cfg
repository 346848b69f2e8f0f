SPECIFICATION JSpec
CONSTANTS
  m1 = m1
  m2 = m2
  m3 = m3
  m4 = m4
  Msg = {m1, m2, m3, m4}
  Summary = {"", "s"}
  KeepArgs = {0, 1, 2}
  SetArgs <- MCSetArgs
  Corrupt = Corrupt
  MaxLines = 4
  MaxTears = 2
INVARIANTS
  TypeOK
  AckedVisible
  GluedBounded
  SkipWithinFile
PROPERTIES
  TruncateKeepsLast
  ImplementsPromise
CHECK_DEADLOCK FALSE
SYMMETRY MCSymmetry
