SPECIFICATION Spec
CONSTANTS
  p1 = p1
  p2 = p2
  a = a
  b = b
  Tuners = {p1, p2}
  Paths = {a, b}
  Hashes = {h1}
  Lists <- MCLists
  Statuses <- MCStatuses
  Solved <- MCSolved
  MaxSubmits = 2
INVARIANTS RowsDecode ExportIsClosed
