CONSTANTS
  BoardIds = {b1, b2}
  ColumnIds = {c1, c2}
  CardIds = {k1, k2}
  r1 = r1
  r2 = r2
  Requests = {r1, r2}
  NoRow = NoRow
  Clients <- Slots
  Roles = {"viewer", "admin"}
  MaxIndex = 2
  Unit = 1
  MaxPosition = 2
SPECIFICATION Spec
SYMMETRY Interchangeable
INVARIANTS TypeOK NoOrphans
PROPERTY PlacedWhereAsked
