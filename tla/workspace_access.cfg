CONSTANTS
  Accounts = {owner, a1}
  Owner = owner
  Requests = {r1, r2}
  CacheMayFail = TRUE
  Kept = {a1}
  Clients <- Managing
  Grants = {"viewer"}
  Newcomers = {"admin"}
  MaxInvites = 1
  MaxRows = 1
SPECIFICATION Spec
SYMMETRY Interchangeable
INVARIANTS OneOwner RoleStaleHasACause
