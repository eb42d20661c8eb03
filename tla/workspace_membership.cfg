CONSTANTS
  Accounts = {owner, a1}
  Owner = owner
  Requests = {r1, r2}
  CacheMayFail = FALSE
  Kept = {}
  Clients <- Joining
  Grants = {"member"}
  Newcomers = {"none"}
  MaxInvites = 2
  MaxRows = 2
SPECIFICATION Spec
SYMMETRY Interchangeable
INVARIANTS TypeOK AnswersMatchEvents JoinsMatchAcceptances LivePendingBounded PageStaleHasACause
