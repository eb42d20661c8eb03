CONSTANTS
  Hits = {h1, h2, h3}
  MaxCalls = 2
  MaxCount = 4
  SignUps = {s1, s2, s3}
  MaxTries = 4
  Commands = {c1, c2, c3}
  Extensions = {png, jpg}
  NoAvatar = NoAvatar
  Notes = {n1, n2}
  Readers = {a1, a2}
  Nobody = Nobody
  Marks = {m1, m2}
  LastDay = 3
  DefaultLimit = 2
  MaxLimit = 3
  Actions = {o1, o2, o3}
  Boot = Boot
  Items = {i1, i2, i3}
SPECIFICATION Spec
CHECK_DEADLOCK FALSE
INVARIANTS TypeOK LimitHonoured OneAccountPerEmail OwnerlessWasCut AvatarStored ChangesApart TabTellsTheSession PageFollowsStore
PROPERTIES LimitLifts ReadForGood OverlayLifts
